------------------------- MODULE MqttDeliveryProofs -------------------------
(***************************************************************************)
(* Theorems on the MQTT client of MqttDelivery, for every application,     *)
(* network, broker and set of messages: its timers never outlive their     *)
(* connection, nothing waits in its queue once it is connected, and every  *)
(* connect() is answered exactly once.  The inductive invariant ties the   *)
(* client's fields to its phase, the packets on their way to that phase,   *)
(* and the callbacks made so far to both.                                  *)
(***************************************************************************)
EXTENDS MqttDelivery, FiniteSetTheorems, SequenceTheorems,
        WellFoundedInduction, TLAPS

-----------------------------------------------------------------------------
(* Types.  Fields whose value the arguments do not depend on are free.     *)
IsSequence(s) == s \in Seq(Range(s))

Sendable == {"PUBLISH", "PUBACK", "PUBREC", "PUBREL", "PUBCOMP", "SUBSCRIBE",
             "UNSUBSCRIBE", "PINGREQ", "DISCONNECT"}

IsPacket(m) ==
    m \in [type : Sendable, id : {m.id}, body : {m.body}, pubRec : {m.pubRec},
           seq : {m.seq}]

PingerType == [isReset : BOOLEAN, armed : BOOLEAN]

ClientType(c) ==
    /\ c \in [reaction : Reactions, connected : BOOLEAN,
              socket : {"none", "connecting", "open", "closed"},
              attempt : Nat, clean : BOOLEAN, hosts : Nat, hostIndex : Nat,
              queue : {c.queue}, draining : BOOLEAN, notify : BOOLEAN,
              wireMessage : {c.wireMessage}, sent : {c.sent},
              received : {c.received}, messageIdentifier : Nat,
              sequence : {c.sequence}, requests : {c.requests},
              connectTimer : BOOLEAN, requestTimers : {c.requestTimers},
              sendPinger : PingerType, receivePinger : PingerType,
              stored : [sent : {c.stored.sent}, received : {c.stored.received}],
              out : {c.out}, calls : {c.calls}, threw : BOOLEAN]
    /\ IsSequence(c.queue) /\ IsSequence(c.out) /\ IsSequence(c.calls)

NetType(n) ==
    /\ n \in [state : {n.state}, toBroker : {n.toBroker},
              toClient : {n.toClient}, residual : {n.residual},
              closed : BOOLEAN, accepted : BOOLEAN]
    /\ IsSequence(n.toBroker) /\ IsSequence(n.toClient)

ResultType == [DOMAIN NoResult -> Nat]

Results == [1 .. MaxAttempts -> ResultType]

(* What the client keeps: publications that can be encoded, unless one of  *)
(* those that cannot is to be acknowledged; and requests.                  *)
FewMisspelt == \A m \in Unencodable \cap Messages : QoS[m] = 0

Keepable(m) == IsPacket(m) /\ (FewMisspelt => Encodable(m))

Kept(map) == /\ IsFiniteSet(DOMAIN map) /\ DOMAIN map \subseteq Nat
             /\ \A id \in DOMAIN map : Keepable(map[id])

Keeping(c) == Kept(c.sent) /\ Kept(c.stored.sent)

(* Every connection belongs to an attempt.                                 *)
Attempting(c) == /\ c.attempt <= MaxAttempts
                 /\ c.socket # "none" => c.attempt # 0

(* No timer without a connection, no ping before it is open; the timer of  *)
(* the connect call runs until it has succeeded or failed.                 *)
TimersRight(c) ==
    /\ c.connectTimer <=> c.socket # "none" /\ ~ c.connected
    /\ c.sendPinger.armed \/ c.receivePinger.armed => c.socket = "open"

(* A client that is connected has used up its hosts.                       *)
HostsRight(c) == c.connected => c.hosts = 0 \/ c.hostIndex >= c.hosts

(* What waits in the queue can be sent.  A client that is connected has    *)
(* its socket open.                                                        *)
AllSendable(queue) == \A i \in DOMAIN queue : IsPacket(queue[i])

Waiting(queue) == \A i \in DOMAIN queue : Encodable(queue[i])

QueueRight(c) == /\ AllSendable(c.queue) /\ Waiting(c.queue)
                 /\ c.connected => c.socket = "open"
                 /\ c.socket # "closed"

(* The packets of a connection, by its phase                               *)
No(type, packets) == \A i \in DOMAIN packets : packets[i].type # type

Fresh(n) == /\ n.toBroker = <<>> /\ n.toClient = <<>>
            /\ ~ n.accepted /\ ~ n.closed

Asking(n) == /\ n.toBroker # <<>> /\ n.toBroker[1].type = "CONNECT"
             /\ No("CONNECT", Tail(n.toBroker))
             /\ n.toClient = <<>>
             /\ ~ n.accepted /\ ~ n.closed

Answered(n) == /\ n.toClient # <<>> /\ n.toClient[1].type = "CONNACK"
               /\ No("CONNACK", Tail(n.toClient))
               /\ No("CONNECT", n.toBroker)

Serving(n) == No("CONNECT", n.toBroker) /\ No("CONNACK", n.toClient)

NetRight(c, n) ==
    /\ c.socket = "connecting" => Fresh(n)
    /\ c.socket = "open" => IF c.connected THEN Serving(n)
                                           ELSE Asking(n) \/ Answered(n)

(* The callbacks of each attempt, by the phase of the client: r is what    *)
(* they were called, k how often onSuccess was in a connected client.      *)
Final(r) == /\ r.onSuccess + r.onFailure = 1
            /\ r.onConnectionLost = r.onSuccess

Called(r, n) == r.onSuccess = n /\ r.onFailure = 0 /\ r.onConnectionLost = 0

Phase(c, r, k) == IF c.connected THEN Called(r, k)
                  ELSE IF c.socket = "none" THEN Final(r)
                  ELSE Called(r, 0)

NoEarly(res, a) == \A b \in 1 .. a : res[b].early = 0

Clear(res, a) == NoEarly(res, a) /\ res[a].reloaded = 0

Listens(c) == /\ c.reaction.onSuccess # "absent"
              /\ c.reaction.onFailure # "absent"
              /\ c.reaction.onConnectionLost # "absent"

Untouched(r) == Called(r, 0) /\ r.early = 0 /\ r.reloaded = 0

Answering(c, res, k) ==
    FewMisspelt /\ Listens(c) =>
        \A a \in 1 .. MaxAttempts :
            /\ a > c.attempt => Untouched(res[a])
            /\ Clear(res, a) =>
                   /\ a < c.attempt => Final(res[a])
                   /\ a = c.attempt => Phase(c, res[a], k)

(* A disconnect() that waits for the connection was counted.               *)
Counted(c, res) ==
    FewMisspelt /\ Listens(c) => ~ NoEarly(res, c.attempt)

EarlyRight(c, res, k) ==
    c.notify /\ (~ c.connected \/ k = 0) => Counted(c, res)

(* A client with its network and the callbacks made so far                 *)
Right(c, n, res, k) ==
    /\ ClientType(c) /\ Keeping(c) /\ Attempting(c) /\ TimersRight(c)
    /\ HostsRight(c) /\ QueueRight(c) /\ NetType(n) /\ NetRight(c, n)
    /\ res \in Results /\ Answering(c, res, k) /\ EarlyRight(c, res, k)

(* The end of a turn: nothing waits in the queue of a client that is       *)
(* connected, and the callback that disconnect() leaves waits for what     *)
(* waits.                                                                  *)
Settled(c) == /\ c.connected => c.queue = <<>>
              /\ c.notify => c.queue # <<>>
              /\ ~ c.draining

Between(c) == c.out = <<>> /\ c.calls = <<>> /\ ~ c.threw

SessionType == /\ IsFiniteSet(DOMAIN session.inflight)
               /\ session = [held |-> session.held, inflight |-> session.inflight]

IInv == /\ Right(client, net, results, 1) /\ Settled(client)
        /\ Between(client) /\ SessionType
-----------------------------------------------------------------------------
(* Induction up to a bound: least elements of sets of natural numbers.     *)
LEMMA Least ==
  ASSUME NEW T \in SUBSET Nat, T # {}
  PROVE  \E x \in T : \A y \in T : x <= y
<1> DEFINE R == {ss \in Nat \X Nat : ss[1] < ss[2]}
<1>1. IsWellFoundedOn(R, Nat)
  BY NatLessThanWellFounded DEF OpToRel
<1>2. PICK x \in T : \A y \in T : ~ (<<y, x>> \in R)
  BY <1>1, WFMin
<1>3. ASSUME NEW y \in T PROVE x <= y
  <2>1. x \in Nat /\ y \in Nat /\ <<y, x>> \in Nat \X Nat
    OBVIOUS
  <2>2. ~ (<<y, x>>[1] < <<y, x>>[2])
    BY <1>2, <2>1
  <2> QED
    BY <2>1, <2>2
<1> QED
  BY <1>3

(* Induction on the numbers up to n, for a set of them.                    *)
LEMMA Induction ==
  ASSUME NEW n \in Nat, NEW T \in SUBSET (0 .. n), 0 \in T,
         \A k \in 0 .. n - 1 : k \in T => k + 1 \in T
  PROVE  T = 0 .. n
<1> SUFFICES ASSUME (0 .. n) \ T # {} PROVE FALSE
  OBVIOUS
<1>1. (0 .. n) \ T \in SUBSET Nat
  OBVIOUS
<1>2. PICK x \in (0 .. n) \ T : \A y \in (0 .. n) \ T : x <= y
  BY <1>1, Least
<1>3. x # 0 /\ x - 1 \in T
  BY <1>2
<1> QED
  BY <1>2, <1>3

(* A set of numbers up to k that has k in it has k as its maximum.         *)
LEMMA GreatestOf ==
  ASSUME NEW k \in Nat, NEW s \in SUBSET (1 .. k), k \in s
  PROVE  Max(s) = k
<1>1. \A y \in s : y \in Nat /\ k >= y
  OBVIOUS
<1>2. \A x \in s : (\A y \in s : x >= y) => x = k
  BY <1>1
<1> QED
  BY <1>1, <1>2 DEF Max

(* The four operators that the model folds with.  The lemmas on folds are  *)
(* stated for all four at once, since no lemma can take an operator.       *)
Step(op, x, m) == CASE op = "send" -> SendNext(x, m)
                    [] op = "resend" -> Resend(x, m)
                    [] op = "sort" -> MoveBack(x, m)
                    [] op = "net" -> SocketStep(x, m)

(* FoldLeft is defined by recursion over sets of indices: the function it  *)
(* asks for exists, and is a walk along the sequence, of which f[k] is the *)
(* result of the first k elements.                                         *)
Recursive(it, op, base, seq, k) ==
    it = [s \in SUBSET (1 .. k) |->
             IF s = {} THEN base
             ELSE LET x == Max(s) IN Step(op, it[s \ {x}], seq[x])]

(* By induction on the length: the function for one element more takes the *)
(* last element on top of the function so far.                             *)
LEMMA FoldExists ==
  ASSUME NEW op, NEW base, NEW seq, IsSequence(seq)
  PROVE  \E it : Recursive(it, op, base, seq, Len(seq))
<1> DEFINE n == Len(seq)
           F(it, k) == [s \in SUBSET (1 .. k) |->
                           IF s = {} THEN base
                           ELSE LET x == Max(s)
                                IN  Step(op, it[s \ {x}], seq[x])]
           T == {k \in 0 .. n : \E it : it = F(it, k)}
<1>1. n \in Nat /\ DOMAIN seq = 1 .. n
  BY DEF IsSequence
<1>2. 0 \in T
  <2> DEFINE it == [s \in SUBSET (1 .. 0) |-> base]
  <2>1. 1 .. 0 = {}
    OBVIOUS
  <2>2. it = F(it, 0)
    BY <2>1
  <2> QED
    BY <1>1, <2>2
<1>3. ASSUME NEW k \in 0 .. n - 1, k \in T PROVE k + 1 \in T
  <2>1. PICK it : it = F(it, k)
    BY <1>3
  <2> DEFINE new == [s \in SUBSET (1 .. k + 1) |->
                        IF k + 1 \in s
                        THEN Step(op, it[s \ {k + 1}], seq[k + 1])
                        ELSE it[s]]
  <2>2. ASSUME NEW s \in SUBSET (1 .. k) PROVE new[s] = it[s]
    BY <1>1, <2>2, k + 1 \notin s, s \in SUBSET (1 .. k + 1)
  <2>3. ASSUME NEW s \in SUBSET (1 .. k + 1)
        PROVE  new[s] = F(new, k + 1)[s]
    <3>1. CASE k + 1 \in s
      <4>1. Max(s) = k + 1
        BY <1>1, <3>1, GreatestOf
      <4>2. s \ {k + 1} \in SUBSET (1 .. k)
        BY <1>1
      <4>3. new[s \ {k + 1}] = it[s \ {k + 1}]
        BY <2>2, <4>2
      <4>4. new[s] = Step(op, it[s \ {k + 1}], seq[k + 1])
        BY <3>1
      <4>5. F(new, k + 1)[s] = Step(op, new[s \ {k + 1}], seq[k + 1])
        <5> HIDE DEF new
        <5> QED BY <3>1, <4>1
      <4> QED
        BY <4>3, <4>4, <4>5
    <3>2. CASE k + 1 \notin s
      <4>1. s \in SUBSET (1 .. k)
        BY <1>1, <3>2
      <4>2. \A x : s \ {x} \in SUBSET (1 .. k)
        BY <4>1
      <4>3. \A x : new[s \ {x}] = it[s \ {x}]
        BY <2>2, <4>2
      <4>4. new[s] = it[s]
        BY <2>2, <4>1
      <4>5. it[s] = IF s = {} THEN base ELSE Step(op, it[s \ {Max(s)}], seq[Max(s)])
        <5> HIDE DEF new
        <5> QED BY <2>1, <4>1
      <4>6. F(new, k + 1)[s] = IF s = {} THEN base
                               ELSE Step(op, new[s \ {Max(s)}], seq[Max(s)])
        <5> HIDE DEF new
        <5> QED OBVIOUS
      <4>7. new[s \ {Max(s)}] = it[s \ {Max(s)}]
        BY <4>3
      <4> HIDE DEF new, F
      <4> QED
        BY <4>4, <4>5, <4>6, <4>7
    <3> QED
      BY <3>1, <3>2
  <2>4. new = F(new, k + 1)
    <3>1. new = [s \in SUBSET (1 .. k + 1) |-> new[s]]
      OBVIOUS
    <3>2. F(new, k + 1) = [s \in SUBSET (1 .. k + 1) |-> F(new, k + 1)[s]]
      OBVIOUS
    <3> HIDE DEF new, F
    <3> QED
      BY <2>3, <3>1, <3>2
  <2>5. k + 1 \in 0 .. n
    BY <1>1
  <2> HIDE DEF new, F
  <2> QED
    BY <2>4, <2>5
<1>4. n \in T
  <2>1. T \in SUBSET (0 .. n)
    OBVIOUS
  <2> HIDE DEF T
  <2>2. T = 0 .. n
    BY <1>1, <1>2, <1>3, <2>1, Induction
  <2> QED
    BY <1>1, <2>2
<1> QED
  BY <1>4 DEF Recursive

(* The prefixes of the sequence are the sets of indices that matter.       *)
LEMMA FoldWalks ==
  ASSUME NEW op, NEW base, NEW seq, IsSequence(seq),
         NEW it, Recursive(it, op, base, seq, Len(seq))
  PROVE  \E f : /\ f[0] = base
                /\ \A k \in 1 .. Len(seq) : f[k] = Step(op, f[k - 1], seq[k])
                /\ it[1 .. Len(seq)] = f[Len(seq)]
<1> DEFINE n == Len(seq)
           f == [k \in 0 .. n |-> it[1 .. k]]
<1>1. n \in Nat
  BY DEF IsSequence
<1> HIDE DEF n
<1>2. it = [s \in SUBSET (1 .. n) |->
               IF s = {} THEN base
               ELSE LET x == Max(s) IN Step(op, it[s \ {x}], seq[x])]
  BY DEF Recursive, n
<1>3. f[0] = base
  <2>1. 1 .. 0 = {} /\ 0 \in 0 .. n
    BY <1>1
  <2>2. it[{}] = base
    BY <1>2
  <2> QED
    BY <2>1, <2>2
<1>4. ASSUME NEW k \in 1 .. n PROVE f[k] = Step(op, f[k - 1], seq[k])
  <2>1. /\ k - 1 \in 0 .. n /\ k \in 0 .. n /\ k \in Nat
        /\ (1 .. k) \ {k} = 1 .. k - 1
    BY <1>1
  <2>2. k \in 1 .. k /\ \A x \in 1 .. k : x \in 1 .. n
    BY <1>1
  <2>3. 1 .. k \in SUBSET (1 .. n) /\ 1 .. k # {} /\ 1 .. k \in SUBSET (1 .. k)
    BY <2>2
  <2>4. Max(1 .. k) = k
    BY <2>1, <2>2, <2>3, GreatestOf
  <2>5. it[1 .. k] = Step(op, it[(1 .. k) \ {k}], seq[k])
    BY <1>2, <2>3, <2>4
  <2>6. f[k] = it[1 .. k] /\ f[k - 1] = it[1 .. k - 1]
    BY <2>1
  <2> HIDE DEF f
  <2> QED
    BY <2>1, <2>5, <2>6
<1>5. f[n] = it[1 .. n]
  BY <1>1
<1> HIDE DEF f
<1> QED
  BY <1>3, <1>4, <1>5 DEF n

(* The same for each of the four operators.                                *)
LEMMA SendWalk ==
  ASSUME NEW base, NEW seq, IsSequence(seq)
  PROVE  \E f : /\ f[0] = base
                /\ \A k \in 1 .. Len(seq) : f[k] = SendNext(f[k - 1], seq[k])
                /\ FoldLeft(SendNext, base, seq) = f[Len(seq)]
<1>1. \A x, m : Step("send", x, m) = SendNext(x, m)
  BY DEF Step
<1> DEFINE F(it) == [s \in SUBSET (1 .. Len(seq)) |->
                        IF s = {} THEN base
                        ELSE LET x == Max(s) IN SendNext(it[s \ {x}], seq[x])]
           fold == CHOOSE it : it = F(it)
<1>2. \A it : Recursive(it, "send", base, seq, Len(seq)) <=> it = F(it)
  BY <1>1 DEF Recursive
<1>3. fold = F(fold)
  BY <1>2, FoldExists
<1>4. DOMAIN seq = 1 .. Len(seq)
  BY DEF IsSequence
<1>5. FoldLeft(SendNext, base, seq) = fold[1 .. Len(seq)]
  BY <1>4 DEF FoldLeft, MapThenFoldSet
<1> HIDE DEF fold
<1>6. Recursive(fold, "send", base, seq, Len(seq))
  BY <1>2, <1>3
<1> HIDE DEF F
<1> QED
  BY <1>1, <1>5, <1>6, FoldWalks

(* For the messages that are sent again after a CONNACK.                   *)
LEMMA ResendWalk ==
  ASSUME NEW base, NEW seq, IsSequence(seq)
  PROVE  \E f : /\ f[0] = base
                /\ \A k \in 1 .. Len(seq) : f[k] = Resend(f[k - 1], seq[k])
                /\ FoldLeft(Resend, base, seq) = f[Len(seq)]
<1>1. \A x, m : Step("resend", x, m) = Resend(x, m)
  BY DEF Step
<1> DEFINE F(it) == [s \in SUBSET (1 .. Len(seq)) |->
                        IF s = {} THEN base
                        ELSE LET x == Max(s) IN Resend(it[s \ {x}], seq[x])]
           fold == CHOOSE it : it = F(it)
<1>2. \A it : Recursive(it, "resend", base, seq, Len(seq)) <=> it = F(it)
  BY <1>1 DEF Recursive
<1>3. fold = F(fold)
  BY <1>2, FoldExists
<1>4. DOMAIN seq = 1 .. Len(seq)
  BY DEF IsSequence
<1>5. FoldLeft(Resend, base, seq) = fold[1 .. Len(seq)]
  BY <1>4 DEF FoldLeft, MapThenFoldSet
<1> HIDE DEF fold
<1>6. Recursive(fold, "resend", base, seq, Len(seq))
  BY <1>2, <1>3
<1> HIDE DEF F
<1> QED
  BY <1>1, <1>5, <1>6, FoldWalks

Sorted(base, seq) == FoldLeft(MoveBack, base, seq)

(* For the sorting of those messages.                                      *)
LEMMA SortWalk ==
  ASSUME NEW base, NEW seq, IsSequence(seq)
  PROVE  \E f : /\ f[0] = base
                /\ \A k \in 1 .. Len(seq) : f[k] = MoveBack(f[k - 1], seq[k])
                /\ Sorted(base, seq) = f[Len(seq)]
<1>1. \A x, m : Step("sort", x, m) = MoveBack(x, m)
  BY DEF Step
<1> DEFINE F(it) == [s \in SUBSET (1 .. Len(seq)) |->
                        IF s = {} THEN base
                        ELSE LET x == Max(s) IN MoveBack(it[s \ {x}], seq[x])]
           fold == CHOOSE it : it = F(it)
<1>2. \A it : Recursive(it, "sort", base, seq, Len(seq)) <=> it = F(it)
  BY <1>1 DEF Recursive
<1>3. fold = F(fold)
  BY <1>2, FoldExists
<1>4. DOMAIN seq = 1 .. Len(seq)
  BY DEF IsSequence
<1>5. FoldLeft(MoveBack, base, seq) = fold[1 .. Len(seq)]
  BY <1>4 DEF FoldLeft, MapThenFoldSet
<1> HIDE DEF fold
<1>6. Recursive(fold, "sort", base, seq, Len(seq))
  BY <1>2, <1>3
<1> HIDE DEF F
<1> QED
  BY <1>1, <1>5, <1>6, FoldWalks DEF Sorted

(* What a turn has done so far to the network.                             *)
Wire(n, out) == FoldLeft(SocketStep, n, out)

(* For what a turn did to its sockets.                                     *)
LEMMA NetWalk ==
  ASSUME NEW base, NEW seq, IsSequence(seq)
  PROVE  \E f : /\ f[0] = base
                /\ \A k \in 1 .. Len(seq) : f[k] = SocketStep(f[k - 1], seq[k])
                /\ Wire(base, seq) = f[Len(seq)]
<1>1. \A x, m : Step("net", x, m) = SocketStep(x, m)
  BY DEF Step
<1> DEFINE F(it) == [s \in SUBSET (1 .. Len(seq)) |->
                        IF s = {} THEN base
                        ELSE LET x == Max(s) IN SocketStep(it[s \ {x}], seq[x])]
           fold == CHOOSE it : it = F(it)
<1>2. \A it : Recursive(it, "net", base, seq, Len(seq)) <=> it = F(it)
  BY <1>1 DEF Recursive
<1>3. fold = F(fold)
  BY <1>2, FoldExists
<1>4. DOMAIN seq = 1 .. Len(seq)
  BY DEF IsSequence
<1>5. FoldLeft(SocketStep, base, seq) = fold[1 .. Len(seq)]
  BY <1>4 DEF FoldLeft, MapThenFoldSet
<1> HIDE DEF fold
<1>6. Recursive(fold, "net", base, seq, Len(seq))
  BY <1>2, <1>3
<1> HIDE DEF F
<1> QED
  BY <1>1, <1>5, <1>6, FoldWalks DEF Wire

-----------------------------------------------------------------------------
(* Identifiers                                                             *)

(* Counting the smaller ones numbers the elements of a finite set.         *)
LEMMA AscendingFacts ==
  ASSUME NEW S \in SUBSET Nat, IsFiniteSet(S)
  PROVE  /\ Ascending(S) \in [1 .. Cardinality(S) -> S]
         /\ Cardinality(S) \in Nat
         /\ \A i, j \in 1 .. Cardinality(S) :
                Ascending(S)[i] = Ascending(S)[j] => i = j
<1> DEFINE below(x) == {i \in S : i < x}
           n == Cardinality(S)
           rank == [x \in S |-> Cardinality(below(x)) + 1]
<1>1. n \in Nat
  BY FS_CardinalityType
<1>2. ASSUME NEW x \in S
      PROVE  /\ IsFiniteSet(below(x)) /\ Cardinality(below(x)) \in Nat
             /\ Cardinality(below(x)) < n
  <2>1. below(x) \in SUBSET S /\ x \notin below(x)
    OBVIOUS
  <2>2. IsFiniteSet(below(x)) /\ Cardinality(below(x)) <= n
        /\ (n = Cardinality(below(x)) => S = below(x))
    BY <2>1, FS_Subset
  <2>3. Cardinality(below(x)) \in Nat
    BY <2>2, FS_CardinalityType
  <2> HIDE DEF below
  <2> QED
    BY <1>1, <2>1, <2>2, <2>3
<1>3. ASSUME NEW x \in S, NEW y \in S, x < y
      PROVE  Cardinality(below(x)) < Cardinality(below(y))
  <2>0. \A i \in S : i < x => i < y
    BY <1>3
  <2>1. below(x) \in SUBSET below(y)
    BY <2>0
  <2>4. x \in below(y) /\ x \notin below(x)
    BY <1>3
  <2>2. /\ Cardinality(below(x)) <= Cardinality(below(y))
        /\ Cardinality(below(y)) = Cardinality(below(x)) => below(y) = below(x)
    BY <1>2, <2>1, FS_Subset
  <2>3. Cardinality(below(x)) \in Nat /\ Cardinality(below(y)) \in Nat
    BY <1>2
  <2> HIDE DEF below
  <2> QED
    BY <2>2, <2>3, <2>4
<1> HIDE DEF below
<1>4. rank \in [S -> 1 .. n]
  BY <1>1, <1>2
<1>5. \A x, y \in S : rank[x] = rank[y] => x = y
  <2> SUFFICES ASSUME NEW x \in S, NEW y \in S, x # y PROVE rank[x] # rank[y]
    OBVIOUS
  <2>1. x < y \/ y < x
    OBVIOUS
  <2>2. Cardinality(below(x)) # Cardinality(below(y))
    BY <1>2, <1>3, <2>1
  <2> QED
    BY <1>2, <2>2
<1> HIDE DEF rank
<1>6. rank \in Injection(S, 1 .. n)
  BY <1>4, <1>5 DEF Injection, IsInjective
<1>7. IsFiniteSet(1 .. n) /\ Cardinality(1 .. n) = n
  BY <1>1, FS_Interval
<1>8. rank \in Surjection(S, 1 .. n)
  BY <1>6, <1>7, FS_Injection
<1>9. ASSUME NEW k \in 1 .. n
      PROVE  \E x \in S : Cardinality(below(x)) = k - 1
  <2>1. PICK x \in S : rank[x] = k
    BY <1>8 DEF Surjection
  <2> QED
    BY <1>2, <2>1 DEF rank
<1>10. ASSUME NEW k \in 1 .. n
       PROVE  LET x == CHOOSE id \in S : Cardinality(below(id)) = k - 1
              IN  x \in S /\ Cardinality(below(x)) = k - 1
  BY <1>9, <1>10
<1> DEFINE ids == Ascending(S)
<1>11. /\ ids \in [1 .. n -> S]
       /\ \A k \in 1 .. n : Cardinality(below(ids[k])) = k - 1
  BY <1>10 DEF Ascending, below
<1> HIDE DEF ids
<1>12. ASSUME NEW i \in 1 .. n, NEW j \in 1 .. n, ids[i] = ids[j] PROVE i = j
  <2>1. i - 1 = j - 1
    BY <1>11, <1>12
  <2> QED
    BY <1>1, <2>1
<1> QED
  BY <1>1, <1>11, <1>12 DEF ids

(* There is a free identifier, and the client takes the least.             *)
LEMMA FreeIdentifier ==
  ASSUME NEW c, c.messageIdentifier \in Nat, IsFiniteSet(DOMAIN c.sent)
  PROVE  UnusedIdentifier(c) \in Nat /\ UnusedIdentifier(c) \notin DOMAIN c.sent
<1> DEFINE last == c.messageIdentifier
           n == Cardinality(DOMAIN c.sent)
           free == (last .. last + n) \ DOMAIN c.sent
<1>1. n \in Nat /\ last \in Nat
  BY FS_CardinalityType
<1>2. Cardinality(last .. last + n) = n + 1
  BY <1>1, FS_Interval
<1>3. free # {}
  <2> SUFFICES ASSUME last .. last + n \in SUBSET DOMAIN c.sent PROVE FALSE
    OBVIOUS
  <2>1. Cardinality(last .. last + n) <= n
    BY FS_Subset
  <2> HIDE DEF n, last
  <2> QED
    BY <1>1, <1>2, <2>1
<1>4. free \in SUBSET Nat
  BY <1>1
<1>5. \E id \in free : \A i \in free : id <= i
  <2> HIDE DEF free
  <2> QED BY <1>3, <1>4, Least
<1>6. UnusedIdentifier(c) = CHOOSE id \in free : \A i \in free : id <= i
  BY DEF UnusedIdentifier
<1>7. UnusedIdentifier(c) \in free
  <2> HIDE DEF free
  <2> QED BY <1>5, <1>6
<1> QED
  BY <1>1, <1>7

(* The messages to be sent again are those that were kept.                 *)
Distinct(s) == \A i, j \in DOMAIN s : s[i].id = s[j].id => i = j

LEMMA MoveBackFacts ==
  ASSUME NEW S, NEW sorted \in Seq(S), NEW m \in S
  PROVE  LET t == MoveBack(sorted, m)
         IN  /\ t \in Seq(S) /\ Len(t) = Len(sorted) + 1
             /\ \A i \in DOMAIN t :
                    t[i] = m \/ \E j \in DOMAIN sorted : t[i] = sorted[j]
             /\ /\ Distinct(sorted)
                /\ \A j \in DOMAIN sorted : sorted[j].id # m.id
                => Distinct(t)
<1> DEFINE n == Len(sorted)
           larger(i) == sorted[i].seq > m.seq /\ m.seq # 0
           places == {k \in 0 .. n : /\ \A i \in k + 1 .. n : larger(i)
                                     /\ k > 0 => ~ larger(k)}
           ends == {k \in 0 .. n : \A i \in k + 1 .. n : larger(i)}
           at == CHOOSE k \in places : TRUE
<1>1. n \in Nat
  OBVIOUS
<1> HIDE DEF n, larger
<1>2. n \in ends /\ ends \in SUBSET Nat
  BY <1>1
<1>3. PICK k \in ends : \A j \in ends : k <= j
  <2> HIDE DEF ends
  <2> QED BY <1>2, Least
<1>4. k \in places
  <2> SUFFICES ASSUME k > 0, larger(k) PROVE FALSE
    BY <1>3
  <2>1. k - 1 \in ends
    BY <1>1, <1>3
  <2> QED
    BY <1>1, <1>3, <2>1
<1>5. at \in 0 .. n
  BY <1>4
<1>6. MoveBack(sorted, m) = SubSeq(sorted, 1, at) \o <<m>>
                                \o SubSeq(sorted, at + 1, n)
  BY DEF MoveBack, n, larger
<1> HIDE DEF at
<1>7. /\ SubSeq(sorted, 1, at) \in Seq(S) /\ Len(SubSeq(sorted, 1, at)) = at
      /\ \A i \in 1 .. at : SubSeq(sorted, 1, at)[i] = sorted[i]
  BY <1>1, <1>5, SubSeqProperties DEF n
<1>8. /\ SubSeq(sorted, at + 1, n) \in Seq(S)
      /\ Len(SubSeq(sorted, at + 1, n)) = n - at
      /\ \A i \in 1 .. n - at : SubSeq(sorted, at + 1, n)[i] = sorted[at + i]
  BY <1>1, <1>5, SubSeqProperties DEF n
<1>9. <<m>> \in Seq(S) /\ Len(<<m>>) = 1 /\ <<m>>[1] = m
  OBVIOUS
<1> DEFINE front == SubSeq(sorted, 1, at)
           back == SubSeq(sorted, at + 1, n)
<1> HIDE DEF front, back
<1>10. /\ front \o <<m>> \in Seq(S) /\ Len(front \o <<m>>) = at + 1
       /\ \A i \in 1 .. at : (front \o <<m>>)[i] = sorted[i]
       /\ (front \o <<m>>)[at + 1] = m
  BY <1>5, <1>7, <1>9 DEF front
<1> DEFINE first == front \o <<m>>
           t == first \o back
           l == Len(first)
<1>20. /\ first \in Seq(S) /\ l = at + 1
       /\ \A i \in 1 .. at : first[i] = sorted[i]
       /\ first[at + 1] = m
  BY <1>10
<1>21. back \in Seq(S) /\ Len(back) = n - at
  BY <1>8 DEF back
<1> HIDE DEF first
<1>22. /\ t \in Seq(S) /\ Len(t) = l + Len(back)
       /\ \A i \in 1 .. l + Len(back) :
              t[i] = IF i <= l THEN first[i] ELSE back[i - l]
  <2>1. first \in Seq(S) /\ back \in Seq(S)
    BY <1>20, <1>21
  <2> QED
    BY ONLY <2>1, ConcatProperties
<1>11. /\ t \in Seq(S) /\ Len(t) = (at + 1) + (n - at)
       /\ \A i \in 1 .. (at + 1) + (n - at) :
              t[i] = IF i <= at + 1 THEN first[i] ELSE back[i - (at + 1)]
  BY <1>20, <1>21, <1>22
<1>12. MoveBack(sorted, m) = t
  BY <1>6 DEF front, back, first
<1> HIDE DEF t
<1>13. (at + 1) + (n - at) = n + 1
  BY <1>1, <1>5
<1>14. /\ t \in Seq(S) /\ Len(t) = n + 1 /\ DOMAIN t = 1 .. n + 1
       /\ DOMAIN sorted = 1 .. n
  BY <1>11, <1>13 DEF n
<1> DEFINE from(i) == IF i <= at THEN i ELSE i - 1
<1>15. ASSUME NEW i \in 1 .. n + 1
       PROVE  /\ i = at + 1 => t[i] = m
              /\ i # at + 1 => from(i) \in 1 .. n /\ t[i] = sorted[from(i)]
  <2>1. t[i] = IF i <= at + 1 THEN first[i] ELSE back[i - (at + 1)]
    BY <1>11, <1>13
  <2>2. CASE i <= at
    BY <1>1, <1>5, <1>20, <2>1, <2>2
  <2>3. CASE i = at + 1
    BY <1>5, <1>20, <2>1, <2>3
  <2>4. CASE i > at + 1
    <3> DEFINE j == i - (at + 1)
    <3>1. j \in 1 .. n - at /\ at + j = i - 1 /\ ~ (i <= at + 1)
      BY <1>1, <1>5, <2>4
    <3>2. back[j] = sorted[at + j]
      BY <1>8, <3>1 DEF back
    <3> QED
      BY <1>1, <1>5, <2>1, <2>4, <3>1, <3>2
  <2> QED
    BY <1>5, <2>2, <2>3, <2>4
<1>16. \A i, j \in 1 .. n + 1 :
           i # at + 1 /\ j # at + 1 /\ from(i) = from(j) => i = j
  BY <1>1, <1>5
<1> HIDE DEF from
<1>17. \A i \in DOMAIN t :
           t[i] = m \/ \E j \in DOMAIN sorted : t[i] = sorted[j]
  BY <1>14, <1>15
<1>18. ASSUME Distinct(sorted), \A j \in DOMAIN sorted : sorted[j].id # m.id,
              NEW i \in DOMAIN t, NEW j \in DOMAIN t, t[i].id = t[j].id
       PROVE  i = j
  BY <1>14, <1>15, <1>16, <1>18 DEF Distinct
<1>19. /\ Distinct(sorted)
       /\ \A j \in DOMAIN sorted : sorted[j].id # m.id
       => Distinct(t)
  BY <1>18 DEF Distinct
<1> QED
  BY <1>12, <1>14, <1>17, <1>19 DEF n

(* Sorting keeps every message and adds none.                              *)
LEMMA SequencedFacts ==
  ASSUME NEW sent, IsFiniteSet(DOMAIN sent), DOMAIN sent \in SUBSET Nat
  PROVE  LET s == SequencedMessages(sent)
         IN  /\ IsSequence(s)
             /\ Len(s) = Cardinality(DOMAIN sent)
             /\ \A i \in DOMAIN s : \E id \in DOMAIN sent : s[i] = sent[id]
             /\ (\A id \in DOMAIN sent : sent[id].id = id) => Distinct(s)
<1> DEFINE ids == Ascending(DOMAIN sent)
           n == Cardinality(DOMAIN sent)
           S == {sent[id] : id \in DOMAIN sent}
           msgs == [i \in DOMAIN ids |-> sent[ids[i]]]
           named == \A id \in DOMAIN sent : sent[id].id = id
           Early(t, k) == \A i \in DOMAIN t : \E j \in 1 .. k : t[i] = msgs[j]
<1>1. /\ ids \in [1 .. n -> DOMAIN sent] /\ n \in Nat
      /\ \A i, j \in 1 .. n : ids[i] = ids[j] => i = j
  BY AscendingFacts
<1> HIDE DEF ids, n
<1>2. /\ msgs \in Seq(S) /\ Len(msgs) = n
      /\ named => \A i, j \in 1 .. n : msgs[i].id = msgs[j].id => i = j
  BY <1>1
<1> HIDE DEF named
<1>3. IsSequence(msgs)
  BY <1>1, <1>2 DEF IsSequence, Range
<1> HIDE DEF msgs
<1>4. PICK f : /\ f[0] = <<>>
               /\ \A k \in 1 .. Len(msgs) : f[k] = MoveBack(f[k - 1], msgs[k])
               /\ Sorted(<<>>, msgs) = f[Len(msgs)]
  BY <1>3, SortWalk
<1> DEFINE Walked(t, k) == /\ t \in Seq(S) /\ Len(t) = k /\ Early(t, k)
                           /\ named => Distinct(t)
           T == {k \in 0 .. n : Walked(f[k], k)}
<1> HIDE DEF S
<1>5. 0 \in T
  <2> DEFINE t == <<>>
  <2>1. t \in Seq(S) /\ Len(t) = 0 /\ DOMAIN t = {}
    OBVIOUS
  <2>2. f[0] = t
    BY <1>4
  <2> HIDE DEF t
  <2>3. Walked(t, 0)
    BY <2>1 DEF Distinct
  <2>4. 0 \in 0 .. n
    BY <1>1
  <2> HIDE DEF Walked
  <2> QED
    BY <2>2, <2>3, <2>4
<1>6. ASSUME NEW k \in 0 .. n - 1, k \in T PROVE k + 1 \in T
  <2>1. /\ k \in Nat /\ k + 1 \in 1 .. n /\ k + 1 \in 0 .. n /\ k = (k + 1) - 1
        /\ \A j \in 1 .. k : j \in 1 .. n /\ j # k + 1 /\ j \in 1 .. k + 1
        /\ k + 1 \in 1 .. k + 1
    BY <1>1
  <2> DEFINE sorted == f[k]
             m == msgs[k + 1]
             t == MoveBack(sorted, m)
  <2>2. m \in S
    BY <1>2, <2>1, ElementOfSeq
  <2>3. f[k + 1] = t
    BY <1>2, <1>4, <2>1
  <2>4. Walked(sorted, k)
    <3> HIDE DEF Walked
    <3> QED
      BY <1>6
  <2>5. named => \A j \in 1 .. k : msgs[j].id # m.id
    BY <1>2, <2>1
  <2>6. m = msgs[k + 1]
    OBVIOUS
  <2> HIDE DEF sorted, m
  <2>7. DOMAIN sorted = 1 .. k
    BY <2>4
  <2>8. /\ t \in Seq(S) /\ Len(t) = Len(sorted) + 1
        /\ \A i \in DOMAIN t :
               t[i] = m \/ \E j \in DOMAIN sorted : t[i] = sorted[j]
        /\ /\ Distinct(sorted)
           /\ \A j \in DOMAIN sorted : sorted[j].id # m.id
           => Distinct(t)
    BY <2>2, <2>4, MoveBackFacts
  <2> HIDE DEF t
  <2>9. Early(t, k + 1)
    BY <2>1, <2>4, <2>6, <2>7, <2>8
  <2>10. named => Distinct(t)
    <3>1. named => \A j \in DOMAIN sorted : sorted[j].id # m.id
      BY <2>4, <2>5
    <3> HIDE DEF Early
    <3>2. named => Distinct(sorted)
      BY <2>4
    <3> QED
      BY <2>8, <3>1, <3>2
  <2>11. Walked(t, k + 1)
    <3> HIDE DEF Early
    <3> QED
      BY <2>4, <2>8, <2>9, <2>10
  <2> HIDE DEF Walked
  <2> QED
    BY <2>1, <2>3, <2>11
<1>7. n \in T
  <2>1. T \in SUBSET (0 .. n)
    OBVIOUS
  <2> HIDE DEF T
  <2>2. T = 0 .. n
    BY <1>1, <1>5, <1>6, <2>1, Induction
  <2> QED
    BY <1>1, <2>2
<1>8. SequencedMessages(sent) = f[n]
  BY <1>2, <1>4 DEF SequencedMessages, Sorted, ids, msgs
<1> DEFINE s == f[n]
<1>9. s \in Seq(S) /\ Len(s) = n /\ (named => Distinct(s))
  <2>1. Walked(s, n)
    <3> HIDE DEF Walked
    <3> QED
      BY <1>7
  <2> HIDE DEF s, Early
  <2> QED
    BY <2>1
<1> HIDE DEF s
<1>10. \A i \in DOMAIN s : s[i] \in S
  BY <1>9
<1>11. IsSequence(s)
  BY <1>9 DEF IsSequence, Range
<1> QED
  BY <1>8, <1>9, <1>10, <1>11 DEF s, n, S, named

-----------------------------------------------------------------------------
(* What a turn has done so far by way of callbacks.                        *)
Heard(res, calls) ==
    [a \in 1 .. MaxAttempts |->
        [cb \in DOMAIN NoResult |-> res[a][cb] + Count(calls, cb, a)]]

(* A turn that sends nothing leaves the network alone.                     *)
LEMMA NothingSent == ASSUME NEW n PROVE Wire(n, <<>>) = n
<1>1. DOMAIN <<>> = {}
  OBVIOUS
<1> QED
  BY <1>1 DEF Wire, FoldLeft, MapThenFoldSet

(* What is sent last reaches the network last.                             *)
LEMMA SentOneMore ==
  ASSUME NEW n, NEW out, IsSequence(out), NEW step
  PROVE  /\ Wire(n, Append(out, step)) = SocketStep(Wire(n, out), step)
         /\ IsSequence(Append(out, step))
<1> DEFINE l == Len(out)
           out1 == Append(out, step)
<1>1. /\ l \in Nat /\ Len(out1) = l + 1
      /\ \A k \in 1 .. l : out1[k] = out[k]
      /\ out1[l + 1] = step
      /\ IsSequence(out1)
  <2>1. out \in Seq(Range(out) \cup {step})
    BY SeqMonotonic, Range(out) \subseteq Range(out) \cup {step} DEF IsSequence
  <2>2. out1 \in Seq(Range(out) \cup {step}) /\ l \in Nat /\ Len(out1) = l + 1
        /\ out1[l + 1] = step /\ (\A k \in 1 .. l : out1[k] = out[k])
    BY <2>1
  <2>3. DOMAIN out1 = 1 .. Len(out1)
    BY <2>2
  <2> HIDE DEF out1
  <2>4. out1 \in [1 .. Len(out1) -> Range(out1)]
    BY <2>2, <2>3 DEF Range
  <2> QED
    BY <2>2, <2>4 DEF IsSequence
<1> HIDE DEF l, out1
<1>2. PICK f : /\ f[0] = n
               /\ \A k \in 1 .. l : f[k] = SocketStep(f[k - 1], out[k])
               /\ Wire(n, out) = f[l]
  BY NetWalk DEF l
<1>3. PICK g : /\ g[0] = n
               /\ \A k \in 1 .. Len(out1) : g[k] = SocketStep(g[k - 1], out1[k])
               /\ Wire(n, out1) = g[Len(out1)]
  <2>1. IsSequence(out1)
    BY <1>1
  <2> QED
    BY <2>1, NetWalk
<1> DEFINE T == {k \in 0 .. l : f[k] = g[k]}
<1>4. 0 \in T
  BY <1>1, <1>2, <1>3
<1>5. ASSUME NEW k \in 0 .. l - 1, k \in T PROVE k + 1 \in T
  <2>1. /\ k + 1 \in 1 .. l /\ k + 1 \in 1 .. Len(out1) /\ (k + 1) - 1 = k
        /\ k + 1 \in 0 .. l
    BY <1>1
  <2>2. f[k + 1] = SocketStep(f[k], out[k + 1])
    BY <1>2, <2>1
  <2>3. g[k + 1] = SocketStep(g[k], out1[k + 1])
    BY <1>3, <2>1
  <2>4. out1[k + 1] = out[k + 1] /\ f[k] = g[k]
    BY <1>1, <1>5, <2>1
  <2>5. f[k + 1] = g[k + 1]
    BY <2>2, <2>3, <2>4
  <2> QED
    BY <2>1, <2>5
<1>6. f[l] = g[l]
  <2>1. T \in SUBSET (0 .. l)
    OBVIOUS
  <2> HIDE DEF T
  <2>2. T = 0 .. l
    BY <1>1, <1>4, <1>5, <2>1, Induction
  <2>3. l \in T
    BY <1>1, <2>2
  <2> QED
    BY <2>3 DEF T
<1>7. g[l + 1] = SocketStep(g[l], step)
  <2>1. l + 1 \in 1 .. Len(out1) /\ (l + 1) - 1 = l
    BY <1>1
  <2>2. g[l + 1] = SocketStep(g[l], out1[l + 1])
    BY <1>3, <2>1
  <2> QED
    BY <1>1, <2>2
<1>8. Wire(n, out1) = g[l + 1]
  BY <1>1, <1>3
<1>9. Wire(n, out) = g[l]
  BY <1>2, <1>6
<1> QED
  BY <1>1, <1>7, <1>8, <1>9 DEF out1

(* One call more is counted once, under its name and attempt.              *)
LEMMA CountCalls ==
  ASSUME NEW calls, IsSequence(calls), NEW x, NEW y, NEW cb, NEW arg
  PROVE  /\ Count(calls, cb, arg) \in Nat
         /\ Count(Append(calls, <<x, y>>), cb, arg)
                = Count(calls, cb, arg) + IF x = cb /\ y = arg THEN 1 ELSE 0
<1> DEFINE l == Len(calls)
           A == {i \in DOMAIN calls : calls[i] = <<cb, arg>>}
           calls1 == Append(calls, <<x, y>>)
           B == {i \in DOMAIN calls1 : calls1[i] = <<cb, arg>>}
<1>1. l \in Nat /\ DOMAIN calls = 1 .. l
  BY DEF IsSequence
<1>2. IsFiniteSet(1 .. l)
  BY <1>1, FS_Interval
<1>3. IsFiniteSet(A)
  BY <1>1, <1>2, FS_Subset, A \in SUBSET (1 .. l)
<1>4. Cardinality(A) \in Nat
  BY <1>3, FS_CardinalityType
<1>5. /\ DOMAIN calls1 = (1 .. l) \cup {l + 1}
      /\ \A i \in 1 .. l : calls1[i] = calls[i]
      /\ calls1[l + 1] = <<x, y>>
  <2>1. calls \in Seq(Range(calls) \cup {<<x, y>>})
    BY SeqMonotonic, Range(calls) \subseteq Range(calls) \cup {<<x, y>>}
    DEF IsSequence
  <2> QED
    BY <1>1, <2>1
<1>6. l + 1 \notin A
  BY <1>1
<1> HIDE DEF calls1
<1>7. B = IF x = cb /\ y = arg THEN A \cup {l + 1} ELSE A
  <2>1. <<x, y>> = <<cb, arg>> <=> x = cb /\ y = arg
    OBVIOUS
  <2> QED
    BY <1>1, <1>5, <2>1
<1> HIDE DEF A, B
<1>8. Cardinality(B) = Cardinality(A) + IF x = cb /\ y = arg THEN 1 ELSE 0
  <2>1. CASE x = cb /\ y = arg
    BY <1>3, <1>4, <1>6, <1>7, <2>1, FS_AddElement
  <2>2. CASE ~ (x = cb /\ y = arg)
    BY <1>4, <1>7, <2>2
  <2> QED
    BY <2>1, <2>2
<1> QED
  BY <1>4, <1>8 DEF Count, A, B, calls1

(* A turn that calls nobody back leaves the history alone.                 *)
LEMMA NothingHeard ==
  ASSUME NEW res \in Results PROVE Heard(res, <<>>) = res
<1>1. ASSUME NEW cb, NEW arg PROVE Count(<<>>, cb, arg) = 0
  <2>1. {i \in DOMAIN <<>> : <<>>[i] = <<cb, arg>>} = {}
    OBVIOUS
  <2> QED
    BY <2>1, FS_EmptySet DEF Count
<1>2. ASSUME NEW a \in 1 .. MaxAttempts
      PROVE  [cb \in DOMAIN NoResult |-> res[a][cb] + Count(<<>>, cb, a)]
                 = res[a]
  <2>1. res[a] \in [DOMAIN NoResult -> Nat]
    BY DEF Results, ResultType
  <2> QED
    BY <1>1, <2>1
<1> QED
  BY <1>2 DEF Heard, Results

(* The history stays in its type.                                          *)
LEMMA HeardType ==
  ASSUME NEW res \in Results, NEW calls, IsSequence(calls)
  PROVE  Heard(res, calls) \in Results
<1>1. ASSUME NEW a \in 1 .. MaxAttempts, NEW cb \in DOMAIN NoResult
      PROVE  res[a][cb] + Count(calls, cb, a) \in Nat
  <2>1. Count(calls, cb, a) \in Nat
    BY CountCalls
  <2>2. res[a][cb] \in Nat
    BY DEF Results, ResultType
  <2> QED
    BY <2>1, <2>2
<1> QED
  BY <1>1 DEF Heard, Results, ResultType

(* A callback adds one to its own count and to no other.                   *)
LEMMA HeardOneMore ==
  ASSUME NEW res \in Results, NEW calls, IsSequence(calls), NEW x, NEW y
  PROVE  /\ IsSequence(Append(calls, <<x, y>>))
         /\ \A a \in 1 .. MaxAttempts : \A cb \in DOMAIN NoResult :
                Heard(res, Append(calls, <<x, y>>))[a][cb]
                    = Heard(res, calls)[a][cb]
                          + IF x = cb /\ y = a THEN 1 ELSE 0
<1>1. IsSequence(Append(calls, <<x, y>>))
  BY SentOneMore
<1>2. ASSUME NEW a \in 1 .. MaxAttempts, NEW cb \in DOMAIN NoResult
      PROVE  Heard(res, Append(calls, <<x, y>>))[a][cb]
                 = Heard(res, calls)[a][cb] + IF x = cb /\ y = a THEN 1 ELSE 0
  <2> DEFINE calls1 == Append(calls, <<x, y>>)
             p == Count(calls, cb, a)
             q == Count(calls1, cb, a)
             r == res[a][cb]
             e == IF x = cb /\ y = a THEN 1 ELSE 0
  <2>1. p \in Nat /\ q = p + e
    BY CountCalls
  <2>2. r \in Nat
    BY DEF Results, ResultType
  <2> HIDE DEF calls1
  <2>3. Heard(res, calls1)[a][cb] = r + q /\ Heard(res, calls)[a][cb] = r + p
    BY DEF Heard
  <2> HIDE DEF p, q, r
  <2>4. e \in Nat
    OBVIOUS
  <2> HIDE DEF e
  <2>5. r + q = (r + p) + e
    BY <2>1, <2>2, <2>4
  <2> QED
    BY <2>3, <2>5 DEF calls1, e
<1> QED
  BY <1>1, <1>2


-----------------------------------------------------------------------------
(* A client in the middle of a turn that began on network n, when the      *)
(* callbacks had been called as res says.                                  *)
Core(c, n, res, k) == Right(c, Wire(n, c.out), Heard(res, c.calls), k)

SamePingers(c, d) == /\ d.sendPinger = c.sendPinger
                     /\ d.receivePinger = c.receivePinger

(* The fields that a connection and its callbacks depend on                *)
SameLink(c, d) ==
    /\ d.reaction = c.reaction /\ d.connected = c.connected
    /\ d.socket = c.socket /\ d.attempt = c.attempt
    /\ d.hosts = c.hosts /\ d.hostIndex = c.hostIndex
    /\ d.queue = c.queue /\ d.notify = c.notify
    /\ d.connectTimer = c.connectTimer
    /\ d.out = c.out

(* A step that leaves the link to the network, and the history of the      *)
(* attempts, as they are keeps what is right.                              *)
LEMMA Quiet ==
  ASSUME NEW c, NEW d, NEW n, NEW res, NEW k,
         Core(c, n, res, k), ClientType(d), Keeping(d), SameLink(c, d),
         c.socket = "open" \/ SamePingers(c, d),
         Heard(res, d.calls) = Heard(res, c.calls)
  PROVE  Core(d, n, res, k)
<1> DEFINE w == Wire(n, c.out)
           r == Heard(res, c.calls)
<1>1. Right(c, w, r, k)
  BY DEF Core
<1>2. Core(d, n, res, k) <=> Right(d, w, r, k)
  BY DEF Core, SameLink
<1> HIDE DEF w, r
<1>3. Attempting(d) /\ HostsRight(d) /\ QueueRight(d) /\ NetRight(d, w)
  BY <1>1 DEF Right, SameLink, Attempting, HostsRight, QueueRight, NetRight
<1>4. TimersRight(d)
  BY <1>1 DEF Right, SameLink, SamePingers, TimersRight
<1>5. Answering(d, r, k) /\ EarlyRight(d, r, k)
  BY <1>1 DEF Right, SameLink, Answering, Phase, EarlyRight, Counted, Listens
<1> QED
  BY <1>1, <1>2, <1>3, <1>4, <1>5 DEF Right

(* Callbacks that are not about a connection                               *)
LEMMA HeardOther ==
  ASSUME NEW res \in Results, NEW calls, IsSequence(calls),
         NEW x, x \notin DOMAIN NoResult, NEW y
  PROVE  /\ Heard(res, Append(calls, <<x, y>>)) = Heard(res, calls)
         /\ IsSequence(Append(calls, <<x, y>>))
<1> DEFINE r == Heard(res, calls)
           s == Heard(res, Append(calls, <<x, y>>))
<1>1. IsSequence(Append(calls, <<x, y>>))
  BY SentOneMore
<1>2. r \in Results /\ s \in Results
  BY <1>1, HeardType
<1>3. \A a \in 1 .. MaxAttempts : \A cb \in DOMAIN NoResult :
          s[a][cb] = r[a][cb] + IF x = cb /\ y = a THEN 1 ELSE 0
  BY HeardOneMore
<1> HIDE DEF r, s
<1>4. ASSUME NEW a \in 1 .. MaxAttempts PROVE s[a] = r[a]
  <2>1. r[a] \in [DOMAIN NoResult -> Nat] /\ s[a] \in [DOMAIN NoResult -> Nat]
    BY <1>2 DEF Results, ResultType
  <2>2. ASSUME NEW cb \in DOMAIN NoResult PROVE s[a][cb] = r[a][cb]
    BY <1>3, <2>1, x # cb
  <2> QED
    BY <2>1, <2>2
<1>5. s = r
  <2>1. /\ r = [a \in 1 .. MaxAttempts |-> r[a]]
        /\ s = [a \in 1 .. MaxAttempts |-> s[a]]
    BY <1>2 DEF Results
  <2> QED
    BY <1>4, <2>1
<1> QED
  BY <1>1, <1>5 DEF r, s

(* So does an exception.                                                   *)
LEMMA Thrown ==
  ASSUME NEW c, NEW n, NEW res, NEW k, Core(c, n, res, k)
  PROVE  LET d == Throw(c)
         IN  /\ Core(d, n, res, k) /\ d.threw
             /\ d.connected = c.connected /\ d.queue = c.queue
             /\ d.notify = c.notify /\ d.draining = c.draining
             /\ d.wireMessage = c.wireMessage /\ d.socket = c.socket
<1> DEFINE d == Throw(c)
<1>1. ClientType(c)
  BY DEF Core, Right
<1>2. ClientType(d) /\ SameLink(c, d) /\ SamePingers(c, d) /\ d.threw
      /\ d.sent = c.sent /\ d.stored = c.stored /\ d.calls = c.calls
      /\ d.draining = c.draining /\ d.wireMessage = c.wireMessage
  BY <1>1 DEF ClientType, SameLink, SamePingers, Throw
<1> HIDE DEF d
<1>3. Keeping(d)
  BY <1>2 DEF Core, Right, Keeping
<1>4. Core(d, n, res, k)
  BY <1>2, <1>3, Quiet
<1> QED
  BY <1>2, <1>4 DEF d, SameLink

-----------------------------------------------------------------------------
(* Sequences of packets                                                    *)
LEMMA Appended ==
  ASSUME NEW s, IsSequence(s), NEW m
  PROVE  LET t == Append(s, m)
         IN  /\ IsSequence(t) /\ t # <<>>
             /\ Len(s) \in Nat /\ DOMAIN s = 1 .. Len(s)
             /\ Len(t) = Len(s) + 1 /\ DOMAIN t = 1 .. Len(s) + 1
             /\ \A i \in 1 .. Len(s) : t[i] = s[i]
             /\ t[Len(s) + 1] = m
             /\ (s = <<>> <=> Len(s) = 0)
<1> DEFINE S == Range(s) \cup {m}
           t == Append(s, m)
<1>1. s \in Seq(S)
  BY SeqMonotonic, Range(s) \subseteq S DEF IsSequence
<1> HIDE DEF S
<1>2. m \in S
  BY DEF S
<1>3. /\ t \in Seq(S) /\ Len(s) \in Nat /\ DOMAIN s = 1 .. Len(s)
      /\ Len(t) = Len(s) + 1 /\ t[Len(s) + 1] = m
      /\ \A i \in 1 .. Len(s) : t[i] = s[i]
  BY <1>1, <1>2
<1>4. t # <<>>
  BY <1>3
<1>5. s = <<>> <=> Len(s) = 0
  BY <1>1
<1>6. IsSequence(t)
  BY SentOneMore
<1>7. DOMAIN t = 1 .. Len(s) + 1
  BY <1>3
<1> HIDE DEF t
<1> QED
  BY <1>3, <1>4, <1>5, <1>6, <1>7 DEF t

(* A sequence without its first element.                                   *)
LEMMA Tailed ==
  ASSUME NEW s, IsSequence(s), s # <<>>
  PROVE  /\ IsSequence(Tail(s))
         /\ Len(s) \in Nat /\ Len(s) >= 1 /\ DOMAIN s = 1 .. Len(s)
         /\ DOMAIN Tail(s) = 1 .. Len(s) - 1
         /\ \A i \in 1 .. Len(s) - 1 : Tail(s)[i] = s[i + 1]
         /\ Head(s) = s[1]
<1> DEFINE S == Range(s)
<1>1. s \in Seq(S)
  BY DEF IsSequence
<1> HIDE DEF S
<1>2. /\ Tail(s) \in Seq(S) /\ Len(s) \in Nat /\ Len(s) >= 1
      /\ DOMAIN s = 1 .. Len(s) /\ Len(Tail(s)) = Len(s) - 1
  BY <1>1
<1>3. \A i \in 1 .. Len(s) - 1 : Tail(s)[i] = s[i + 1]
  BY <1>1, <1>2
<1>4. DOMAIN Tail(s) = 1 .. Len(s) - 1
  BY <1>2
<1>5. IsSequence(Tail(s))
  <2> DEFINE t == Tail(s)
  <2>1. t \in Seq(S) /\ DOMAIN t = 1 .. Len(t)
    BY <1>2, <1>4
  <2> HIDE DEF t
  <2>2. t \in [1 .. Len(t) -> Range(t)]
    BY <2>1 DEF Range
  <2>3. Len(t) \in Nat
    BY <2>1
  <2>4. IsSequence(t)
    BY <2>2, <2>3 DEF IsSequence
  <2> QED
    BY <2>4 DEF t
<1>6. Head(s) = s[1]
  BY <1>1
<1> QED
  BY <1>2, <1>3, <1>4, <1>5, <1>6

(* One sequence behind another.                                            *)
LEMMA Joined ==
  ASSUME NEW s, NEW t, IsSequence(s), IsSequence(t)
  PROVE  LET u == s \o t
         IN  /\ IsSequence(u) /\ Len(u) = Len(s) + Len(t)
             /\ Len(s) \in Nat /\ Len(t) \in Nat
             /\ DOMAIN s = 1 .. Len(s) /\ DOMAIN t = 1 .. Len(t)
             /\ DOMAIN u = 1 .. Len(s) + Len(t)
             /\ \A i \in 1 .. Len(s) : u[i] = s[i]
             /\ \A i \in 1 .. Len(t) : u[Len(s) + i] = t[i]
<1> DEFINE S == Range(s) \cup Range(t)
           u == s \o t
<1>1. s \in Seq(S) /\ t \in Seq(S)
  BY SeqMonotonic, Range(s) \subseteq S, Range(t) \subseteq S DEF IsSequence
<1> HIDE DEF S
<1>2. /\ Len(s) \in Nat /\ Len(t) \in Nat
      /\ DOMAIN s = 1 .. Len(s) /\ DOMAIN t = 1 .. Len(t)
  BY <1>1
<1>3. /\ u \in Seq(S) /\ Len(u) = Len(s) + Len(t)
      /\ \A i \in 1 .. Len(s) + Len(t) :
             u[i] = IF i <= Len(s) THEN s[i] ELSE t[i - Len(s)]
  BY <1>1, ConcatProperties
<1> HIDE DEF u
<1>4. DOMAIN u = 1 .. Len(s) + Len(t)
  BY <1>3
<1>5. IsSequence(u)
  <2>1. u \in [1 .. Len(u) -> Range(u)]
    BY <1>3, <1>4 DEF Range
  <2>2. Len(u) \in Nat
    BY <1>3
  <2> QED
    BY <2>1, <2>2 DEF IsSequence
<1>6. ASSUME NEW i \in 1 .. Len(s) PROVE u[i] = s[i]
  BY <1>2, <1>3
<1>7. ASSUME NEW i \in 1 .. Len(t) PROVE u[Len(s) + i] = t[i]
  <2>1. /\ Len(s) + i \in 1 .. Len(s) + Len(t) /\ ~ (Len(s) + i <= Len(s))
        /\ (Len(s) + i) - Len(s) = i
    BY <1>2
  <2>2. u[Len(s) + i] = t[(Len(s) + i) - Len(s)]
    BY <1>3, <2>1
  <2> QED
    BY <2>1, <2>2
<1> QED
  BY <1>2, <1>3, <1>4, <1>5, <1>6, <1>7 DEF u

(* A packet of another type changes nothing about what is not there.       *)
LEMMA NoneAppended ==
  ASSUME NEW type, NEW s, IsSequence(s), NEW m, m.type # type
  PROVE  /\ No(type, s) => No(type, Append(s, m))
         /\ s # <<>> =>
                /\ No(type, Tail(s)) => No(type, Tail(Append(s, m)))
                /\ Append(s, m)[1] = s[1]
<1> DEFINE t == Append(s, m)
<1>1. /\ IsSequence(t) /\ t # <<>> /\ Len(s) \in Nat /\ DOMAIN s = 1 .. Len(s)
      /\ Len(t) = Len(s) + 1 /\ DOMAIN t = 1 .. Len(s) + 1
      /\ \A i \in 1 .. Len(s) : t[i] = s[i]
      /\ t[Len(s) + 1] = m /\ (s = <<>> <=> Len(s) = 0)
  BY Appended
<1> HIDE DEF t
<1>2. No(type, s) => No(type, t)
  BY <1>1 DEF No
<1>3. ASSUME s # <<>>, No(type, Tail(s)) PROVE No(type, Tail(t))
  <2>1. /\ DOMAIN Tail(s) = 1 .. Len(s) - 1
        /\ \A i \in 1 .. Len(s) - 1 : Tail(s)[i] = s[i + 1]
    BY <1>3, Tailed
  <2>2. /\ DOMAIN Tail(t) = 1 .. Len(s)
        /\ \A i \in 1 .. Len(s) : Tail(t)[i] = t[i + 1]
    BY <1>1, Tailed
  <2>3. ASSUME NEW i \in 1 .. Len(s) PROVE Tail(t)[i].type # type
    <3>1. Tail(t)[i] = t[i + 1]
      BY <2>2
    <3>2. CASE i = Len(s)
      BY <1>1, <3>1, <3>2
    <3>3. CASE i # Len(s)
      <4>1. i \in 1 .. Len(s) - 1 /\ i + 1 \in 1 .. Len(s)
        <5>1. Len(s) \in Nat
          BY <1>1
        <5> QED
          BY <3>3, <5>1
      <4>2. t[i + 1] = Tail(s)[i]
        BY <1>1, <2>1, <4>1
      <4>3. Tail(s)[i].type # type
        BY <1>3, <2>1, <4>1 DEF No
      <4> QED
        BY <3>1, <4>2, <4>3
    <3> QED
      BY <3>2, <3>3
  <2> QED
    BY <2>2, <2>3 DEF No
<1>4. s # <<>> => t[1] = s[1]
  BY <1>1
<1> QED
  BY <1>2, <1>3, <1>4 DEF t

-----------------------------------------------------------------------------
(* Sending                                                                 *)
LEMMA Carried ==
  ASSUME NEW c, NEW w, NetType(w), NetRight(c, w), c.socket = "open",
         NEW m, m.type \notin {"dial", "close", "CONNECT"}
  PROVE  NetType(SocketStep(w, m)) /\ NetRight(c, SocketStep(w, m))
<1> DEFINE x == SocketStep(w, m)
           t == Append(w.toBroker, m)
<1>1. x = [w EXCEPT !.toBroker = t]
  BY DEF SocketStep
<1>2. IsSequence(w.toBroker) /\ IsSequence(t) /\ t # <<>>
  BY Appended DEF NetType
<1>3. /\ No("CONNECT", w.toBroker) => No("CONNECT", t)
      /\ w.toBroker # <<>> =>
             /\ No("CONNECT", Tail(w.toBroker)) => No("CONNECT", Tail(t))
             /\ t[1] = w.toBroker[1]
  <2> DEFINE s == w.toBroker
  <2>1. IsSequence(s) /\ m.type # "CONNECT"
    BY <1>2
  <2> HIDE DEF s
  <2>2. /\ No("CONNECT", s) => No("CONNECT", Append(s, m))
        /\ s # <<>> =>
               /\ No("CONNECT", Tail(s)) => No("CONNECT", Tail(Append(s, m)))
               /\ Append(s, m)[1] = s[1]
    BY <2>1, NoneAppended
  <2> QED
    BY <2>2 DEF s
<1> HIDE DEF t
<1>4. /\ NetType(x) /\ x.toBroker = t /\ x.toClient = w.toClient
      /\ x.accepted = w.accepted /\ x.closed = w.closed
  BY <1>1, <1>2 DEF NetType
<1> HIDE DEF x
<1>5. (Serving(w) => Serving(x)) /\ (Answered(w) => Answered(x))
  BY <1>3, <1>4 DEF Serving, Answered
<1>6. Asking(w) => Asking(x)
  BY <1>2, <1>3, <1>4 DEF Asking
<1>7. NetRight(c, x)
  BY <1>5, <1>6 DEF NetRight
<1> QED
  BY <1>4, <1>7 DEF x

(* A pinger that is reset is a pinger.                                     *)
LEMMA PingerReset == ASSUME NEW p PROVE reset(p) \in PingerType
BY ClientAssumption DEF reset, PingerType

(* What sending leaves alone                                               *)
SameTurn(c, d) == /\ d.connected = c.connected /\ d.queue = c.queue
                  /\ d.notify = c.notify /\ d.draining = c.draining
                  /\ d.wireMessage = c.wireMessage /\ d.socket = c.socket

SameRest(c, d) == /\ d.reaction = c.reaction /\ d.attempt = c.attempt
                  /\ d.hosts = c.hosts /\ d.hostIndex = c.hostIndex
                  /\ d.connectTimer = c.connectTimer
                  /\ d.sent = c.sent /\ d.stored = c.stored
                  /\ d.calls = c.calls

(* A packet other than CONNECT that goes out over an open socket keeps     *)
(* what is right.                                                          *)
LEMMA PacketSent ==
  ASSUME NEW c, NEW d, NEW n, NEW res, NEW k, Core(c, n, res, k),
         c.socket = "open", NEW m, m.type \notin {"dial", "close", "CONNECT"},
         ClientType(d), SameTurn(c, d), SameRest(c, d),
         d.out = Append(c.out, m)
  PROVE  Core(d, n, res, k)
<1> DEFINE w == Wire(n, c.out)
           r == Heard(res, c.calls)
<1>1. Right(c, w, r, k) /\ ClientType(c) /\ IsSequence(c.out)
  BY DEF Core, Right, ClientType
<1>2. Wire(n, Append(c.out, m)) = SocketStep(w, m)
  BY <1>1, SentOneMore
<1>3. NetType(SocketStep(w, m)) /\ NetRight(c, SocketStep(w, m))
  BY <1>1, Carried DEF Right
<1> HIDE DEF w, r
<1>6. /\ Keeping(d) /\ Attempting(d) /\ HostsRight(d) /\ QueueRight(d)
      /\ TimersRight(d)
  BY <1>1 DEF Right, SameTurn, SameRest, Keeping, Attempting, HostsRight,
              QueueRight, TimersRight
<1>7. Answering(d, r, k) /\ EarlyRight(d, r, k)
  BY <1>1 DEF Right, SameTurn, SameRest, Answering, Phase, EarlyRight,
              Counted, Listens
<1>8. NetRight(d, SocketStep(w, m))
  BY <1>3 DEF NetRight, SameTurn
<1>9. Right(d, SocketStep(w, m), r, k)
  BY <1>1, <1>3, <1>6, <1>7, <1>8 DEF Right
<1> QED
  BY <1>2, <1>9 DEF Core, w, r, SameRest

(* _socket_send throws if the socket is not open or the message cannot be  *)
(* encoded, and otherwise sends.                                           *)
LEMMA SocketSend ==
  ASSUME NEW c, NEW n, NEW res, NEW k, Core(c, n, res, k),
         NEW m, IsPacket(m)
  PROVE  LET d == socket_send(c, m)
         IN  /\ Core(d, n, res, k) /\ SameTurn(c, d)
             /\ (Encodable(m) /\ c.socket = "open" => d.threw = c.threw)
             /\ ~ (Encodable(m) /\ c.socket = "open") => d.threw
<1>1. ClientType(c) /\ c.socket \in {"none", "connecting", "open"}
  BY DEF Core, Right, ClientType, QueueRight
<1>2. CASE ~ (Encodable(m) /\ c.socket = "open")
  <2>1. socket_send(c, m) = Throw(c)
    BY <1>1, <1>2 DEF socket_send
  <2> QED
    BY <1>2, <2>1, Thrown DEF SameTurn
<1>3. CASE Encodable(m) /\ c.socket = "open"
  <2> DEFINE m1 == [m EXCEPT !.id = @ % IdSpace]
             p == reset(c.sendPinger)
             d == [c EXCEPT !.out = Append(@, m1), !.sendPinger = p]
  <2>1. m1.type \notin {"dial", "close", "CONNECT"}
    BY DEF IsPacket, Sendable
  <2>2. p \in PingerType
    BY PingerReset
  <2>3. socket_send(c, m) = d
    BY <1>3 DEF socket_send
  <2> HIDE DEF m1, p
  <2>4. IsSequence(c.out) /\ IsSequence(Append(c.out, m1))
    BY <1>1, Appended DEF ClientType
  <2>5. ClientType(d) /\ d.out = Append(c.out, m1) /\ d.threw = c.threw
    BY <1>1, <2>2, <2>4 DEF ClientType
  <2>6. SameTurn(c, d) /\ SameRest(c, d)
    BY <1>1 DEF ClientType, SameTurn, SameRest
  <2> HIDE DEF d
  <2>7. Core(d, n, res, k)
    BY <1>3, <2>1, <2>5, <2>6, PacketSent
  <2> QED
    BY <1>3, <2>3, <2>5, <2>6, <2>7
<1> QED
  BY <1>2, <1>3

-----------------------------------------------------------------------------
(* Losing a connection and making one                                      *)
LEMMA EmptySequence == IsSequence(<<>>) /\ \A type : No(type, <<>>)
BY DEF IsSequence, No

(* A connection that is given up or dialled anew starts fresh.             *)
LEMMA HungUp ==
  ASSUME NEW w, NetType(w)
  PROVE  /\ NetType(Hangup(w)) /\ Fresh(Hangup(w))
         /\ NetType(SocketStep(w, Ack("close", 0)))
         /\ NetType(SocketStep(w, Ack("dial", 0)))
         /\ Fresh(SocketStep(w, Ack("dial", 0)))
<1> DEFINE h == Hangup(w)
<1>1. NetType(h) /\ Fresh(h)
  BY EmptySequence DEF Hangup, NetType, Fresh
<1> HIDE DEF h
<1>2. SocketStep(w, Ack("close", 0)) = h
  BY DEF SocketStep, Ack, WireMessage, h
<1>3. SocketStep(w, Ack("dial", 0)) = [h EXCEPT !.state = "dialing"]
  BY DEF SocketStep, Ack, WireMessage, h
<1>4. /\ NetType([h EXCEPT !.state = "dialing"])
      /\ Fresh([h EXCEPT !.state = "dialing"])
  BY <1>1 DEF NetType, Fresh
<1> QED
  BY <1>1, <1>2, <1>3, <1>4 DEF h

(* A callback of the application is all that is added.                     *)
LEMMA CallOne ==
  ASSUME NEW c, ClientType(c), NEW res \in Results, NEW cb, NEW arg
  PROVE  LET d == Call(c, cb, arg)
         IN  /\ ClientType(d) /\ d.calls = Append(c.calls, <<cb, arg>>)
             /\ SameTurn(c, d) /\ SamePingers(c, d) /\ d.out = c.out
             /\ d.reaction = c.reaction /\ d.attempt = c.attempt
             /\ d.hosts = c.hosts /\ d.hostIndex = c.hostIndex
             /\ d.connectTimer = c.connectTimer /\ d.clean = c.clean
             /\ d.sent = c.sent /\ d.stored = c.stored /\ d.threw = c.threw
             /\ d.received = c.received
             /\ Heard(res, d.calls) \in Results
<1> DEFINE d == Call(c, cb, arg)
<1>1. IsSequence(c.calls) /\ IsSequence(Append(c.calls, <<cb, arg>>))
  BY Appended DEF ClientType
<1>2. ClientType(d) /\ d.calls = Append(c.calls, <<cb, arg>>)
  BY <1>1 DEF ClientType, Call
<1>3. /\ SameTurn(c, d) /\ SamePingers(c, d) /\ d.out = c.out
      /\ d.reaction = c.reaction /\ d.attempt = c.attempt
      /\ d.hosts = c.hosts /\ d.hostIndex = c.hostIndex
      /\ d.connectTimer = c.connectTimer /\ d.clean = c.clean
      /\ d.sent = c.sent /\ d.stored = c.stored /\ d.threw = c.threw
      /\ d.received = c.received
  BY DEF ClientType, Call, SameTurn, SamePingers
<1> HIDE DEF d
<1>4. Heard(res, d.calls) \in Results
  BY <1>1, <1>2, HeardType
<1> QED
  BY <1>2, <1>3, <1>4 DEF d

(* One more call of cb for attempt a                                       *)
OneMore(r, s, cb, a) ==
    \A b \in 1 .. MaxAttempts : \A f \in DOMAIN NoResult :
        s[b][f] = r[b][f] + IF cb = f /\ a = b THEN 1 ELSE 0

(* HeardOneMore for one attempt.                                           *)
LEMMA HeardOne ==
  ASSUME NEW res \in Results, NEW calls, IsSequence(calls), NEW cb, NEW a
  PROVE  OneMore(Heard(res, calls), Heard(res, Append(calls, <<cb, a>>)), cb, a)
BY HeardOneMore DEF OneMore

(* The counts of an attempt are numbers.                                   *)
LEMMA ResultFields ==
  ASSUME NEW r \in Results, NEW a \in 1 .. MaxAttempts
  PROVE  /\ r[a].onSuccess \in Nat /\ r[a].onFailure \in Nat
         /\ r[a].onConnectionLost \in Nat /\ r[a].early \in Nat
         /\ r[a].reloaded \in Nat
         /\ DOMAIN NoResult = {"onSuccess", "onFailure", "onConnectionLost",
                               "early", "reloaded"}
BY DEF Results, ResultType, NoResult

(* When a connection ends, the attempt has exactly one callback more:      *)
(* onConnectionLost if it was connected, onFailure if it was not.          *)
LEMMA LossAnswered ==
  ASSUME NEW c, NEW d, NEW r \in Results, NEW s \in Results, NEW k \in {0, 1},
         NEW kk,
         c.attempt \in Nat, c.attempt <= MaxAttempts, c.socket # "none",
         c.connected \in BOOLEAN,
         Answering(c, r, k), c.connected /\ k = 0 => Counted(c, r),
         d.reaction = c.reaction, ~ d.connected, d.socket = "none",
         d.attempt = c.attempt,
         \/ /\ c.connected
            /\ OneMore(r, s, "onConnectionLost", c.attempt)
         \/ /\ ~ c.connected
            /\ OneMore(r, s, "onFailure", c.attempt)
  PROVE  Answering(d, s, kk)
<1>1. SUFFICES ASSUME FewMisspelt, Listens(c),
                      NEW a \in 1 .. MaxAttempts
               PROVE  /\ a > c.attempt => Untouched(s[a])
                      /\ Clear(s, a) =>
                             /\ a < c.attempt => Final(s[a])
                             /\ a = c.attempt => Final(s[a])
  BY DEF Answering, Phase, Listens
<1>2. /\ a > c.attempt => Untouched(r[a])
      /\ Clear(r, a) =>
             /\ a < c.attempt => Final(r[a])
             /\ a = c.attempt => Phase(c, r[a], k)
  BY <1>1 DEF Answering
<1>3. MaxAttempts \in Nat
  BY ClientAssumption
<1>4. ASSUME NEW b \in 1 .. MaxAttempts
      PROVE  /\ s[b].early = r[b].early /\ s[b].onSuccess = r[b].onSuccess
             /\ s[b].reloaded = r[b].reloaded
             /\ b # c.attempt => /\ s[b].onFailure = r[b].onFailure
                                 /\ s[b].onConnectionLost = r[b].onConnectionLost
             /\ c.connected => s[b].onFailure = r[b].onFailure
             /\ ~ c.connected => s[b].onConnectionLost = r[b].onConnectionLost
             /\ b = c.attempt /\ ~ c.connected
                    => s[b].onFailure = r[b].onFailure + 1
             /\ b = c.attempt /\ c.connected
                    => s[b].onConnectionLost = r[b].onConnectionLost + 1
  BY <1>4, ResultFields DEF OneMore
<1>5. Clear(s, a) <=> Clear(r, a)
  BY <1>3, <1>4 DEF NoEarly, Clear
<1>6. CASE a # c.attempt
  BY <1>2, <1>4, <1>5, <1>6 DEF Called, Final, Untouched
<1>7. CASE a = c.attempt
  <2> SUFFICES ASSUME Clear(r, a) PROVE Final(s[a])
    BY <1>5, <1>7
  <2>1. Phase(c, r[a], k)
    BY <1>2, <1>7
  <2>2. /\ r[a].onSuccess \in Nat /\ r[a].onFailure \in Nat
        /\ r[a].onConnectionLost \in Nat
        /\ s[a].onSuccess \in Nat /\ s[a].onFailure \in Nat
        /\ s[a].onConnectionLost \in Nat
    BY ResultFields
  <2>3. CASE c.connected
    <3>1. k = 1
      BY <1>1, <1>7, <2>3 DEF Counted, Clear
    <3> QED
      BY <1>4, <1>7, <2>1, <2>2, <2>3, <3>1 DEF Phase, Called, Final
  <2>4. CASE ~ c.connected
    BY <1>4, <1>7, <2>1, <2>2, <2>4 DEF Phase, Called, Final
  <2> QED
    BY <2>3, <2>4
<1> QED
  BY <1>6, <1>7

(* A new attempt has had no callback yet.                                  *)
LEMMA AttemptAnswered ==
  ASSUME NEW c, NEW d, NEW r \in Results, NEW k, NEW kk,
         c.attempt \in Nat, c.attempt < MaxAttempts,
         Answering(c, r, k), ~ c.connected, c.socket = "none",
         d.reaction = c.reaction, ~ d.connected, d.socket = "connecting",
         d.attempt = c.attempt + 1
  PROVE  /\ Answering(d, r, kk)
         /\ Counted(c, r) => Counted(d, r)
<1>1. MaxAttempts \in Nat
  BY ClientAssumption
<1>2. ASSUME FewMisspelt, Listens(c),
             NEW a \in 1 .. MaxAttempts
      PROVE  /\ a > d.attempt => Untouched(r[a])
             /\ Clear(r, a) =>
                    /\ a < d.attempt => Final(r[a])
                    /\ a = d.attempt => Called(r[a], 0)
  <2>1. /\ a > c.attempt => Untouched(r[a])
        /\ Clear(r, a) =>
               /\ a < c.attempt => Final(r[a])
               /\ a = c.attempt => Final(r[a])
    BY <1>2 DEF Answering, Phase
  <2> QED
    BY <2>1 DEF Untouched
<1>3. Answering(d, r, kk)
  BY <1>2 DEF Answering, Phase, Listens
<1>4. Counted(c, r) => Counted(d, r)
  BY <1>1 DEF Counted, NoEarly, Listens
<1> QED
  BY <1>3, <1>4

(* A client whose socket is none, or is being replaced                     *)
Idle(c, n) == /\ ClientType(c) /\ Keeping(c) /\ Attempting(c)
              /\ AllSendable(c.queue) /\ Waiting(c.queue)
              /\ NetType(Wire(n, c.out))

(* _doConnect starts an attempt, or the next host of one, right.           *)
LEMMA Dialled ==
  ASSUME NEW e, NEW n, NEW r \in Results, NEW k, Idle(e, n), e.attempt # 0
  PROVE  LET d == doConnect(e)
         IN  /\ Answering(d, r, k) /\ (e.notify => Counted(e, r))
                    => Right(d, Wire(n, d.out), r, k)
             /\ ~ d.connected /\ d.socket = "connecting"
             /\ d.queue = e.queue /\ d.notify = e.notify
             /\ d.draining = e.draining /\ d.wireMessage = e.wireMessage
             /\ d.threw = e.threw /\ d.reaction = e.reaction
             /\ d.attempt = e.attempt /\ d.calls = e.calls
<1> DEFINE d == doConnect(e)
           w == Wire(n, e.out)
           x == SocketStep(w, Ack("dial", 0))
<1>1. IsSequence(e.out) /\ IsSequence(Append(e.out, Ack("dial", 0)))
  BY Appended DEF Idle, ClientType
<1>2. Wire(n, Append(e.out, Ack("dial", 0))) = x
  BY <1>1, SentOneMore
<1>3. NetType(x) /\ Fresh(x)
  BY HungUp DEF Idle
<1> HIDE DEF w, x
<1>4. NewPinger \in PingerType /\ ~ NewPinger.armed
  BY DEF NewPinger, PingerType
<1>5. ClientType(e)
  BY DEF Idle
<1>6. /\ ClientType(d) /\ d.out = Append(e.out, Ack("dial", 0))
      /\ d.sendPinger = NewPinger /\ d.receivePinger = NewPinger
      /\ d.connectTimer
  BY <1>1, <1>4, <1>5 DEF ClientType, doConnect
<1>7. /\ d.connected = FALSE /\ d.socket = "connecting"
      /\ d.queue = e.queue /\ d.notify = e.notify
      /\ d.draining = e.draining /\ d.wireMessage = e.wireMessage
      /\ d.threw = e.threw /\ d.reaction = e.reaction
      /\ d.attempt = e.attempt /\ d.calls = e.calls
      /\ d.sent = e.sent /\ d.stored = e.stored
  BY <1>5 DEF ClientType, doConnect
<1> HIDE DEF d
<1>8. /\ Keeping(d) /\ Attempting(d) /\ TimersRight(d) /\ HostsRight(d)
      /\ QueueRight(d)
  BY <1>4, <1>6, <1>7 DEF Idle, Keeping, Attempting, TimersRight, HostsRight,
                          QueueRight
<1>9. NetRight(d, x)
  BY <1>3, <1>7 DEF NetRight
<1>10. (e.notify => Counted(e, r)) => EarlyRight(d, r, k)
  BY <1>7 DEF EarlyRight, Counted, Listens
<1>11. Answering(d, r, k) /\ (e.notify => Counted(e, r)) => Right(d, x, r, k)
  BY <1>3, <1>6, <1>8, <1>9, <1>10 DEF Right
<1> QED
  BY <1>2, <1>6, <1>7, <1>11 DEF d

(* So does connect(), from a client without a connection.                  *)
LEMMA Connected ==
  ASSUME NEW e, NEW n, NEW res \in Results, NEW k, Idle(e, n),
         ~ e.connected, e.socket = "none", e.attempt < MaxAttempts,
         Answering(e, Heard(res, e.calls), k),
         e.notify => Counted(e, Heard(res, e.calls)),
         NEW clean \in BOOLEAN, NEW hosts \in Nat
  PROVE  LET d == connect(e, clean, hosts)
         IN  /\ Core(d, n, res, k)
             /\ ~ d.connected /\ d.socket = "connecting"
             /\ d.queue = e.queue /\ d.notify = e.notify
             /\ d.draining = e.draining /\ d.wireMessage = e.wireMessage
             /\ d.threw = e.threw
<1> DEFINE f == [e EXCEPT !.clean = clean, !.hosts = hosts, !.hostIndex = 0,
                          !.attempt = @ + 1]
           d == doConnect(f)
           r == Heard(res, e.calls)
<1>1. connect(e, clean, hosts) = d
  BY DEF connect
<1>2. ClientType(e)
  BY DEF Idle
<1>3. ClientType(f) /\ f.attempt = e.attempt + 1
  <2> DEFINE a == e.attempt + 1
             g == [e EXCEPT !.clean = clean, !.hosts = hosts, !.hostIndex = 0,
                            !.attempt = a]
  <2>1. a \in Nat
    BY <1>2 DEF ClientType
  <2> HIDE DEF a
  <2>2. ClientType(g) /\ g.attempt = a
    BY <1>2, <2>1 DEF ClientType
  <2> QED
    BY <2>2 DEF a
<1>4. /\ f.connected = e.connected /\ f.socket = e.socket
      /\ f.queue = e.queue /\ f.notify = e.notify
      /\ f.draining = e.draining /\ f.wireMessage = e.wireMessage
      /\ f.threw = e.threw /\ f.reaction = e.reaction /\ f.calls = e.calls
      /\ f.sent = e.sent /\ f.stored = e.stored /\ f.out = e.out
  BY <1>2 DEF ClientType
<1> HIDE DEF f
<1>5. e.attempt \in Nat /\ MaxAttempts \in Nat
  BY <1>2, ClientAssumption DEF ClientType
<1>6. Idle(f, n) /\ f.attempt # 0
  BY <1>3, <1>4, <1>5 DEF Idle, Keeping, Attempting
<1>7. r \in Results
  BY <1>2, HeardType DEF ClientType
<1>8. /\ Answering(d, r, k) /\ (f.notify => Counted(f, r))
             => Right(d, Wire(n, d.out), r, k)
      /\ ~ d.connected /\ d.socket = "connecting"
      /\ d.queue = f.queue /\ d.notify = f.notify
      /\ d.draining = f.draining /\ d.wireMessage = f.wireMessage
      /\ d.threw = f.threw /\ d.reaction = f.reaction
      /\ d.attempt = f.attempt /\ d.calls = f.calls
  <2> HIDE DEF r
  <2> QED BY <1>6, <1>7, Dialled
<1> HIDE DEF d
<1>9. Answering(d, r, k) /\ (Counted(e, r) => Counted(d, r))
  <2> HIDE DEF r
  <2>1. /\ d.reaction = e.reaction /\ ~ d.connected
        /\ d.socket = "connecting" /\ d.attempt = e.attempt + 1
    BY <1>3, <1>4, <1>8
  <2>2. Answering(e, r, k)
    BY DEF r
  <2> QED
    BY <1>5, <1>7, <2>1, <2>2, AttemptAnswered
<1>10. f.notify => Counted(f, r)
  BY <1>3, <1>4, <1>8, <1>9 DEF Counted, Listens
<1>11. Core(d, n, res, k)
  BY <1>4, <1>8, <1>9, <1>10 DEF Core, r
<1> QED
  BY <1>1, <1>4, <1>8, <1>11 DEF d

(* What is left of a client that has lost its connection                   *)
Down(c) == /\ ~ c.connected /\ c.socket \in {"none", "connecting"}
           /\ c.queue = <<>> /\ ~ c.notify /\ ~ c.draining

(* The callback that tells of the loss may connect again at once.          *)
LEMMA Notified ==
  ASSUME NEW e, NEW n, NEW res \in Results, NEW k, Idle(e, n),
         Down(e), e.socket = "none", TimersRight(e),
         NEW callback \in {"onConnectionLost", "onFailure"},
         Answering(e, Heard(res, Append(e.calls, <<callback, e.attempt>>)), k)
  PROVE  LET d == Notify(e, callback)
         IN  /\ Core(d, n, res, k) /\ Down(d)
             /\ d.wireMessage = e.wireMessage /\ d.threw = e.threw
<1> DEFINE told == Call(e, callback, e.attempt)
<1>1. ClientType(e)
  BY DEF Idle
<1>2. /\ ClientType(told)
      /\ told.calls = Append(e.calls, <<callback, e.attempt>>)
      /\ SameTurn(e, told) /\ SamePingers(e, told) /\ told.out = e.out
      /\ told.reaction = e.reaction /\ told.attempt = e.attempt
      /\ told.hosts = e.hosts /\ told.hostIndex = e.hostIndex
      /\ told.connectTimer = e.connectTimer /\ told.clean = e.clean
      /\ told.sent = e.sent /\ told.stored = e.stored
      /\ told.threw = e.threw
      /\ Heard(res, told.calls) \in Results
  BY <1>1, CallOne
<1>3. Heard(res, e.calls) \in Results
  BY <1>1, HeardType DEF ClientType
<1>4. ASSUME e.reaction[callback] = "absent"
      PROVE  Core(e, n, res, k)
  <2> DEFINE r == Heard(res, e.calls)
             w == Wire(n, e.out)
  <2>1. NetType(w) /\ r \in Results /\ Answering(e, r, k)
    BY <1>3, <1>4 DEF Idle, Answering, Listens
  <2> HIDE DEF r, w
  <2>2. HostsRight(e) /\ QueueRight(e) /\ NetRight(e, w) /\ EarlyRight(e, r, k)
    BY DEF Idle, Down, HostsRight, QueueRight, NetRight, EarlyRight
  <2>3. Right(e, w, r, k)
    BY <2>1, <2>2 DEF Idle, Right
  <2> QED
    BY <2>3 DEF Core, r, w
<1> HIDE DEF told
<1>5. Idle(told, n) /\ Down(told) /\ told.socket = "none" /\ TimersRight(told)
  BY <1>2 DEF Idle, Down, TimersRight, SameTurn, SamePingers, Keeping, Attempting
<1>6. Answering(told, Heard(res, told.calls), k)
  <2> DEFINE r == Heard(res, told.calls)
  <2>1. Answering(e, r, k)
    BY <1>2
  <2> HIDE DEF r
  <2>2. Answering(told, r, k)
    BY <1>2, <2>1 DEF Answering, Phase, SameTurn, Listens
  <2> QED
    BY <2>2 DEF r
<1>7. Core(told, n, res, k)
  <2> DEFINE r == Heard(res, told.calls)
             w == Wire(n, told.out)
  <2>1. NetType(w) /\ r \in Results /\ Answering(told, r, k)
    BY <1>2, <1>5, <1>6 DEF Idle
  <2> HIDE DEF r, w
  <2>2. HostsRight(told) /\ QueueRight(told) /\ NetRight(told, w)
        /\ EarlyRight(told, r, k)
    BY <1>5 DEF Idle, Down, HostsRight, QueueRight, NetRight, EarlyRight
  <2>3. Right(told, w, r, k)
    BY <1>5, <2>1, <2>2 DEF Idle, Right
  <2> QED
    BY <2>3 DEF Core, r, w
<1>8. CASE e.reaction[callback] = "absent"
  <2>1. Notify(e, callback) = e
    BY <1>8 DEF Notify
  <2> QED
    BY <1>4, <1>8, <2>1
<1>9. CASE e.reaction[callback] = "reconnect" /\ e.attempt < MaxAttempts
  <2> DEFINE d == connect(told, e.clean, e.hosts)
  <2>1. Notify(e, callback) = d
    BY <1>9 DEF Notify, told
  <2>2. e.clean \in BOOLEAN /\ e.hosts \in Nat
    BY <1>1 DEF ClientType
  <2>3. /\ ~ told.connected /\ told.attempt < MaxAttempts /\ ~ told.notify
    BY <1>2, <1>5, <1>9 DEF Down
  <2>4. /\ Core(d, n, res, k)
        /\ ~ d.connected /\ d.socket = "connecting"
        /\ d.queue = told.queue /\ d.notify = told.notify
        /\ d.draining = told.draining /\ d.wireMessage = told.wireMessage
        /\ d.threw = told.threw
    BY <1>5, <1>6, <2>2, <2>3, Connected
  <2> HIDE DEF d
  <2> QED
    BY <1>2, <1>5, <2>1, <2>4 DEF Down, SameTurn
<1>10. CASE /\ e.reaction[callback] # "absent"
            /\ ~ (e.reaction[callback] = "reconnect" /\ e.attempt < MaxAttempts)
  <2>1. Notify(e, callback) = told
    BY <1>10 DEF Notify, told
  <2> QED
    BY <1>2, <1>5, <1>7, <2>1 DEF SameTurn
<1> QED
  BY <1>8, <1>9, <1>10

(* _disconnected keeps what is right and leaves a client without a         *)
(* connection, or one that connects again.                                 *)
LEMMA Lost ==
  ASSUME NEW c, NEW n, NEW res \in Results, NEW k \in {0, 1}, Idle(c, n),
         HostsRight(c), c.socket # "none",
         Answering(c, Heard(res, c.calls), k),
         c.connected /\ k = 0 => Counted(c, Heard(res, c.calls))
  PROVE  LET d == disconnected(c)
         IN  /\ Core(d, n, res, k) /\ Down(d)
             /\ d.wireMessage = c.wireMessage /\ d.threw = c.threw
<1> DEFINE out == IF c.socket = "open" THEN Append(c.out, Ack("close", 0))
                                       ELSE c.out
           left == [c EXCEPT !.sendPinger = cancel(@),
                             !.receivePinger = cancel(@),
                             !.connectTimer = FALSE,
                             !.queue = <<>>, !.draining = FALSE,
                             !.notify = FALSE, !.socket = "none", !.out = out]
           next == [left EXCEPT !.hostIndex = @ + 1]
           down == [left EXCEPT !.connected = FALSE]
           r == Heard(res, c.calls)
<1>1. ClientType(c) /\ IsSequence(c.calls) /\ c.connected \in BOOLEAN
      /\ c.attempt \in Nat /\ c.attempt <= MaxAttempts /\ c.attempt # 0
      /\ c.hosts \in Nat /\ c.hostIndex \in Nat
  BY DEF Idle, ClientType, Attempting
<1>2. IsSequence(out) /\ NetType(Wire(n, out))
  <2>1. CASE c.socket = "open"
    <3>1. IsSequence(c.out) /\ NetType(Wire(n, c.out))
      BY DEF Idle, ClientType
    <3>2. /\ Wire(n, Append(c.out, Ack("close", 0)))
                 = SocketStep(Wire(n, c.out), Ack("close", 0))
          /\ IsSequence(Append(c.out, Ack("close", 0)))
      BY <3>1, SentOneMore
    <3>3. NetType(SocketStep(Wire(n, c.out), Ack("close", 0)))
      BY <3>1, HungUp
    <3> QED
      BY <2>1, <3>2, <3>3
  <2>2. CASE c.socket # "open"
    BY <2>2 DEF Idle, ClientType
  <2> QED
    BY <2>1, <2>2
<1> HIDE DEF out
<1>3. /\ cancel(c.sendPinger) \in PingerType /\ ~ cancel(c.sendPinger).armed
      /\ cancel(c.receivePinger) \in PingerType
      /\ ~ cancel(c.receivePinger).armed
  BY <1>1 DEF ClientType, PingerType, cancel
<1>4. ClientType(left) /\ left.out = out
      /\ left.sendPinger = cancel(c.sendPinger)
      /\ left.receivePinger = cancel(c.receivePinger)
  BY <1>1, <1>2, <1>3, EmptySequence DEF ClientType
<1>5. /\ left.connectTimer = FALSE /\ left.queue = <<>> /\ left.draining = FALSE
      /\ left.notify = FALSE /\ left.socket = "none"
      /\ left.connected = c.connected /\ left.attempt = c.attempt
      /\ left.reaction = c.reaction /\ left.calls = c.calls
      /\ left.hosts = c.hosts /\ left.hostIndex = c.hostIndex
      /\ left.sent = c.sent /\ left.stored = c.stored
      /\ left.wireMessage = c.wireMessage /\ left.threw = c.threw
  BY <1>1 DEF ClientType
<1>6. disconnected(c) = IF c.hosts > 0 /\ c.hostIndex < c.hosts - 1
                        THEN doConnect(next)
                        ELSE IF c.connected
                        THEN Notify(down, "onConnectionLost")
                        ELSE Notify(left, "onFailure")
  BY DEF disconnected, out
<1> HIDE DEF left
<1>7. Idle(left, n) /\ TimersRight(left)
  <2>1. AllSendable(<<>>) /\ Waiting(<<>>)
    BY DEF AllSendable, Waiting
  <2> QED
    BY <1>2, <1>3, <1>4, <1>5, <2>1
    DEF Idle, TimersRight, Keeping, Attempting
<1>8. /\ Idle(down, n) /\ TimersRight(down) /\ Down(down)
      /\ down.socket = "none" /\ down.attempt = c.attempt
      /\ down.reaction = c.reaction /\ down.calls = c.calls
      /\ down.wireMessage = c.wireMessage /\ down.threw = c.threw
  <2>1. ClientType(down) /\ down.connected = FALSE
    BY <1>4 DEF ClientType
  <2>2. /\ down.connectTimer = FALSE /\ down.queue = <<>>
        /\ down.draining = FALSE /\ down.notify = FALSE
        /\ down.socket = "none" /\ down.attempt = c.attempt
        /\ down.reaction = c.reaction /\ down.calls = c.calls
        /\ down.sent = left.sent /\ down.stored = left.stored
        /\ down.wireMessage = c.wireMessage /\ down.threw = c.threw
        /\ down.sendPinger = left.sendPinger
        /\ down.receivePinger = left.receivePinger /\ down.out = left.out
    BY <1>4, <1>5 DEF ClientType
  <2> HIDE DEF down
  <2> QED
    BY <1>5, <1>7, <2>1, <2>2
    DEF Idle, TimersRight, Down, Keeping, Attempting
<1>9. r \in Results
  BY <1>1, HeardType
<1>10. CASE c.hosts > 0 /\ c.hostIndex < c.hosts - 1
  <2>1. ~ c.connected
    BY <1>1, <1>10 DEF HostsRight
  <2>2. ClientType(next)
    <3> DEFINE i == left.hostIndex + 1
               g == [left EXCEPT !.hostIndex = i]
    <3>1. i \in Nat
      BY <1>1, <1>5
    <3> HIDE DEF i
    <3>2. ClientType(g)
      BY <1>4, <3>1 DEF ClientType
    <3> QED
      BY <3>2 DEF i
  <2>3. /\ next.queue = <<>> /\ next.draining = FALSE /\ next.notify = FALSE
        /\ next.attempt = c.attempt /\ next.reaction = c.reaction
        /\ next.calls = c.calls /\ next.sent = left.sent
        /\ next.stored = left.stored /\ next.wireMessage = c.wireMessage
        /\ next.threw = c.threw /\ next.out = left.out
        /\ next.socket = left.socket
    BY <1>4, <1>5 DEF ClientType
  <2> HIDE DEF next
  <2>4. Idle(next, n) /\ next.attempt # 0
    BY <1>1, <1>5, <1>7, <2>2, <2>3 DEF Idle, Keeping, Attempting
  <2> DEFINE d == doConnect(next)
  <2>5. /\ Answering(d, r, k) /\ (next.notify => Counted(next, r))
               => Right(d, Wire(n, d.out), r, k)
        /\ ~ d.connected /\ d.socket = "connecting"
        /\ d.queue = next.queue /\ d.notify = next.notify
        /\ d.draining = next.draining /\ d.wireMessage = next.wireMessage
        /\ d.threw = next.threw /\ d.reaction = next.reaction
        /\ d.attempt = next.attempt /\ d.calls = next.calls
    <3> HIDE DEF r
    <3> QED BY <1>9, <2>4, Dialled
  <2> HIDE DEF d
  <2>6. Answering(d, r, k)
    <3> HIDE DEF r
    <3>1. Answering(c, r, k)
      BY DEF r
    <3> QED
      BY <2>1, <2>3, <2>5, <3>1 DEF Answering, Phase, Listens
  <2>7. Core(d, n, res, k)
    BY <2>3, <2>5, <2>6 DEF Core
  <2>8. Down(d)
    BY <2>3, <2>5 DEF Down
  <2> QED
    BY <1>6, <1>10, <2>3, <2>5, <2>7, <2>8 DEF d
<1>11. CASE ~ (c.hosts > 0 /\ c.hostIndex < c.hosts - 1) /\ c.connected
  <2> DEFINE s == Heard(res, Append(c.calls, <<"onConnectionLost", c.attempt>>))
  <2>1. s \in Results /\ OneMore(r, s, "onConnectionLost", c.attempt)
    BY <1>1, HeardType, HeardOne, Appended
  <2> HIDE DEF r, s, down
  <2>2. Answering(c, r, k) /\ (c.connected /\ k = 0 => Counted(c, r))
    BY DEF r
  <2>3. down.reaction = c.reaction /\ ~ down.connected
        /\ down.socket = "none" /\ down.attempt = c.attempt
    BY <1>8 DEF Down
  <2>4. Answering(down, s, k)
    <3> DEFINE Then(t) == \/ /\ c.connected
                             /\ OneMore(r, t, "onConnectionLost", c.attempt)
                          \/ /\ ~ c.connected
                             /\ OneMore(r, t, "onFailure", c.attempt)
    <3>1. ASSUME NEW t \in Results, Then(t) PROVE Answering(down, t, k)
      BY <1>1, <1>9, <2>2, <2>3, <3>1, LossAnswered
    <3>2. Then(s)
      BY <1>11, <2>1
    <3> HIDE DEF Then
    <3> QED
      BY <2>1, <3>1, <3>2
  <2>6. Answering(down, Heard(res, Append(down.calls,
                      <<"onConnectionLost", down.attempt>>)), k)
    BY <1>8, <2>4 DEF s
  <2> DEFINE d == Notify(down, "onConnectionLost")
  <2>7. /\ Core(d, n, res, k) /\ Down(d)
        /\ d.wireMessage = down.wireMessage /\ d.threw = down.threw
    BY <1>8, <2>6, Notified
  <2> HIDE DEF d
  <2> QED
    BY <1>6, <1>8, <1>11, <2>7 DEF d
<1>12. CASE ~ (c.hosts > 0 /\ c.hostIndex < c.hosts - 1) /\ ~ c.connected
  <2> DEFINE s == Heard(res, Append(c.calls, <<"onFailure", c.attempt>>))
  <2>1. s \in Results /\ OneMore(r, s, "onFailure", c.attempt)
    BY <1>1, HeardType, HeardOne, Appended
  <2> HIDE DEF r, s
  <2>2. Answering(c, r, k) /\ (c.connected /\ k = 0 => Counted(c, r))
    BY DEF r
  <2>3. left.reaction = c.reaction /\ ~ left.connected
        /\ left.socket = "none" /\ left.attempt = c.attempt
    BY <1>5, <1>12
  <2>4. Answering(left, s, k)
    BY <1>1, <1>9, <1>12, <2>1, <2>2, <2>3, LossAnswered
  <2>6. Answering(left, Heard(res, Append(left.calls,
                      <<"onFailure", left.attempt>>)), k)
    BY <1>5, <2>4 DEF s
  <2> DEFINE d == Notify(left, "onFailure")
  <2>7. Down(left)
    BY <1>5, <1>12 DEF Down
  <2>8. /\ Core(d, n, res, k) /\ Down(d)
        /\ d.wireMessage = left.wireMessage /\ d.threw = left.threw
    BY <1>5, <1>7, <2>6, <2>7, Notified
  <2> HIDE DEF d
  <2> QED
    BY <1>5, <1>6, <1>12, <2>8 DEF d
<1> QED
  BY <1>10, <1>11, <1>12

-----------------------------------------------------------------------------
(* Draining the queue                                                      *)
LEMMA NextSent ==
  ASSUME NEW x, NEW n, NEW res \in Results, NEW k \in {0, 1},
         Core(x, n, res, k), x.connected, x.draining, ~ x.threw, x.queue = <<>>,
         NEW m, IsPacket(m), Encodable(m) \/ ~ x.notify
  PROVE  LET y == SendNext(x, m)
         IN  /\ Core(y, n, res, k) /\ y.queue = <<>>
             /\ y.wireMessage = x.wireMessage
             /\ IF x.notify
                THEN Down(y) /\ ~ y.threw
                ELSE /\ y.connected /\ y.draining /\ ~ y.notify
                     /\ (y.threw <=> ~ Encodable(m))
<1> DEFINE after == socket_send(x, m)
           quiet == [after EXCEPT !.notify = FALSE]
<1>1. x.socket = "open" /\ x.notify \in BOOLEAN
  BY DEF Core, Right, QueueRight, ClientType
<1>2. /\ Core(after, n, res, k) /\ SameTurn(x, after)
      /\ after.threw <=> ~ Encodable(m)
  BY <1>1, SocketSend
<1>3. SendNext(x, m) = IF after.threw \/ ~ after.notify
                       THEN after ELSE disconnected(quiet)
  BY DEF SendNext
<1> HIDE DEF after
<1>4. CASE ~ x.notify
  BY <1>2, <1>3, <1>4 DEF SameTurn
<1>5. CASE x.notify
  <2>1. Encodable(m) /\ SendNext(x, m) = disconnected(quiet)
    BY <1>2, <1>3, <1>5 DEF SameTurn
  <2>2. ClientType(after)
    BY <1>2 DEF Core, Right
  <2>3. ClientType(quiet)
    BY <2>2 DEF ClientType
  <2>4. /\ quiet.connected = after.connected /\ quiet.socket = after.socket
        /\ quiet.reaction = after.reaction /\ quiet.attempt = after.attempt
        /\ quiet.hosts = after.hosts /\ quiet.hostIndex = after.hostIndex
        /\ quiet.queue = after.queue /\ quiet.out = after.out
        /\ quiet.calls = after.calls /\ quiet.sent = after.sent
        /\ quiet.stored = after.stored /\ quiet.threw = after.threw
        /\ quiet.wireMessage = after.wireMessage
    BY <2>2 DEF ClientType
  <2> HIDE DEF quiet
  <2>5. Idle(quiet, n)
    BY <1>2, <2>3, <2>4
    DEF Core, Right, Idle, Keeping, Attempting, QueueRight
  <2>6. HostsRight(quiet) /\ quiet.socket # "none"
    BY <1>1, <1>2, <2>4 DEF Core, Right, HostsRight, SameTurn
  <2>7. /\ Answering(quiet, Heard(res, quiet.calls), k)
        /\ k = 0 => Counted(quiet, Heard(res, quiet.calls))
    <3> DEFINE r == Heard(res, after.calls)
    <3>1. Answering(after, r, k) /\ EarlyRight(after, r, k)
      BY <1>2 DEF Core, Right
    <3> HIDE DEF r
    <3>2. Answering(quiet, r, k) /\ (k = 0 => Counted(quiet, r))
      BY <1>2, <1>5, <2>4, <3>1
      DEF Answering, Phase, EarlyRight, Counted, Listens, SameTurn
    <3> QED
      BY <2>4, <3>2 DEF r
  <2> DEFINE d == disconnected(quiet)
  <2>8. /\ Core(d, n, res, k) /\ Down(d)
        /\ d.wireMessage = quiet.wireMessage /\ d.threw = quiet.threw
    BY <2>5, <2>6, <2>7, Lost
  <2> HIDE DEF d
  <2>9. ~ quiet.threw /\ quiet.wireMessage = x.wireMessage
    BY <1>2, <2>1, <2>4 DEF SameTurn
  <2> QED
    BY <1>5, <2>1, <2>8, <2>9 DEF d, Down
<1> QED
  BY <1>1, <1>4, <1>5

(* A message taken from the queue after the connection was lost throws;    *)
(* the loop ends.                                                          *)
LEMMA NextRefused ==
  ASSUME NEW x, NEW n, NEW res, NEW k, Core(x, n, res, k), Down(x),
         NEW m, IsPacket(m)
  PROVE  LET y == SendNext(x, m)
         IN  /\ Core(y, n, res, k) /\ Down(y) /\ y.threw
             /\ y.wireMessage = x.wireMessage
<1>1. CASE x.threw
  <2>1. SendNext(x, m) = [x EXCEPT !.queue = x.queue]
    BY <1>1 DEF SendNext, Down
  <2>2. [x EXCEPT !.queue = x.queue] = x
    BY DEF Core, Right, ClientType
  <2> QED
    BY <1>1, <2>1, <2>2
<1>2. CASE ~ x.threw
  <2> DEFINE after == socket_send(x, m)
  <2>1. /\ Core(after, n, res, k) /\ SameTurn(x, after) /\ after.threw
    BY SocketSend DEF Down
  <2>2. SendNext(x, m) = after
    BY <1>2, <2>1 DEF SendNext
  <2> HIDE DEF after
  <2> QED
    BY <2>1, <2>2 DEF Down, SameTurn
<1> QED
  BY <1>1, <1>2

(* What the loop of _process_queue may have come to after i messages: the   *)
(* client is connected, and only a last message that cannot be encoded has  *)
(* thrown; or the connection was lost with the first, and any other throws. *)
Flowing(x, base, seq, i) ==
    /\ x.connected /\ x.draining /\ (x.notify => base.notify /\ i = 0)
    /\ x.threw => i = Len(seq) /\ i > 0 /\ ~ Encodable(seq[i])

Cut(x, base, i) ==
    Down(x) /\ base.notify /\ i >= 1 /\ (x.threw <=> i > 1)

(* The values of the loop after each message                               *)
Draining(f, base, n, res, k, seq) ==
    /\ f[0] = base
    /\ \A i \in 1 .. Len(seq) : f[i] = SendNext(f[i - 1], seq[i])
    /\ FoldLeft(SendNext, base, seq) = f[Len(seq)]
    /\ \A i \in 0 .. Len(seq) :
           /\ Core(f[i], n, res, k) /\ f[i].queue = <<>>
           /\ f[i].wireMessage = base.wireMessage
           /\ Flowing(f[i], base, seq, i) \/ Cut(f[i], base, i)

(* Message by message                                                      *)
LEMMA DrainWalk ==
  ASSUME NEW base, NEW n, NEW res \in Results, NEW k \in {0, 1},
         Core(base, n, res, k), base.connected, base.draining, ~ base.threw,
         base.queue = <<>>,
         NEW seq, IsSequence(seq), AllSendable(seq),
         \A i \in DOMAIN seq : \/ Encodable(seq[i])
                               \/ i = Len(seq) /\ (base.notify => i > 1)
  PROVE  \E f : Draining(f, base, n, res, k, seq)
<1> DEFINE l == Len(seq)
           Up(x, i) == Flowing(x, base, seq, i)
           Gone(x, i) == Cut(x, base, i)
           Inv(x, i) == /\ Core(x, n, res, k) /\ x.queue = <<>>
                        /\ x.wireMessage = base.wireMessage
                        /\ Up(x, i) \/ Gone(x, i)
<1>1. l \in Nat /\ DOMAIN seq = 1 .. l /\ (seq = <<>> <=> l = 0)
  BY Appended
<1>0. ASSUME NEW i \in 1 .. l
      PROVE  Encodable(seq[i]) \/ (i = l /\ (base.notify => i > 1))
  BY <1>1, i \in DOMAIN seq
<1> USE DEF Flowing, Cut
<1>2. PICK f : /\ f[0] = base
               /\ \A i \in 1 .. l : f[i] = SendNext(f[i - 1], seq[i])
               /\ FoldLeft(SendNext, base, seq) = f[l]
  BY SendWalk
<1> DEFINE T == {i \in 0 .. l : Inv(f[i], i)}
<1>3. 0 \in T
  <2>1. f[0] = base
    BY <1>2
  <2> DEFINE x == f[0]
  <2> HIDE DEF x
  <2>2. Inv(x, 0)
    BY <2>1 DEF x
  <2> QED
    BY <1>1, <2>2 DEF x
<1>4. ASSUME NEW i \in 0 .. l - 1, i \in T PROVE i + 1 \in T
  <2>1. /\ i + 1 \in 1 .. l /\ i + 1 \in 0 .. l /\ (i + 1) - 1 = i /\ i \in Nat
        /\ i # l
    <3> HIDE DEF l, T
    <3> QED
      BY <1>1
  <2> DEFINE x == f[i]
             m == seq[i + 1]
             y == SendNext(x, m)
  <2>2. f[i + 1] = y
    <3>1. f[i + 1] = SendNext(f[(i + 1) - 1], seq[i + 1])
      BY <1>2, <2>1, Zenon
    <3> QED
      BY <2>1, <3>1
  <2>3. Inv(x, i)
    BY <1>4
  <2>4. IsPacket(m) /\ (Encodable(m) \/ (i + 1 = l /\ (base.notify => i + 1 > 1)))
    <3>1. i + 1 \in DOMAIN seq
      BY <1>1, <2>1
    <3>2. IsPacket(seq[i + 1])
      BY <3>1 DEF AllSendable
    <3>3. Encodable(seq[i + 1]) \/ (i + 1 = l /\ (base.notify => i + 1 > 1))
      BY <1>0, <2>1
    <3> QED
      BY <3>2, <3>3
  <2> HIDE DEF x, y
  <2>5. CASE Gone(x, i)
    <3>1. Core(y, n, res, k) /\ Down(y) /\ y.threw /\ y.wireMessage = x.wireMessage
      BY <2>3, <2>4, <2>5, NextRefused DEF y
    <3>2. Inv(y, i + 1)
      BY <2>1, <2>3, <2>5, <3>1 DEF Down
    <3> QED
      BY <2>1, <2>2, <3>2
  <2>6. CASE Up(x, i)
    <3>0. i # Len(seq)
      BY <2>1
    <3>1. ~ x.threw /\ x.connected /\ x.draining /\ (x.notify => base.notify /\ i = 0)
      BY <2>6, <3>0
    <3>2. Encodable(m) \/ ~ x.notify
      BY <2>4, <3>1
    <3> HIDE DEF m
    <3>3. /\ Core(y, n, res, k) /\ y.queue = <<>>
          /\ y.wireMessage = x.wireMessage
          /\ IF x.notify
             THEN Down(y) /\ ~ y.threw
             ELSE /\ y.connected /\ y.draining /\ ~ y.notify
                  /\ (y.threw <=> ~ Encodable(m))
      BY <2>3, <2>4, <3>1, <3>2, NextSent DEF y
    <3>4. CASE x.notify
      BY <2>1, <2>2, <2>3, <3>1, <3>3, <3>4
    <3>5. CASE ~ x.notify
      <4>1. y.threw => i + 1 = l /\ ~ Encodable(seq[i + 1])
        BY <2>4, <3>3, <3>5 DEF m
      <4>2. Inv(y, i + 1)
        BY <2>1, <2>3, <3>3, <3>5, <4>1
      <4> QED
        BY <2>1, <2>2, <4>2
    <3> QED
      BY <3>4, <3>5
  <2> QED
    BY <2>3, <2>5, <2>6
<1>5. \A i \in 0 .. l : Inv(f[i], i)
  <2>1. T \in SUBSET (0 .. l)
    OBVIOUS
  <2> HIDE DEF T
  <2>2. T = 0 .. l
    BY <1>1, <1>3, <1>4, <2>1, Induction
  <2> QED
    BY <2>2 DEF T
<1>6. Draining(f, base, n, res, k, seq)
  BY <1>2, <1>5 DEF Draining
<1> QED
  BY <1>6

(* The loop empties the queue.                                             *)
LEMMA Drained ==
  ASSUME NEW base, NEW n, NEW res \in Results, NEW k \in {0, 1},
         Core(base, n, res, k), base.connected, base.draining, ~ base.threw,
         base.queue = <<>>,
         NEW seq, IsSequence(seq), AllSendable(seq),
         \A i \in DOMAIN seq : \/ Encodable(seq[i])
                               \/ i = Len(seq) /\ (base.notify => i > 1)
  PROVE  LET e == FoldLeft(SendNext, base, seq)
         IN  /\ Core(e, n, res, k) /\ e.queue = <<>>
             /\ e.wireMessage = base.wireMessage
             /\ \/ /\ e.connected /\ (e.notify => base.notify /\ seq = <<>>)
                   /\ e.threw => seq # <<>> /\ ~ Encodable(seq[Len(seq)])
                \/ Down(e) /\ base.notify /\ (Len(seq) > 1 <=> e.threw)
<1> DEFINE e == FoldLeft(SendNext, base, seq)
<1>1. Len(seq) \in Nat /\ (seq = <<>> <=> Len(seq) = 0)
  BY Appended
<1>2. /\ Core(e, n, res, k) /\ e.queue = <<>>
      /\ e.wireMessage = base.wireMessage
      /\ Flowing(e, base, seq, Len(seq)) \/ Cut(e, base, Len(seq))
  <2>1. Len(seq) \in 0 .. Len(seq)
    BY <1>1
  <2>2. PICK f : Draining(f, base, n, res, k, seq)
    BY DrainWalk
  <2>3. e = f[Len(seq)]
    BY <2>2 DEF Draining
  <2> HIDE DEF e
  <2> QED
    BY <2>1, <2>2, <2>3 DEF Draining
<1> HIDE DEF e
<1>3. /\ Core(e, n, res, k) /\ e.queue = <<>>
      /\ e.wireMessage = base.wireMessage
      /\ \/ /\ e.connected /\ (e.notify => base.notify /\ seq = <<>>)
            /\ e.threw => seq # <<>> /\ ~ Encodable(seq[Len(seq)])
         \/ Down(e) /\ base.notify /\ (Len(seq) > 1 <=> e.threw)
  BY <1>1, <1>2 DEF Flowing, Cut
<1> QED
  BY <1>3 DEF e

(* Another queue, and a callback that disconnect() leaves                  *)
LEMMA Requeued ==
  ASSUME NEW c, NEW d, NEW n, NEW res, NEW k, Core(c, n, res, k),
         ClientType(d), SameRest(c, d), SamePingers(c, d),
         d.connected = c.connected, d.socket = c.socket, d.out = c.out,
         AllSendable(d.queue), Waiting(d.queue),
         EarlyRight(d, Heard(res, c.calls), k)
  PROVE  Core(d, n, res, k)
<1> DEFINE w == Wire(n, c.out)
           r == Heard(res, c.calls)
<1>1. Right(c, w, r, k) /\ EarlyRight(d, r, k)
  BY DEF Core
<1>2. Core(d, n, res, k) <=> Right(d, w, r, k)
  BY DEF Core, SameRest
<1> HIDE DEF w, r
<1>3. /\ Keeping(d) /\ Attempting(d) /\ HostsRight(d) /\ QueueRight(d)
      /\ NetRight(d, w) /\ TimersRight(d)
  BY <1>1 DEF Right, SameRest, SamePingers, Keeping, Attempting, HostsRight,
              QueueRight, NetRight, TimersRight
<1>4. Answering(d, r, k)
  BY <1>1 DEF Right, SameRest, Answering, Listens, Phase
<1> QED
  BY <1>1, <1>2, <1>3, <1>4 DEF Right

(* An empty queue can be sent.                                             *)
LEMMA NothingWaits == AllSendable(<<>>) /\ Waiting(<<>>)
BY DEF AllSendable, Waiting

(* _process_queue, from the queue it finds.                                *)
LEMMA Processed ==
  ASSUME NEW c, NEW n, NEW res \in Results, NEW k \in {0, 1},
         Core(c, n, res, k), c.connected, ~ c.threw,
         NEW seq, IsSequence(seq), AllSendable(seq),
         \A i \in DOMAIN seq : \/ Encodable(seq[i])
                               \/ i = Len(seq) /\ (c.notify => i > 1),
         NEW q, q = [c EXCEPT !.queue = seq]
  PROVE  LET d == process_queue(q)
         IN  /\ Core(d, n, res, k) /\ d.queue = <<>> /\ ~ d.draining
             /\ d.wireMessage = c.wireMessage
             /\ \/ /\ d.connected /\ (d.notify => c.notify /\ seq = <<>>)
                   /\ d.threw => seq # <<>> /\ ~ Encodable(seq[Len(seq)])
                \/ Down(d) /\ c.notify /\ (Len(seq) > 1 <=> d.threw)
<1> DEFINE base == [q EXCEPT !.queue = <<>>, !.draining = TRUE]
           e == FoldLeft(SendNext, base, seq)
           d == [e EXCEPT !.draining = FALSE]
<1>1. ClientType(c)
  BY DEF Core, Right
<1>2. q.queue = seq
  BY <1>1 DEF ClientType
<1>3. process_queue(q) = d
  BY <1>2 DEF process_queue
<1>4. ClientType(base) /\ base.queue = <<>> /\ base.draining
  BY <1>1, EmptySequence DEF ClientType
<1>5. /\ SameRest(c, base) /\ SamePingers(c, base)
      /\ base.connected = c.connected /\ base.socket = c.socket
      /\ base.out = c.out /\ base.notify = c.notify
      /\ base.threw = c.threw /\ base.wireMessage = c.wireMessage
  BY <1>1 DEF ClientType, SameRest, SamePingers
<1> HIDE DEF base
<1>6. EarlyRight(base, Heard(res, c.calls), k)
  BY <1>5 DEF Core, Right, EarlyRight, Counted, Listens, SameRest
<1>7. Core(base, n, res, k)
  BY <1>4, <1>5, <1>6, NothingWaits, Requeued
<1>8. /\ Core(e, n, res, k) /\ e.queue = <<>>
      /\ e.wireMessage = base.wireMessage
      /\ \/ /\ e.connected /\ (e.notify => base.notify /\ seq = <<>>)
            /\ e.threw => seq # <<>> /\ ~ Encodable(seq[Len(seq)])
         \/ Down(e) /\ base.notify /\ (Len(seq) > 1 <=> e.threw)
  <2>1. \A i \in DOMAIN seq : \/ Encodable(seq[i])
                              \/ i = Len(seq) /\ (base.notify => i > 1)
    BY <1>5
  <2>2. base.connected /\ ~ base.threw
    BY <1>5
  <2> QED
    BY <1>4, <1>7, <2>1, <2>2, Drained
<1> HIDE DEF e
<1>9. ClientType(e)
  BY <1>8 DEF Core, Right
<1>10. ClientType(d) /\ d.draining = FALSE
  BY <1>9 DEF ClientType
<1>11. /\ SameLink(e, d) /\ SamePingers(e, d) /\ d.sent = e.sent
       /\ d.stored = e.stored /\ d.calls = e.calls /\ d.threw = e.threw
       /\ d.wireMessage = e.wireMessage
  BY <1>9 DEF ClientType, SameLink, SamePingers
<1> HIDE DEF d
<1>12. Core(d, n, res, k)
  <2>1. Keeping(d)
    BY <1>8, <1>11 DEF Core, Right, Keeping
  <2> QED
    BY <1>8, <1>10, <1>11, <2>1, Quiet
<1>13. /\ d.connected = e.connected /\ d.notify = e.notify
       /\ d.queue = e.queue /\ (Down(e) => Down(d))
  BY <1>10, <1>11 DEF SameLink, Down
<1> QED
  BY <1>3, <1>5, <1>8, <1>10, <1>11, <1>12, <1>13

(* A queue that can be sent, and one message behind it.                    *)
LEMMA QueueGrows ==
  ASSUME NEW s, IsSequence(s), AllSendable(s), Waiting(s),
         NEW m, IsPacket(m)
  PROVE  LET t == Append(s, m)
         IN  /\ IsSequence(t) /\ AllSendable(t) /\ t # <<>>
             /\ Encodable(m) => Waiting(t)
             /\ Len(s) \in Nat /\ Len(t) = Len(s) + 1 /\ t[Len(t)] = m
             /\ \A i \in DOMAIN t : Encodable(t[i]) \/ i = Len(t)
             /\ s # <<>> <=> Len(s) >= 1
<1> DEFINE t == Append(s, m)
<1>1. /\ IsSequence(t) /\ t # <<>>
      /\ Len(s) \in Nat /\ DOMAIN s = 1 .. Len(s)
      /\ Len(t) = Len(s) + 1 /\ DOMAIN t = 1 .. Len(s) + 1
      /\ \A i \in 1 .. Len(s) : t[i] = s[i]
      /\ t[Len(s) + 1] = m
      /\ (s = <<>> <=> Len(s) = 0)
  BY Appended
<1> HIDE DEF t
<1>2. ASSUME NEW i \in DOMAIN t
      PROVE  /\ IsPacket(t[i]) /\ (Encodable(t[i]) \/ i = Len(t))
             /\ Encodable(m) => Encodable(t[i])
  <2>1. i \in 1 .. Len(s) \/ i = Len(s) + 1
    BY <1>1
  <2>2. CASE i \in 1 .. Len(s)
    BY <1>1, <2>2 DEF AllSendable, Waiting
  <2>3. CASE i = Len(s) + 1
    BY <1>1, <2>3
  <2> QED
    BY <2>1, <2>2, <2>3
<1>3. s # <<>> <=> Len(s) >= 1
  BY <1>1
<1> QED
  BY <1>1, <1>2, <1>3 DEF t, AllSendable, Waiting

(* _schedule_message leaves a settled client.                              *)
LEMMA Scheduled ==
  ASSUME NEW c, NEW n, NEW res \in Results, NEW k \in {0, 1},
         Core(c, n, res, k), ~ c.draining, ~ c.threw, NEW m, IsPacket(m),
         \/ Encodable(m)
         \/ c.connected /\ (c.notify => c.queue # <<>>)
  PROVE  LET d == schedule_message(c, m)
         IN  /\ Core(d, n, res, k) /\ Settled(d)
             /\ d.wireMessage = c.wireMessage
             /\ c.connected =>
                    /\ d.queue = <<>>
                    /\ \/ d.connected /\ (d.threw => ~ Encodable(m))
                       \/ Down(d) /\ c.notify /\ (c.queue # <<>> <=> d.threw)
             /\ ~ c.connected => ~ d.connected
<1> DEFINE seq == Append(c.queue, m)
           q == [c EXCEPT !.queue = seq]
<1>1. /\ ClientType(c) /\ IsSequence(c.queue)
      /\ AllSendable(c.queue) /\ Waiting(c.queue)
  BY DEF Core, Right, ClientType, QueueRight
<1>2. /\ IsSequence(seq) /\ AllSendable(seq) /\ seq # <<>>
      /\ Encodable(m) => Waiting(seq)
      /\ Len(c.queue) \in Nat /\ Len(seq) = Len(c.queue) + 1
      /\ seq[Len(seq)] = m
      /\ \A i \in DOMAIN seq : Encodable(seq[i]) \/ i = Len(seq)
      /\ c.queue # <<>> <=> Len(c.queue) >= 1
  BY <1>1, QueueGrows
<1>3. schedule_message(c, m) = IF c.connected THEN process_queue(q) ELSE q
  BY DEF schedule_message
<1> HIDE DEF seq
<1>4. CASE c.connected
  <2> DEFINE d == process_queue(q)
  <2>1. \A i \in DOMAIN seq : \/ Encodable(seq[i])
                              \/ i = Len(seq) /\ (c.notify => i > 1)
    <3>1. Encodable(m) \/ (c.notify => Len(seq) > 1)
      BY <1>2
    <3>2. ASSUME NEW i \in DOMAIN seq, ~ Encodable(seq[i])
          PROVE  i = Len(seq) /\ (c.notify => i > 1)
      <4>1. i = Len(seq) /\ ~ Encodable(m)
        BY <1>2, <3>2
      <4> QED
        BY <3>1, <4>1
    <3> QED
      BY <3>2
  <2>2. /\ Core(d, n, res, k) /\ d.queue = <<>> /\ ~ d.draining
        /\ d.wireMessage = c.wireMessage
        /\ \/ /\ d.connected /\ (d.notify => c.notify /\ seq = <<>>)
              /\ d.threw => seq # <<>> /\ ~ Encodable(seq[Len(seq)])
           \/ Down(d) /\ c.notify /\ (Len(seq) > 1 <=> d.threw)
    BY <1>2, <1>4, <2>1, Processed
  <2> HIDE DEF d
  <2>3. Settled(d)
    BY <1>2, <2>2 DEF Settled, Down
  <2>4. c.queue # <<>> <=> Len(seq) > 1
    BY <1>2
  <2> QED
    BY <1>2, <1>3, <1>4, <2>2, <2>3, <2>4 DEF d
<1>5. CASE ~ c.connected
  <2>1. Encodable(m)
    BY <1>5
  <2>2. ClientType(q) /\ q.queue = seq
    BY <1>1, <1>2 DEF ClientType
  <2>3. /\ SameRest(c, q) /\ SamePingers(c, q)
        /\ q.connected = c.connected /\ q.socket = c.socket
        /\ q.out = c.out /\ q.notify = c.notify
        /\ q.draining = c.draining /\ q.wireMessage = c.wireMessage
    BY <1>1 DEF ClientType, SameRest, SamePingers
  <2> HIDE DEF q
  <2>4. EarlyRight(q, Heard(res, c.calls), k)
    BY <2>3 DEF Core, Right, EarlyRight, Counted, Listens, SameRest
  <2>5. Core(q, n, res, k)
    BY <1>2, <2>1, <2>2, <2>3, <2>4, Requeued
  <2>6. Settled(q)
    BY <1>2, <1>5, <2>2, <2>3 DEF Settled
  <2> QED
    BY <1>3, <1>5, <2>3, <2>5, <2>6
<1> QED
  BY <1>4, <1>5

-----------------------------------------------------------------------------
(* What the client keeps                                                   *)
LEMMA KeptPut ==
  ASSUME NEW map, Kept(map), NEW id \in Nat, NEW v, Keepable(v)
  PROVE  Kept(Put(map, id, v)) /\ Put(map, id, v)[id] = v
         /\ id \in DOMAIN Put(map, id, v)
<1> DEFINE new == Put(map, id, v)
<1>1. /\ DOMAIN new = DOMAIN map \cup {id}
      /\ \A i \in DOMAIN new : new[i] = IF i = id THEN v ELSE map[i]
  BY DEF Put
<1> HIDE DEF new
<1>2. IsFiniteSet(DOMAIN map \cup {id})
  BY FS_AddElement DEF Kept
<1> QED
  BY <1>1, <1>2 DEF Kept, new

(* What is kept may be kept in part ...                                    *)
LEMMA KeptLess ==
  ASSUME NEW map, Kept(map), NEW S
  PROVE  Kept([i \in DOMAIN map \ S |-> map[i]])
<1>1. IsFiniteSet(DOMAIN map \ S)
  BY FS_Subset, DOMAIN map \ S \in SUBSET DOMAIN map DEF Kept
<1> QED
  BY <1>1 DEF Kept

(* ... without one message ...                                             *)
LEMMA KeptDelete == ASSUME NEW map, Kept(map), NEW id PROVE Kept(Delete(map, id))
BY KeptLess DEF Delete

(* ... or not at all.                                                      *)
LEMMA KeptNothing == Kept(EmptyMap)
<1>1. DOMAIN EmptyMap = {}
  BY DEF EmptyMap
<1> QED
  BY <1>1, FS_EmptySet DEF Kept

(* The same client but for what it keeps                                   *)
SameButKept(c, d) == /\ SameLink(c, d) /\ SamePingers(c, d)
                     /\ d.draining = c.draining /\ d.calls = c.calls

(* Changing what is kept, and nothing else, keeps what is right.           *)
LEMMA QuietlyKept ==
  ASSUME NEW c, NEW d, NEW n, NEW res, NEW k,
         Core(c, n, res, k), ClientType(d), Keeping(d), SameButKept(c, d)
  PROVE  Core(d, n, res, k)
BY Quiet DEF SameButKept

(* store() writes to the storage or throws.                                *)
LEMMA Stored ==
  ASSUME NEW c, ClientType(c), Keeping(c), NEW id \in DOMAIN c.sent
  PROVE  LET d == StoreSent(c, id)
         IN  /\ ClientType(d) /\ Keeping(d) /\ SameButKept(c, d)
             /\ d.threw \/ d.threw = c.threw
             /\ id \in DOMAIN d.sent /\ IsPacket(d.sent[id])
             /\ d.sent[id].type = c.sent[id].type
             /\ d.sent[id].body = c.sent[id].body
             /\ d.wireMessage = c.wireMessage
             /\ d.messageIdentifier = c.messageIdentifier
<1> DEFINE first == c.sent[id].seq = 0
           number == IF first THEN c.sequence + 1 ELSE c.sent[id].seq
           message == [c.sent[id] EXCEPT !.seq = number]
           sent == Put(c.sent, id, message)
           kept == Put(c.stored.sent, id, message)
           count == IF first THEN number ELSE c.sequence
           numbered == [c EXCEPT !.sent = sent, !.sequence = count]
           saved == [numbered EXCEPT !.stored.sent = kept]
<1>1. Keepable(c.sent[id]) /\ id \in Nat /\ Kept(c.sent) /\ Kept(c.stored.sent)
  BY DEF Keeping, Kept
<1>2. StoreSent(c, id) = IF message.body \in Oversized THEN Throw(numbered)
                                                        ELSE saved
  <2>1. numbered.stored.sent = c.stored.sent
    BY DEF ClientType
  <2> HIDE DEF message, count
  <2>2. StoreSent(c, id) =
            IF message.body \in Oversized THEN Throw(numbered)
            ELSE [numbered EXCEPT
                     !.stored.sent = Put(numbered.stored.sent, id, message)]
    BY DEF StoreSent, message, count
  <2> QED
    BY <2>1, <2>2
<1> HIDE DEF number, count
<1>3. /\ Keepable(message) /\ IsPacket(message)
      /\ message.type = c.sent[id].type /\ message.body = c.sent[id].body
  BY <1>1 DEF Keepable, IsPacket, Encodable
<1> HIDE DEF message
<1>4. Kept(sent) /\ sent[id] = message /\ id \in DOMAIN sent
  BY <1>1, <1>3, KeptPut
<1>5. Kept(kept)
  BY <1>1, <1>3, KeptPut
<1> HIDE DEF sent, kept
<1>6. /\ ClientType(numbered) /\ SameButKept(c, numbered)
      /\ numbered.sent = sent /\ numbered.stored = c.stored
      /\ numbered.threw = c.threw /\ numbered.wireMessage = c.wireMessage
      /\ numbered.messageIdentifier = c.messageIdentifier
  BY DEF ClientType, SameButKept, SameLink, SamePingers
<1> HIDE DEF numbered
<1>7. CASE message.body \in Oversized
  <2> DEFINE d == Throw(numbered)
  <2>1. /\ ClientType(d) /\ d.threw /\ d.sent = numbered.sent
        /\ d.stored = numbered.stored /\ d.wireMessage = numbered.wireMessage
        /\ SameButKept(numbered, d)
        /\ d.messageIdentifier = numbered.messageIdentifier
    BY <1>6 DEF ClientType, Throw, SameButKept, SameLink, SamePingers
  <2> HIDE DEF d
  <2>2. SameButKept(c, d)
    BY <1>6, <2>1 DEF SameButKept, SameLink, SamePingers
  <2>3. Keeping(d)
    BY <1>1, <1>4, <1>6, <2>1 DEF Keeping
  <2> QED
    BY <1>2, <1>3, <1>4, <1>6, <1>7, <2>1, <2>2, <2>3 DEF d
<1>8. CASE message.body \notin Oversized
  <2>1. ClientType(saved) /\ saved.stored.sent = kept
    BY <1>6 DEF ClientType
  <2>2. /\ saved.sent = numbered.sent /\ saved.threw = numbered.threw
        /\ saved.wireMessage = numbered.wireMessage
        /\ SameButKept(numbered, saved)
        /\ saved.messageIdentifier = numbered.messageIdentifier
    BY <1>6 DEF ClientType, SameButKept, SameLink, SamePingers
  <2> HIDE DEF saved
  <2>3. SameButKept(c, saved)
    BY <1>6, <2>2 DEF SameButKept, SameLink, SamePingers
  <2>4. Keeping(saved)
    BY <1>4, <1>5, <1>6, <2>1, <2>2 DEF Keeping
  <2> QED
    BY <1>2, <1>3, <1>4, <1>6, <1>8, <2>1, <2>2, <2>3, <2>4
<1> QED
  BY <1>7, <1>8

(* _requires_ack finds an identifier, keeps the message and may throw when *)
(* the storage is full.                                                    *)
LEMMA Acknowledged ==
  ASSUME NEW c, NEW n, NEW res, NEW k, Core(c, n, res, k),
         NEW type \in {"PUBLISH", "SUBSCRIBE", "UNSUBSCRIBE"}, NEW body,
         type = "PUBLISH" /\ FewMisspelt => body \notin Unencodable
  PROVE  LET d == requires_ack(c, type, body)
         IN  /\ Core(d, n, res, k)
             /\ d.connected = c.connected /\ d.queue = c.queue
             /\ d.notify = c.notify /\ d.draining = c.draining
             /\ ~ d.threw => /\ IsPacket(d.wireMessage)
                             /\ d.wireMessage.type = type
                             /\ d.wireMessage.body = body
             /\ DOMAIN c.sent = {} /\ type # "PUBLISH" => d.threw = c.threw
<1> DEFINE id == UnusedIdentifier(c)
           message == WireMessage(type, id, body)
           sent == Put(c.sent, id, message)
           kept == [c EXCEPT !.messageIdentifier = id, !.sent = sent]
           done == IF type = "PUBLISH" THEN StoreSent(kept, id) ELSE kept
           sending == done.sent[id]
           d == [done EXCEPT !.wireMessage = sending]
<1>1. ClientType(c) /\ Keeping(c)
  BY DEF Core, Right
<1>2. id \in Nat
  BY <1>1, FreeIdentifier DEF ClientType, Keeping, Kept
<1>3. /\ Keepable(message) /\ IsPacket(message)
      /\ message.type = type /\ message.body = body
  BY DEF Keepable, IsPacket, Encodable, WireMessage, Sendable
<1>4. requires_ack(c, type, body) =
          IF Cardinality(DOMAIN c.sent) > MaxMessageIdentifier THEN Throw(c)
                                                               ELSE d
  BY DEF requires_ack
<1> HIDE DEF id, message
<1>5. Kept(sent) /\ sent[id] = message /\ id \in DOMAIN sent
  BY <1>1, <1>2, <1>3, KeptPut DEF Keeping
<1> HIDE DEF sent
<1>6. /\ ClientType(kept) /\ SameButKept(c, kept)
      /\ kept.sent = sent /\ kept.stored = c.stored /\ kept.threw = c.threw
  BY <1>1, <1>2 DEF ClientType, SameButKept, SameLink, SamePingers
<1> HIDE DEF kept
<1>7. Keeping(kept)
  BY <1>1, <1>5, <1>6 DEF Keeping
<1>8. /\ ClientType(done) /\ Keeping(done) /\ SameButKept(kept, done)
      /\ IsPacket(done.sent[id]) /\ done.sent[id].type = type
      /\ done.sent[id].body = body
      /\ type # "PUBLISH" => done.threw = c.threw
  <2>1. CASE type = "PUBLISH"
    BY <1>3, <1>5, <1>6, <1>7, <2>1, Stored
  <2>2. CASE type # "PUBLISH"
    BY <1>3, <1>5, <1>6, <1>7, <2>2 DEF SameButKept, SameLink, SamePingers
  <2> QED
    BY <2>1, <2>2
<1> HIDE DEF done, sending
<1>9. /\ ClientType(d) /\ d.wireMessage = sending /\ SameButKept(done, d)
      /\ d.sent = done.sent /\ d.stored = done.stored /\ d.threw = done.threw
  BY <1>8 DEF ClientType, SameButKept, SameLink, SamePingers
<1> HIDE DEF d
<1>10. Keeping(d) /\ SameButKept(c, d)
  BY <1>6, <1>8, <1>9 DEF Keeping, SameButKept, SameLink, SamePingers
<1>11. Core(d, n, res, k)
  BY <1>9, <1>10, QuietlyKept
<1>12. CASE Cardinality(DOMAIN c.sent) > MaxMessageIdentifier
  <2>1. DOMAIN c.sent # {}
    BY <1>12, FS_EmptySet, ClientAssumption
  <2> QED
    BY <1>4, <1>12, <2>1, Thrown
<1>13. CASE ~ (Cardinality(DOMAIN c.sent) > MaxMessageIdentifier)
  BY <1>4, <1>8, <1>9, <1>10, <1>11, <1>13
  DEF sending, SameButKept, SameLink
<1> QED
  BY <1>12, <1>13

-----------------------------------------------------------------------------
(* The calls of the application                                            *)
LEMMA Requested ==
  ASSUME NEW c, NEW n, NEW res \in Results, NEW k \in {0, 1},
         Core(c, n, res, k), c.connected, ~ c.draining, ~ c.threw,
         c.notify => c.queue # <<>>, c.queue = <<>> \/ DOMAIN c.sent = {},
         NEW type \in {"SUBSCRIBE", "UNSUBSCRIBE"}
  PROVE  LET d == Request(c, type)
         IN  Core(d, n, res, k) /\ Settled(d) /\ d.queue = <<>>
<1> DEFINE i == c.requests + 1
           timers == IF RequestTimeout THEN c.requestTimers \cup {i}
                                       ELSE c.requestTimers
           timed == [c EXCEPT !.requests = i, !.requestTimers = timers]
           kept == requires_ack(timed, type, i)
           d == schedule_message(kept, kept.wireMessage)
<1>1. ClientType(c) /\ Keeping(c)
  BY DEF Core, Right
<1>2. Request(c, type) = IF kept.threw THEN kept ELSE d
  BY DEF Request
<1> HIDE DEF i, timers
<1>3. /\ ClientType(timed) /\ SameButKept(c, timed)
      /\ timed.sent = c.sent /\ timed.stored = c.stored
      /\ timed.threw = c.threw
  BY <1>1 DEF ClientType, SameButKept, SameLink, SamePingers
<1> HIDE DEF timed
<1>4. Keeping(timed)
  BY <1>1, <1>3 DEF Keeping
<1>5. Core(timed, n, res, k)
  BY <1>3, <1>4, QuietlyKept
<1>6. /\ Core(kept, n, res, k)
      /\ kept.connected = timed.connected /\ kept.queue = timed.queue
      /\ kept.notify = timed.notify /\ kept.draining = timed.draining
      /\ ~ kept.threw => /\ IsPacket(kept.wireMessage)
                         /\ kept.wireMessage.type = type
      /\ DOMAIN timed.sent = {} /\ type # "PUBLISH" => kept.threw = timed.threw
  BY <1>5, Acknowledged
<1> HIDE DEF kept
<1>7. /\ kept.connected = c.connected /\ kept.queue = c.queue
      /\ kept.notify = c.notify /\ kept.draining = c.draining
      /\ DOMAIN c.sent = {} => ~ kept.threw
  BY <1>3, <1>6 DEF SameButKept, SameLink
<1>8. CASE kept.threw
  BY <1>2, <1>6, <1>7, <1>8 DEF Settled
<1>9. CASE ~ kept.threw
  <2>1. Encodable(kept.wireMessage) /\ IsPacket(kept.wireMessage)
    BY <1>6, <1>9 DEF Encodable
  <2>2. /\ Core(d, n, res, k) /\ Settled(d)
        /\ kept.connected => d.queue = <<>>
    <3> DEFINE m == kept.wireMessage
    <3>1. IsPacket(m) /\ Encodable(m) /\ ~ kept.draining /\ ~ kept.threw
      BY <1>7, <1>9, <2>1
    <3> HIDE DEF m
    <3>2. LET e == schedule_message(kept, m)
          IN  /\ Core(e, n, res, k) /\ Settled(e)
              /\ kept.connected => e.queue = <<>>
      BY <1>6, <3>1, Scheduled
    <3> QED
      BY <3>2 DEF m
  <2> QED
    BY <1>2, <1>7, <1>9, <2>2
<1> QED
  BY <1>8, <1>9

(* disconnect() from the application or a callback, of a connected client  *)
(* or of one that was asked for an early callback.                         *)
LEMMA DisconnectCalled ==
  ASSUME NEW c, NEW n, NEW res \in Results, NEW k \in {0, 1},
         Core(c, n, res, k), ~ c.draining, ~ c.threw, c.socket # "none",
         \/ c.connected /\ k = 1
         \/ Counted(c, Heard(res, c.calls))
  PROVE  LET d == disconnect(c)
         IN  /\ Core(d, n, res, k) /\ Settled(d)
             /\ d.wireMessage = Ack("DISCONNECT", 0)
<1> DEFINE m == Ack("DISCONNECT", 0)
           q == [c EXCEPT !.wireMessage = m, !.notify = TRUE]
           d == schedule_message(q, m)
<1>1. disconnect(c) = d
  BY DEF disconnect
<1>2. IsPacket(m) /\ Encodable(m)
  BY DEF IsPacket, Encodable, Ack, WireMessage, Sendable
<1> HIDE DEF m
<1>3. ClientType(c) /\ IsSequence(c.queue)
      /\ AllSendable(c.queue) /\ Waiting(c.queue)
  BY DEF Core, Right, ClientType, QueueRight
<1>4. ClientType(q) /\ q.wireMessage = m /\ q.notify
  BY <1>3 DEF ClientType
<1>5. /\ SameRest(c, q) /\ SamePingers(c, q) /\ q.queue = c.queue
      /\ q.connected = c.connected /\ q.socket = c.socket
      /\ q.out = c.out /\ q.draining = c.draining /\ q.threw = c.threw
  BY <1>3 DEF ClientType, SameRest, SamePingers
<1> HIDE DEF q
<1>6. EarlyRight(q, Heard(res, c.calls), k)
  BY <1>5 DEF EarlyRight, Counted, Listens, SameRest
<1>7. Core(q, n, res, k)
  BY <1>3, <1>4, <1>5, <1>6, Requeued
<1>8. /\ Core(d, n, res, k) /\ Settled(d) /\ d.wireMessage = q.wireMessage
  BY <1>2, <1>5, <1>7, Scheduled
<1> QED
  BY <1>1, <1>4, <1>8 DEF m

(* Callbacks that are not about the connection leave the attempts alone.   *)
LEMMA Called1 ==
  ASSUME NEW c, NEW n, NEW res \in Results, NEW k, Core(c, n, res, k),
         NEW cb, cb \notin DOMAIN NoResult, NEW arg
  PROVE  LET d == Call(c, cb, arg)
         IN  /\ Core(d, n, res, k) /\ SameTurn(c, d) /\ d.threw = c.threw
             /\ d.reaction = c.reaction
             /\ Heard(res, d.calls) = Heard(res, c.calls)
<1> DEFINE d == Call(c, cb, arg)
<1>1. ClientType(c) /\ Keeping(c) /\ IsSequence(c.calls)
  BY DEF Core, Right, ClientType
<1>2. /\ ClientType(d) /\ d.calls = Append(c.calls, <<cb, arg>>)
      /\ SameTurn(c, d) /\ SamePingers(c, d) /\ d.out = c.out
      /\ d.reaction = c.reaction /\ d.attempt = c.attempt
      /\ d.hosts = c.hosts /\ d.hostIndex = c.hostIndex
      /\ d.connectTimer = c.connectTimer
      /\ d.sent = c.sent /\ d.stored = c.stored /\ d.threw = c.threw
  BY <1>1, CallOne
<1> HIDE DEF d
<1>3. Heard(res, d.calls) = Heard(res, c.calls)
  BY <1>1, <1>2, HeardOther
<1>4. Keeping(d) /\ SameLink(c, d)
  BY <1>1, <1>2 DEF Keeping, SameLink, SameTurn
<1>5. Core(d, n, res, k)
  BY <1>2, <1>3, <1>4, Quiet
<1> QED
  BY <1>2, <1>3, <1>5 DEF d

(* A client that is connected, between two events of its turn              *)
Serene(c, n, res) == /\ Core(c, n, res, 1) /\ c.connected /\ Settled(c)
                     /\ ~ c.threw

(* A message is reported; the callback may disconnect.                     *)
LEMMA Reported ==
  ASSUME NEW c, NEW n, NEW res \in Results, Serene(c, n, res),
         NEW cb \in {"onMessageArrived", "onMessageDelivered"}, NEW body
  PROVE  LET d == Report(c, cb, body)
         IN  /\ Core(d, n, res, 1) /\ Settled(d)
             /\ \/ d.connected /\ d.wireMessage = c.wireMessage
                \/ d.wireMessage = Ack("DISCONNECT", 0)
<1> DEFINE told == Call(c, cb, body)
           d == disconnect(told)
<1>1. cb \notin DOMAIN NoResult
  BY DEF NoResult
<1>2. /\ Core(told, n, res, 1) /\ SameTurn(c, told) /\ told.threw = c.threw
  BY <1>1, Called1 DEF Serene
<1>3. Report(c, cb, body) = IF c.reaction[cb] = "absent" THEN c
                            ELSE IF c.reaction[cb] = "disconnect" THEN d
                            ELSE told
  BY DEF Report
<1> HIDE DEF told
<1>4. told.connected /\ told.socket = "open" /\ ~ told.draining /\ ~ told.threw
      /\ Settled(told)
  BY <1>2 DEF Serene, SameTurn, Settled, Core, Right, QueueRight
<1>5. /\ Core(d, n, res, 1) /\ Settled(d)
      /\ d.wireMessage = Ack("DISCONNECT", 0)
  <2>1. told.connected /\ 1 = 1
    BY <1>4
  <2> QED
    BY <1>2, <1>4, <2>1, DisconnectCalled
<1> HIDE DEF d
<1>6. /\ Core(c, n, res, 1) /\ Settled(c) /\ c.connected
      /\ told.wireMessage = c.wireMessage
  BY <1>2 DEF Serene, SameTurn
<1> QED
  BY <1>2, <1>3, <1>4, <1>5, <1>6

(* send() by the application.                                              *)
LEMMA SendCalled ==
  ASSUME NEW c, NEW n, NEW res \in Results, Serene(c, n, res),
         NEW body \in Messages
  PROVE  LET d == send(c, body)
         IN  Core(d, n, res, 1) /\ Settled(d)
<1> DEFINE m == WireMessage("PUBLISH", 0, body)
           message == [c EXCEPT !.wireMessage = m]
           rep == Report(message, "onMessageDelivered", body)
           quiet == [rep EXCEPT !.notify = FALSE]
           acked == requires_ack(c, "PUBLISH", body)
           ready == IF QoS[body] > 0 THEN acked
                    ELSE IF c.reaction.onMessageDelivered = "absent"
                    THEN message ELSE quiet
<1>1. /\ ClientType(c) /\ Keeping(c) /\ c.connected /\ ~ c.threw
      /\ c.queue = <<>> /\ ~ c.notify /\ ~ c.draining /\ Core(c, n, res, 1)
  BY DEF Serene, Core, Right, Settled
<1>2. send(c, body) = IF ready.threw THEN ready
                      ELSE schedule_message(ready, ready.wireMessage)
  BY <1>1 DEF send
<1>3. IsPacket(m)
  BY DEF IsPacket, WireMessage, Sendable
<1> HIDE DEF m
<1>4. /\ ClientType(message) /\ SameButKept(c, message)
      /\ message.sent = c.sent /\ message.stored = c.stored
      /\ message.threw = c.threw /\ message.wireMessage = m
  BY <1>1 DEF ClientType, SameButKept, SameLink, SamePingers
<1> HIDE DEF message
<1>5. Core(message, n, res, 1)
  <2>1. Keeping(message)
    BY <1>1, <1>4 DEF Keeping
  <2> QED
    BY <1>1, <1>4, <2>1, QuietlyKept
<1>6. Serene(message, n, res)
  BY <1>1, <1>4, <1>5 DEF Serene, Settled, SameButKept, SameLink
<1> DEFINE Fine(d) == /\ Core(d, n, res, 1) /\ Settled(d)
                      /\ ~ d.threw => /\ IsPacket(d.wireMessage)
                                      /\ \/ d.connected
                                         \/ Encodable(d.wireMessage)
<1>7. ASSUME QoS[body] > 0 PROVE Fine(acked)
  <2>1. FewMisspelt => body \notin Unencodable
    BY <1>7 DEF FewMisspelt
  <2>2. /\ Core(acked, n, res, 1)
        /\ acked.connected = c.connected /\ acked.queue = c.queue
        /\ acked.notify = c.notify /\ acked.draining = c.draining
        /\ ~ acked.threw => IsPacket(acked.wireMessage)
    <3> DEFINE type == "PUBLISH"
    <3>1. type \in {"PUBLISH", "SUBSCRIBE", "UNSUBSCRIBE"}
      OBVIOUS
    <3>0. type = "PUBLISH" /\ FewMisspelt => body \notin Unencodable
      BY <2>1
    <3> HIDE DEF type
    <3>2. Core(c, n, res, 1)
      BY <1>1
    <3> DEFINE d == requires_ack(c, type, body)
    <3>3. /\ Core(d, n, res, 1)
          /\ d.connected = c.connected /\ d.queue = c.queue
          /\ d.notify = c.notify /\ d.draining = c.draining
          /\ ~ d.threw => /\ IsPacket(d.wireMessage)
                          /\ d.wireMessage.type = type
                          /\ d.wireMessage.body = body
          /\ DOMAIN c.sent = {} /\ type # "PUBLISH" => d.threw = c.threw
      BY <3>0, <3>1, <3>2, Acknowledged
    <3> QED
      BY <3>3 DEF type
  <2> HIDE DEF acked
  <2> QED
    BY <1>1, <2>2 DEF Settled
<1>8. Fine(message)
  BY <1>3, <1>4, <1>6 DEF Serene
<1>9. Fine(quiet)
  <2>1. /\ Core(rep, n, res, 1) /\ Settled(rep)
        /\ \/ rep.connected /\ rep.wireMessage = message.wireMessage
           \/ rep.wireMessage = Ack("DISCONNECT", 0)
    BY <1>6, Reported
  <2> HIDE DEF rep
  <2>2. ClientType(rep) /\ AllSendable(rep.queue) /\ Waiting(rep.queue)
    BY <2>1 DEF Core, Right, QueueRight
  <2>3. ClientType(quiet) /\ quiet.notify = FALSE
    BY <2>2 DEF ClientType
  <2>4. /\ SameRest(rep, quiet) /\ SamePingers(rep, quiet)
        /\ quiet.queue = rep.queue /\ quiet.connected = rep.connected
        /\ quiet.socket = rep.socket /\ quiet.out = rep.out
        /\ quiet.draining = rep.draining
        /\ quiet.wireMessage = rep.wireMessage
    BY <2>2 DEF ClientType, SameRest, SamePingers
  <2> HIDE DEF quiet
  <2>5. EarlyRight(quiet, Heard(res, rep.calls), 1)
    BY <2>3 DEF EarlyRight
  <2>6. Core(quiet, n, res, 1)
    BY <2>1, <2>2, <2>3, <2>4, <2>5, Requeued
  <2>7. Settled(quiet)
    BY <2>1, <2>3, <2>4 DEF Settled
  <2>8. IsPacket(Ack("DISCONNECT", 0)) /\ Encodable(Ack("DISCONNECT", 0))
    BY DEF IsPacket, Encodable, Ack, WireMessage, Sendable
  <2> QED
    BY <1>3, <1>4, <2>1, <2>4, <2>6, <2>7, <2>8
<1> HIDE DEF acked, quiet
<1>10. Fine(ready)
  <2> HIDE DEF Fine
  <2> QED BY <1>7, <1>8, <1>9
<1> HIDE DEF ready
<1>11. CASE ready.threw
  BY <1>2, <1>10, <1>11
<1>12. CASE ~ ready.threw
  <2> DEFINE x == ready.wireMessage
             d == schedule_message(ready, x)
  <2>1. Core(d, n, res, 1) /\ Settled(d)
    <3>1. /\ IsPacket(x) /\ ~ ready.draining /\ ~ ready.threw
          /\ \/ Encodable(x)
             \/ ready.connected /\ (ready.notify => ready.queue # <<>>)
          /\ Core(ready, n, res, 1)
      BY <1>10, <1>12 DEF Settled
    <3> HIDE DEF x
    <3> QED
      BY <3>1, Scheduled
  <2> QED
    BY <1>2, <1>12, <2>1
<1> QED
  BY <1>11, <1>12

-----------------------------------------------------------------------------
(* What the client receives once it is connected                           *)
LEMMA SereneKept ==
  ASSUME NEW c, NEW n, NEW res, Serene(c, n, res),
         NEW d, ClientType(d), Keeping(d), SameButKept(c, d)
  PROVE  /\ Core(d, n, res, 1) /\ Settled(d) /\ d.connected
         /\ ~ d.threw => Serene(d, n, res)
<1>1. Core(d, n, res, 1)
  BY QuietlyKept DEF Serene
<1>2. Settled(d) /\ d.connected
  BY DEF Serene, Settled, SameButKept, SameLink
<1> QED
  BY <1>1, <1>2 DEF Serene

(* A packet that only carries an identifier can be sent.                   *)
LEMMA Acks ==
  ASSUME NEW type \in Sendable \ {"PUBLISH"}, NEW id
  PROVE  IsPacket(Ack(type, id)) /\ Encodable(Ack(type, id))
BY DEF IsPacket, Encodable, Ack, WireMessage

(* A packet sent in reply leaves the client serene.                        *)
LEMMA Replied ==
  ASSUME NEW c, NEW n, NEW res \in Results, Serene(c, n, res),
         NEW m, IsPacket(m), Encodable(m)
  PROVE  Serene(schedule_message(c, m), n, res)
<1> DEFINE d == schedule_message(c, m)
<1>1. /\ Core(c, n, res, 1) /\ c.connected /\ ~ c.draining /\ ~ c.threw
      /\ ~ c.notify
  BY DEF Serene, Settled
<1>2. /\ Core(d, n, res, 1) /\ Settled(d)
      /\ c.connected =>
             /\ d.queue = <<>>
             /\ \/ d.connected /\ (d.threw => ~ Encodable(m))
                \/ Down(d) /\ c.notify /\ (c.queue # <<>> <=> d.threw)
  BY <1>1, Scheduled
<1> HIDE DEF d
<1>3. ClientType(d)
  BY <1>2 DEF Core, Right
<1>4. Serene(d, n, res)
  BY <1>1, <1>2 DEF Serene
<1> QED
  BY <1>4 DEF d

(* PUBLISH, of any quality.                                                *)
LEMMA PublishReceived ==
  ASSUME NEW c, NEW n, NEW res \in Results, Serene(c, n, res), NEW message
  PROVE  LET d == receivePublish(c, message)
         IN  Core(d, n, res, 1) /\ Settled(d)
<1> DEFINE body == message.body
           ack == Ack("PUBACK", message.id)
           rec == Ack("PUBREC", message.id)
           acked == schedule_message(c, ack)
           copy == [c EXCEPT !.received = Put(@, message.id, message)]
           kept == StoreReceived(copy, message)
<1>1. \/ receivePublish(c, message) = Report(c, "onMessageArrived", body)
      \/ receivePublish(c, message) =
             IF acked.threw THEN acked
             ELSE Report(acked, "onMessageArrived", body)
      \/ receivePublish(c, message) =
             IF kept.threw THEN kept ELSE schedule_message(kept, rec)
  BY DEF receivePublish
<1>2. ASSUME NEW x, Serene(x, n, res)
      PROVE  LET d == Report(x, "onMessageArrived", body)
             IN  Core(d, n, res, 1) /\ Settled(d)
  <2> DEFINE cb == "onMessageArrived"
             d == Report(x, cb, body)
  <2>1. cb \in {"onMessageArrived", "onMessageDelivered"}
    OBVIOUS
  <2> HIDE DEF cb
  <2>2. /\ Core(d, n, res, 1) /\ Settled(d)
        /\ \/ d.connected /\ d.wireMessage = x.wireMessage
           \/ d.wireMessage = Ack("DISCONNECT", 0)
    BY <1>2, <2>1, Reported
  <2> QED
    BY <2>2 DEF cb
<1>3. IsPacket(ack) /\ Encodable(ack) /\ IsPacket(rec) /\ Encodable(rec)
  BY Acks DEF Sendable
<1> HIDE DEF ack, rec, body
<1>4. Serene(acked, n, res)
  BY <1>3, Replied
<1> HIDE DEF acked
<1>5. ~ acked.threw
  BY <1>4 DEF Serene
<1>6. /\ ClientType(kept) /\ Keeping(kept) /\ SameButKept(c, kept)
  <2>1. ClientType(c) /\ Keeping(c)
    BY DEF Serene, Core, Right
  <2>2. /\ ClientType(copy) /\ SameButKept(c, copy)
        /\ copy.sent = c.sent /\ copy.stored = c.stored
    BY <2>1 DEF ClientType, SameButKept, SameLink, SamePingers
  <2> HIDE DEF copy
  <2>3. /\ ClientType(kept) /\ SameButKept(copy, kept)
        /\ kept.sent = copy.sent /\ kept.stored.sent = copy.stored.sent
    <3> DEFINE x == Throw(copy)
               y == [copy EXCEPT !.stored.received = Put(@, message.id, message)]
    <3>1. kept = x \/ kept = y
      BY DEF StoreReceived
    <3>2. /\ ClientType(x) /\ SameButKept(copy, x)
          /\ x.sent = copy.sent /\ x.stored = copy.stored
      BY <2>2 DEF ClientType, SameButKept, SameLink, SamePingers, Throw
    <3>3. /\ ClientType(y) /\ SameButKept(copy, y)
          /\ y.sent = copy.sent /\ y.stored.sent = copy.stored.sent
      BY <2>2 DEF ClientType, SameButKept, SameLink, SamePingers
    <3> HIDE DEF x, y, kept
    <3> QED
      BY <3>1, <3>2, <3>3
  <2> HIDE DEF kept
  <2> QED
    BY <2>1, <2>2, <2>3 DEF Keeping, SameButKept, SameLink, SamePingers
<1> HIDE DEF kept
<1>7. /\ Core(kept, n, res, 1) /\ Settled(kept)
      /\ ~ kept.threw => Serene(kept, n, res)
  BY <1>6, SereneKept
<1>8. ~ kept.threw => Serene(schedule_message(kept, rec), n, res)
  BY <1>3, <1>7, Replied
<1>9. ASSUME NEW x, Serene(x, n, res) PROVE Core(x, n, res, 1) /\ Settled(x)
  BY <1>9 DEF Serene
<1> DEFINE p == receivePublish(c, message)
           p1 == Report(c, "onMessageArrived", body)
           p2 == Report(acked, "onMessageArrived", body)
           p3 == schedule_message(kept, rec)
<1>10. /\ Core(p1, n, res, 1) /\ Settled(p1)
       /\ Core(p2, n, res, 1) /\ Settled(p2)
       /\ ~ kept.threw => Core(p3, n, res, 1) /\ Settled(p3)
  BY <1>2, <1>4, <1>8, <1>9
<1>11. p = p1 \/ p = p2 \/ (kept.threw /\ p = kept) \/ (~ kept.threw /\ p = p3)
  BY <1>1, <1>5
<1> HIDE DEF p, p1, p2, p3
<1>12. Core(p, n, res, 1) /\ Settled(p)
  BY <1>7, <1>10, <1>11
<1> QED
  BY <1>12 DEF p

(* The acknowledged message is removed from memory and storage.            *)
LEMMA Forgotten ==
  ASSUME NEW c, NEW n, NEW res \in Results, Serene(c, n, res), NEW id
  PROVE  Serene(Forget(c, id), n, res)
<1> DEFINE d == Forget(c, id)
<1>1. ClientType(c) /\ Kept(c.sent) /\ Kept(c.stored.sent) /\ ~ c.threw
  BY DEF Serene, Core, Right, Keeping
<1>2. /\ ClientType(d) /\ SameButKept(c, d) /\ d.threw = c.threw
      /\ d.sent = Delete(c.sent, id)
      /\ d.stored.sent = Delete(c.stored.sent, id)
  BY <1>1 DEF ClientType, SameButKept, SameLink, SamePingers, Forget
<1> HIDE DEF d
<1>3. Keeping(d)
  BY <1>1, <1>2, KeptDelete DEF Keeping
<1>4. Serene(d, n, res)
  BY <1>1, <1>2, <1>3, SereneKept
<1> QED
  BY <1>4 DEF d

(* Then its delivery is reported.                                          *)
LEMMA DeliveryReported ==
  ASSUME NEW c, NEW n, NEW res \in Results, Serene(c, n, res), NEW id,
         NEW body
  PROVE  LET d == Report(Forget(c, id), "onMessageDelivered", body)
         IN  Core(d, n, res, 1) /\ Settled(d)
<1> DEFINE x == Forget(c, id)
           cb == "onMessageDelivered"
           d == Report(x, cb, body)
<1>1. Serene(x, n, res)
  BY Forgotten
<1>2. cb \in {"onMessageArrived", "onMessageDelivered"}
  OBVIOUS
<1> HIDE DEF x, cb
<1>3. /\ Core(d, n, res, 1) /\ Settled(d)
      /\ \/ d.connected /\ d.wireMessage = x.wireMessage
         \/ d.wireMessage = Ack("DISCONNECT", 0)
  BY <1>1, <1>2, Reported
<1> QED
  BY <1>3 DEF x, cb

(* PUBACK ends an exchange of quality 1.                                   *)
LEMMA PubAckReceived ==
  ASSUME NEW c, NEW n, NEW res \in Results, Serene(c, n, res), NEW id
  PROVE  LET d == PubAck(c, id) IN Core(d, n, res, 1) /\ Settled(d)
<1> DEFINE d == Report(Forget(c, id), "onMessageDelivered", c.sent[id].body)
<1>1. Core(d, n, res, 1) /\ Settled(d)
  BY DeliveryReported
<1> HIDE DEF d
<1>2. PubAck(c, id) = d \/ PubAck(c, id) = c
  BY DEF PubAck, d
<1> QED
  BY <1>1, <1>2 DEF Serene

(* PUBREC marks the message and is answered by PUBREL.                     *)
LEMMA PubRecReceived ==
  ASSUME NEW c, NEW n, NEW res \in Results, Serene(c, n, res), NEW id
  PROVE  LET d == PubRec(c, id) IN Core(d, n, res, 1) /\ Settled(d)
<1> DEFINE marked == [c EXCEPT !.sent[id].pubRec = TRUE]
           kept == IF c.sent[id].type = "PUBLISH"
                   THEN StoreSent(marked, id) ELSE Throw(marked)
           rel == Ack("PUBREL", id)
           d == schedule_message(kept, rel)
<1>1. ClientType(c) /\ Keeping(c)
  BY DEF Serene, Core, Right
<1>2. CASE id \notin DOMAIN c.sent
  <2>1. PubRec(c, id) = c
    BY <1>2 DEF PubRec
  <2> QED
    BY <2>1 DEF Serene
<1>3. CASE id \in DOMAIN c.sent
  <2>1. PubRec(c, id) = IF kept.threw THEN kept ELSE d
    BY <1>3 DEF PubRec
  <2>2. /\ ClientType(marked) /\ SameButKept(c, marked)
        /\ marked.sent = [c.sent EXCEPT ![id].pubRec = TRUE]
        /\ marked.stored = c.stored
    BY <1>1 DEF ClientType, SameButKept, SameLink, SamePingers
  <2> HIDE DEF marked
  <2>3. Keeping(marked) /\ id \in DOMAIN marked.sent
    <3> DEFINE m == c.sent[id]
               m1 == [m EXCEPT !.pubRec = TRUE]
    <3>1. Keepable(m) /\ Kept(c.sent) /\ Kept(c.stored.sent)
      BY <1>1, <1>3 DEF Keeping, Kept
    <3>2. Keepable(m1)
      <4> HIDE DEF m
      <4>1. IsPacket(m1)
        BY <3>1 DEF Keepable, IsPacket
      <4>2. m1.type = m.type /\ m1.body = m.body
        BY <3>1 DEF Keepable, IsPacket
      <4> QED
        BY <3>1, <4>1, <4>2 DEF Keepable, Encodable
    <3>3. /\ DOMAIN marked.sent = DOMAIN c.sent
          /\ \A i \in DOMAIN c.sent :
                 marked.sent[i] = IF i = id THEN m1 ELSE c.sent[i]
      BY <1>3, <2>2
    <3> HIDE DEF m, m1
    <3>4. Kept(marked.sent)
      BY <3>1, <3>2, <3>3 DEF Kept
    <3> QED
      BY <1>3, <2>2, <3>1, <3>3, <3>4 DEF Keeping
  <2>4. /\ ClientType(kept) /\ Keeping(kept) /\ SameButKept(marked, kept)
    <3>1. CASE c.sent[id].type = "PUBLISH"
      <4> DEFINE e == StoreSent(marked, id)
      <4>1. ClientType(e) /\ Keeping(e) /\ SameButKept(marked, e)
        BY <2>2, <2>3, Stored
      <4> QED
        BY <3>1, <4>1
    <3>2. CASE c.sent[id].type # "PUBLISH"
      <4> DEFINE e == Throw(marked)
      <4>1. /\ ClientType(e) /\ SameButKept(marked, e)
            /\ e.sent = marked.sent /\ e.stored = marked.stored
        BY <2>2 DEF ClientType, SameButKept, SameLink, SamePingers, Throw
      <4> HIDE DEF e
      <4>2. Keeping(e)
        BY <2>3, <4>1 DEF Keeping
      <4> QED
        BY <3>2, <4>1, <4>2 DEF e
    <3> QED
      BY <3>1, <3>2
  <2> HIDE DEF kept
  <2>5. SameButKept(c, kept)
    BY <2>2, <2>4 DEF SameButKept, SameLink, SamePingers
  <2>6. /\ Core(kept, n, res, 1) /\ Settled(kept)
        /\ ~ kept.threw => Serene(kept, n, res)
    BY <2>4, <2>5, SereneKept
  <2>7. IsPacket(rel) /\ Encodable(rel)
    BY Acks DEF Sendable
  <2> HIDE DEF rel
  <2>8. ~ kept.threw => Serene(d, n, res)
    BY <2>6, <2>7, Replied
  <2> HIDE DEF d
  <2> QED
    BY <2>1, <2>6, <2>8 DEF Serene
<1> QED
  BY <1>2, <1>3

(* PUBREL reports the message received and is answered by PUBCOMP.         *)
LEMMA PubRelReceived ==
  ASSUME NEW c, NEW n, NEW res \in Results, Serene(c, n, res), NEW id
  PROVE  LET d == PubRel(c, id) IN Core(d, n, res, 1) /\ Settled(d)
<1> DEFINE removed == [c EXCEPT !.stored.received = Delete(@, id)]
           cb == "onMessageArrived"
           rep == Report(removed, cb, c.received[id].body)
           told == IF id \in DOMAIN c.received THEN rep ELSE removed
           done == [told EXCEPT !.received = Delete(@, id)]
           comp == Ack("PUBCOMP", id)
           d == schedule_message(done, comp)
<1>1. ClientType(c) /\ Keeping(c) /\ ~ c.threw
  BY DEF Serene, Core, Right
<1>2. PubRel(c, id) = IF told.threw THEN told ELSE d
  BY DEF PubRel
<1>3. /\ ClientType(removed) /\ SameButKept(c, removed)
      /\ removed.threw = c.threw
      /\ removed.sent = c.sent /\ removed.stored.sent = c.stored.sent
  BY <1>1 DEF ClientType, SameButKept, SameLink, SamePingers
<1> HIDE DEF removed
<1>4. Keeping(removed)
  BY <1>1, <1>3 DEF Keeping
<1>5. Serene(removed, n, res)
  BY <1>1, <1>3, <1>4, SereneKept
<1>6. Core(rep, n, res, 1) /\ Settled(rep)
  <2>1. cb \in {"onMessageArrived", "onMessageDelivered"}
    OBVIOUS
  <2> DEFINE body == c.received[id].body
             e == Report(removed, cb, body)
  <2> HIDE DEF cb, body
  <2>2. /\ Core(e, n, res, 1) /\ Settled(e)
        /\ \/ e.connected /\ e.wireMessage = removed.wireMessage
           \/ e.wireMessage = Ack("DISCONNECT", 0)
    BY <1>5, <2>1, Reported
  <2> QED
    BY <2>2 DEF body
<1> HIDE DEF rep
<1>7. Core(told, n, res, 1) /\ Settled(told)
  BY <1>5, <1>6 DEF Serene
<1> HIDE DEF told
<1>8. ClientType(told) /\ Keeping(told)
  BY <1>7 DEF Core, Right
<1>9. /\ ClientType(done) /\ SameButKept(told, done)
      /\ done.threw = told.threw
      /\ done.sent = told.sent /\ done.stored.sent = told.stored.sent
  BY <1>8 DEF ClientType, SameButKept, SameLink, SamePingers
<1> HIDE DEF done
<1>10. Keeping(done)
  BY <1>8, <1>9 DEF Keeping
<1>11. Core(done, n, res, 1) /\ ~ done.draining
  BY <1>7, <1>9, <1>10, QuietlyKept DEF Settled, SameButKept
<1>12. IsPacket(comp) /\ Encodable(comp)
  BY Acks DEF Sendable
<1> HIDE DEF comp
<1>13. ~ told.threw => Core(d, n, res, 1) /\ Settled(d)
  BY <1>9, <1>11, <1>12, Scheduled
<1> HIDE DEF d
<1> QED
  BY <1>2, <1>7, <1>13

(* PUBCOMP ends an exchange of quality 2.                                  *)
LEMMA PubCompReceived ==
  ASSUME NEW c, NEW n, NEW res \in Results, Serene(c, n, res), NEW id
  PROVE  LET d == PubComp(c, id) IN Core(d, n, res, 1) /\ Settled(d)
<1> DEFINE d == Report(Forget(c, id), "onMessageDelivered", c.sent[id].body)
           x == Forget(c, id)
           y == Throw(x)
           p == PubComp(c, id)
<1>1. Core(d, n, res, 1) /\ Settled(d)
  BY DeliveryReported
<1>2. Serene(x, n, res)
  BY Forgotten
<1>3. p = d \/ p = x \/ p = y
  BY DEF PubComp
<1> HIDE DEF d, x, p
<1>4. Core(x, n, res, 1) /\ Settled(x)
  BY <1>2 DEF Serene
<1>5. /\ Core(y, n, res, 1) /\ y.connected = x.connected /\ y.queue = x.queue
      /\ y.notify = x.notify /\ y.draining = x.draining
  BY <1>4, Thrown
<1> HIDE DEF y
<1>6. Settled(y)
  BY <1>4, <1>5 DEF Settled
<1>7. Core(p, n, res, 1) /\ Settled(p)
  BY <1>1, <1>3, <1>4, <1>5, <1>6
<1> QED
  BY <1>7 DEF p

(* SUBACK and UNSUBACK stop the timer of the request and report it.        *)
LEMMA RequestAcked ==
  ASSUME NEW c, NEW n, NEW res \in Results, Serene(c, n, res), NEW id
  PROVE  LET d == RequestAck(c, id) IN Core(d, n, res, 1) /\ Settled(d)
<1> DEFINE i == c.sent[id].body
           less == [c EXCEPT !.requestTimers = @ \ {i}, !.sent = Delete(@, id)]
           cb == "requestSuccess"
           d == Call(less, cb, i)
           p == RequestAck(c, id)
<1>1. ClientType(c) /\ Kept(c.sent) /\ Kept(c.stored.sent) /\ ~ c.threw
  BY DEF Serene, Core, Right, Keeping
<1>2. p = d \/ p = c
  BY DEF RequestAck
<1> HIDE DEF i, p
<1>3. /\ ClientType(less) /\ SameButKept(c, less) /\ less.threw = c.threw
      /\ less.sent = Delete(c.sent, id) /\ less.stored = c.stored
  BY <1>1 DEF ClientType, SameButKept, SameLink, SamePingers
<1> HIDE DEF less
<1>4. Keeping(less)
  BY <1>1, <1>3, KeptDelete DEF Keeping
<1>5. Core(less, n, res, 1) /\ Settled(less)
  BY <1>3, <1>4, SereneKept
<1>6. cb \notin DOMAIN NoResult
  BY DEF NoResult
<1> HIDE DEF cb
<1>7. Core(d, n, res, 1) /\ SameTurn(less, d)
  BY <1>5, <1>6, Called1
<1> HIDE DEF d
<1>8. Settled(d)
  BY <1>5, <1>7 DEF Settled, SameTurn
<1>9. Core(p, n, res, 1) /\ Settled(p)
  BY <1>2, <1>5, <1>7, <1>8 DEF Serene
<1> QED
  BY <1>9 DEF p

-----------------------------------------------------------------------------
(* The connection is lost, whatever has become of its socket, its timers   *)
(* and its network.                                                        *)
SameStake(c, e) ==
    /\ e.reaction = c.reaction /\ e.connected = c.connected
    /\ e.attempt = c.attempt /\ e.hosts = c.hosts
    /\ e.hostIndex = c.hostIndex /\ e.queue = c.queue
    /\ e.sent = c.sent /\ e.stored = c.stored
    /\ e.calls = c.calls /\ e.out = c.out

(* A connection lost for a reason outside of the turn, however the socket  *)
(* was left.                                                               *)
LEMMA Broken ==
  ASSUME NEW c, NEW n, NEW res \in Results, Core(c, n, res, 1),
         c.socket # "none",
         NEW e, NEW w, ClientType(e), SameStake(c, e), e.socket # "none",
         NetType(Wire(w, e.out))
  PROVE  LET d == disconnected(e) IN Core(d, w, res, 1) /\ Settled(d)
<1> DEFINE d == disconnected(e)
           r == Heard(res, c.calls)
<1>1. /\ Keeping(c) /\ Attempting(c) /\ HostsRight(c)
      /\ AllSendable(c.queue) /\ Waiting(c.queue) /\ ClientType(c)
  BY DEF Core, Right, QueueRight
<1>2. Answering(c, r, 1)
  BY DEF Core, Right
<1>3. Idle(e, w) /\ HostsRight(e)
  BY <1>1 DEF Idle, SameStake, Keeping, Attempting, HostsRight
<1>4. Answering(e, Heard(res, e.calls), 1)
  <2> HIDE DEF r
  <2>1. Answering(e, r, 1)
    BY <1>2 DEF Answering, Listens, Phase, SameStake
  <2> QED
    BY <2>1 DEF r, SameStake
<1>5. Core(d, w, res, 1) /\ Down(d)
  <2> DEFINE k == 1
  <2>1. k \in {0, 1} /\ ~ (e.connected /\ k = 0)
    OBVIOUS
  <2>2. Answering(e, Heard(res, e.calls), k)
    BY <1>4
  <2> HIDE DEF k
  <2>3. e.connected /\ k = 0 => Counted(e, Heard(res, e.calls))
    BY <2>1
  <2>4. Core(d, w, res, k) /\ Down(d)
    BY <1>3, <2>1, <2>2, <2>3, Lost
  <2> QED
    BY <2>4 DEF k
<1> HIDE DEF d
<1>6. Settled(d)
  BY <1>5 DEF Settled, Down
<1> QED
  BY <1>5, <1>6 DEF d

(* The same with the socket as it was.                                     *)
LEMMA BrokenDown ==
  ASSUME NEW c, NEW n, NEW res \in Results, Core(c, n, res, 1),
         c.socket # "none"
  PROVE  LET d == disconnected(c) IN Core(d, n, res, 1) /\ Settled(d)
<1>1. ClientType(c) /\ NetType(Wire(n, c.out)) /\ SameStake(c, c)
  BY DEF Core, Right, SameStake
<1> QED
  BY <1>1, Broken

(* PINGRESP resets the pinger.                                             *)
LEMMA PongReceived ==
  ASSUME NEW c, NEW n, NEW res \in Results, Serene(c, n, res)
  PROVE  LET d == [c EXCEPT !.sendPinger = reset(@)]
         IN  Core(d, n, res, 1) /\ Settled(d)
<1> DEFINE p == reset(c.sendPinger)
           d == [c EXCEPT !.sendPinger = p]
<1>1. /\ ClientType(c) /\ Keeping(c) /\ c.socket = "open"
      /\ Core(c, n, res, 1) /\ Settled(c)
  BY DEF Serene, Core, Right, QueueRight
<1>2. p \in PingerType
  BY PingerReset
<1> HIDE DEF p
<1>3. /\ ClientType(d) /\ SameLink(c, d) /\ d.sent = c.sent
      /\ d.stored = c.stored /\ d.calls = c.calls /\ d.draining = c.draining
  BY <1>1, <1>2 DEF ClientType, SameLink
<1> HIDE DEF d
<1>4. Keeping(d) /\ Heard(res, d.calls) = Heard(res, c.calls)
  BY <1>1, <1>3 DEF Keeping
<1>5. Core(d, n, res, 1)
  BY <1>1, <1>3, <1>4, Quiet
<1>6. Settled(d)
  BY <1>1, <1>3 DEF Settled, SameLink
<1> QED
  BY <1>5, <1>6 DEF d, p

(* Every packet but CONNACK leaves a settled client.                       *)
LEMMA PacketReceived ==
  ASSUME NEW cl, NEW n, NEW res \in Results, NEW packet,
         packet.type # "CONNACK",
         Serene([cl EXCEPT !.receivePinger = reset(@)], n, res)
  PROVE  LET d == on_socket_message(cl, packet)
         IN  Core(d, n, res, 1) /\ Settled(d)
<1> DEFINE c == [cl EXCEPT !.receivePinger = reset(@)]
           d == on_socket_message(cl, packet)
           d1 == receivePublish(c, packet)
           d2 == PubAck(c, packet.id)
           d3 == PubRec(c, packet.id)
           d4 == PubRel(c, packet.id)
           d5 == PubComp(c, packet.id)
           d6 == RequestAck(c, packet.id)
           d7 == [c EXCEPT !.sendPinger = reset(@)]
           d8 == disconnected(c)
           Good(x) == Core(x, n, res, 1) /\ Settled(x)
<1>1. \/ d = d1 \/ d = d2 \/ d = d3 \/ d = d4 \/ d = d5 \/ d = d6 \/ d = d7
      \/ d = d8
  <2> HIDE DEF d1, d2, d3, d4, d5, d6, d7, d8
  <2>1. d = CASE packet.type = "CONNACK" -> ConnAck(c, packet.body)
              [] packet.type = "PUBLISH" -> d1
              [] packet.type = "PUBACK" -> d2
              [] packet.type = "PUBREC" -> d3
              [] packet.type = "PUBREL" -> d4
              [] packet.type = "PUBCOMP" -> d5
              [] packet.type \in {"SUBACK", "UNSUBACK"} -> d6
              [] packet.type = "PINGRESP" -> d7
              [] packet.type = "malformed" -> d8
              [] OTHER -> d8
    BY DEF on_socket_message, d1, d2, d3, d4, d5, d6, d7, d8
  <2> HIDE DEF d, c
  <2> QED
    BY <2>1
<1>2. Serene(c, n, res)
  OBVIOUS
<1> HIDE DEF d, c
<1>3. Good(d1)
  BY <1>2, PublishReceived
<1>4. Good(d2)
  BY <1>2, PubAckReceived
<1>5. Good(d3)
  BY <1>2, PubRecReceived
<1>6. Good(d4)
  BY <1>2, PubRelReceived
<1>7. Good(d5)
  BY <1>2, PubCompReceived
<1>8. Good(d6)
  BY <1>2, RequestAcked
<1>9. Good(d7)
  BY <1>2, PongReceived
<1>10. Good(d8)
  <2>1. Core(c, n, res, 1) /\ c.socket # "none"
    BY <1>2 DEF Serene, Core, Right, QueueRight
  <2> QED
    BY <2>1, BrokenDown
<1> HIDE DEF d1, d2, d3, d4, d5, d6, d7, d8, Good
<1>11. Good(d)
  BY <1>1, <1>3, <1>4, <1>5, <1>6, <1>7, <1>8, <1>9, <1>10
<1> QED
  BY <1>11 DEF d, Good

-----------------------------------------------------------------------------
(* Once the connection is acknowledged, what is kept is sent again.  If    *)
(* that throws, the connection is gone, or a message that is kept cannot   *)
(* be encoded.                                                             *)
Resending(x, n, res, i) ==
    /\ Core(x, n, res, 0) /\ ~ x.draining
    /\ x.notify => x.queue # <<>>
    /\ ~ x.threw => x.connected /\ (i > 0 => x.queue = <<>>)
    /\ x.threw => Settled(x) /\ (~ x.connected \/ ~ FewMisspelt)

(* One message is sent again.                                              *)
LEMMA ResentOne ==
  ASSUME NEW x, NEW n, NEW res \in Results, NEW i \in Nat,
         Resending(x, n, res, i), NEW message, Keepable(message)
  PROVE  Resending(Resend(x, message), n, res, i + 1)
<1> DEFINE rel == Ack("PUBREL", message.id)
           m == IF message.type = "PUBLISH" /\ message.pubRec
                THEN rel ELSE message
           d == schedule_message(x, m)
<1>1. CASE x.threw
  <2>1. Resend(x, message) = x
    BY <1>1 DEF Resend
  <2> QED
    BY <1>1, <2>1 DEF Resending
<1>2. CASE ~ x.threw
  <2>1. Resend(x, message) = d
    BY <1>2 DEF Resend
  <2>2. IsPacket(m) /\ (FewMisspelt => Encodable(m))
    BY Acks DEF Keepable, Sendable
  <2> HIDE DEF m
  <2>3. /\ Core(x, n, res, 0) /\ ~ x.draining /\ x.connected
        /\ (x.notify => x.queue # <<>>)
    BY <1>2 DEF Resending
  <2>4. /\ Core(d, n, res, 0) /\ Settled(d)
        /\ x.connected =>
               /\ d.queue = <<>>
               /\ \/ d.connected /\ (d.threw => ~ Encodable(m))
                  \/ Down(d) /\ x.notify /\ (x.queue # <<>> <=> d.threw)
    <3> DEFINE k == 0
    <3>1. k \in {0, 1} /\ Core(x, n, res, k)
      BY <2>3
    <3> HIDE DEF k
    <3>2. /\ Core(d, n, res, k) /\ Settled(d)
          /\ x.connected =>
               /\ d.queue = <<>>
               /\ \/ d.connected /\ (d.threw => ~ Encodable(m))
                  \/ Down(d) /\ x.notify /\ (x.queue # <<>> <=> d.threw)
      BY <1>2, <2>2, <2>3, <3>1, Scheduled
    <3> QED
      BY <3>2 DEF k
  <2> HIDE DEF d
  <2>5. ~ d.draining /\ (d.notify => d.queue # <<>>)
    BY <2>4 DEF Settled
  <2>6. ~ d.threw => d.connected
    BY <2>3, <2>4
  <2>7. d.threw => ~ d.connected \/ ~ FewMisspelt
    BY <2>2, <2>3, <2>4 DEF Down
  <2> QED
    BY <2>1, <2>3, <2>4, <2>5, <2>6, <2>7 DEF Resending
<1> QED
  BY <1>1, <1>2

(* The values of the loop after each message                               *)
Resends(f, up, n, res, seq) ==
    /\ f[0] = up
    /\ \A k \in 1 .. Len(seq) : f[k] = Resend(f[k - 1], seq[k])
    /\ FoldLeft(Resend, up, seq) = f[Len(seq)]
    /\ \A k \in 0 .. Len(seq) : Resending(f[k], n, res, k)

LEMMA ResendSteps ==
  ASSUME NEW up, NEW n, NEW res \in Results, Core(up, n, res, 0),
         up.connected, ~ up.draining, ~ up.threw,
         up.notify => up.queue # <<>>,
         NEW seq, IsSequence(seq), \A i \in DOMAIN seq : Keepable(seq[i])
  PROVE  \E f : Resends(f, up, n, res, seq)
<1> DEFINE l == Len(seq)
<1>1. l \in Nat /\ DOMAIN seq = 1 .. l
  BY Appended
<1>2. \A i \in 1 .. l : Keepable(seq[i])
  BY <1>1
<1>3. PICK f : /\ f[0] = up
               /\ \A k \in 1 .. l : f[k] = Resend(f[k - 1], seq[k])
               /\ FoldLeft(Resend, up, seq) = f[l]
  BY ResendWalk, Zenon
<1> DEFINE T == {k \in 0 .. l : Resending(f[k], n, res, k)}
<1>4. 0 \in T
  <2>1. Resending(up, n, res, 0)
    BY DEF Resending
  <2> QED
    BY <1>1, <1>3, <2>1
<1>5. ASSUME NEW k \in 0 .. l - 1, k \in T PROVE k + 1 \in T
  <2>1. /\ k + 1 \in 1 .. l /\ (k + 1) - 1 = k /\ k + 1 \in 0 .. l
        /\ k \in Nat
    BY <1>1
  <2>2. f[k + 1] = Resend(f[k], seq[k + 1])
    BY <1>3, <2>1
  <2> DEFINE x == f[k]
             m == seq[k + 1]
  <2>3. Keepable(m) /\ Resending(x, n, res, k)
    BY <1>2, <1>5, <2>1
  <2> HIDE DEF x, m
  <2>4. Resending(Resend(x, m), n, res, k + 1)
    BY <2>1, <2>3, ResentOne
  <2> QED
    BY <2>1, <2>2, <2>4 DEF x, m
<1>6. T = 0 .. l
  <2>1. T \in SUBSET (0 .. l)
    OBVIOUS
  <2> HIDE DEF T
  <2> QED
    BY <1>1, <1>4, <1>5, <2>1, Induction
<1>7. \A k \in 0 .. l : Resending(f[k], n, res, k)
  BY <1>6
<1> QED
  BY <1>3, <1>7 DEF Resends

(* What is sent again is what was kept, each message once.                 *)
LEMMA SequencedKept ==
  ASSUME NEW sent, Kept(sent)
  PROVE  LET seq == SequencedMessages(sent)
         IN  /\ IsSequence(seq) /\ Len(seq) \in Nat
             /\ DOMAIN seq = 1 .. Len(seq)
             /\ Len(seq) = Cardinality(DOMAIN sent)
             /\ \A i \in DOMAIN seq : Keepable(seq[i])
             /\ (\A id \in DOMAIN sent : sent[id].id = id) =>
                    /\ Distinct(seq)
                    /\ \A i \in DOMAIN seq : /\ seq[i].id \in DOMAIN sent
                                             /\ seq[i] = sent[seq[i].id]
<1> DEFINE seq == SequencedMessages(sent)
<1>1. /\ IsSequence(seq) /\ Len(seq) = Cardinality(DOMAIN sent)
      /\ \A i \in DOMAIN seq : \E id \in DOMAIN sent : seq[i] = sent[id]
      /\ (\A id \in DOMAIN sent : sent[id].id = id) => Distinct(seq)
  BY SequencedFacts DEF Kept
<1> HIDE DEF seq
<1>2. Len(seq) \in Nat /\ DOMAIN seq = 1 .. Len(seq)
  BY <1>1 DEF IsSequence
<1>3. \A i \in DOMAIN seq : Keepable(seq[i])
  BY <1>1 DEF Kept
<1>4. (\A id \in DOMAIN sent : sent[id].id = id) =>
          \A i \in DOMAIN seq : /\ seq[i].id \in DOMAIN sent
                                /\ seq[i] = sent[seq[i].id]
  BY <1>1
<1> QED
  BY <1>1, <1>2, <1>3, <1>4 DEF seq

(* All of them are, unless one throws.                                     *)
LEMMA Resent ==
  ASSUME NEW up, NEW n, NEW res \in Results, Core(up, n, res, 0),
         up.connected, ~ up.draining, ~ up.threw,
         up.notify => up.queue # <<>>
  PROVE  LET e == FoldLeft(Resend, up, SequencedMessages(up.sent))
         IN  /\ Resending(e, n, res, 0)
             /\ ~ e.threw => e.queue = <<>> \/ DOMAIN e.sent = {}
<1> DEFINE seq == SequencedMessages(up.sent)
           e == FoldLeft(Resend, up, seq)
           l == Len(seq)
<1>1. Kept(up.sent)
  BY DEF Core, Right, Keeping
<1>2. /\ IsSequence(seq) /\ l \in Nat /\ l = Cardinality(DOMAIN up.sent)
      /\ \A i \in DOMAIN seq : Keepable(seq[i])
  BY <1>1, SequencedKept
<1> HIDE DEF seq
<1>3. PICK f : Resends(f, up, n, res, seq)
  BY <1>2, ResendSteps
<1>4. f[0] = up /\ e = f[l] /\ Resending(f[l], n, res, l)
  BY <1>2, <1>3 DEF Resends
<1> HIDE DEF e, l
<1>5. Resending(e, n, res, l)
  BY <1>4
<1>6. ~ e.threw => e.queue = <<>> \/ DOMAIN e.sent = {}
  <2>1. CASE l = 0
    <3>1. DOMAIN up.sent = {} /\ e = up
      BY <1>1, <1>2, <1>4, <2>1, FS_EmptySet DEF Kept
    <3> QED
      BY <3>1
  <2>2. CASE l > 0
    BY <1>5, <2>2 DEF Resending
  <2> QED
    BY <1>2, <2>1, <2>2
<1>7. Resending(e, n, res, 0)
  BY <1>5 DEF Resending
<1> QED
  BY <1>6, <1>7 DEF e, seq

-----------------------------------------------------------------------------
(* The CONNACK handler                                                     *)
LEMMA SuccessAnswered ==
  ASSUME NEW c, NEW d, NEW r \in Results, NEW s \in Results,
         c.attempt \in Nat, c.connected, Answering(c, r, 0),
         d.reaction = c.reaction, d.connected, d.attempt = c.attempt,
         OneMore(r, s, "onSuccess", c.attempt)
  PROVE  Answering(d, s, 1)
<1> SUFFICES ASSUME FewMisspelt, Listens(c),
                    NEW a \in 1 .. MaxAttempts
             PROVE  /\ a > c.attempt => Untouched(s[a])
                    /\ Clear(s, a) =>
                           /\ a < c.attempt => Final(s[a])
                           /\ a = c.attempt => Called(s[a], 1)
  BY DEF Answering, Listens, Phase
<1>1. /\ a > c.attempt => Untouched(r[a])
      /\ Clear(r, a) =>
             /\ a < c.attempt => Final(r[a])
             /\ a = c.attempt => Called(r[a], 0)
  BY DEF Answering, Phase
<1>2. MaxAttempts \in Nat
  BY ClientAssumption
<1>3. ASSUME NEW b \in 1 .. MaxAttempts
      PROVE  /\ s[b].early = r[b].early /\ s[b].onFailure = r[b].onFailure
             /\ s[b].reloaded = r[b].reloaded
             /\ s[b].onConnectionLost = r[b].onConnectionLost
             /\ s[b].onSuccess
                    = r[b].onSuccess + IF b = c.attempt THEN 1 ELSE 0
  BY ResultFields DEF OneMore
<1>4. Clear(s, a) <=> Clear(r, a)
  BY <1>2, <1>3 DEF NoEarly, Clear
<1>5. CASE a # c.attempt
  <2>1. s[a].onSuccess = r[a].onSuccess
    BY <1>3, <1>5, ResultFields
  <2> QED
    BY <1>1, <1>3, <1>4, <1>5, <2>1 DEF Called, Final, Untouched
<1>6. CASE a = c.attempt
  BY <1>1, <1>3, <1>4, <1>6 DEF Called
<1> QED
  BY <1>5, <1>6

(* After onSuccess it no longer matters that it had not been called.       *)
LEMMA LaterOn ==
  ASSUME NEW c, NEW n, NEW res, Core(c, n, res, 0),
         \/ ~ c.connected
         \/ ~ FewMisspelt
         \/ c.reaction.onSuccess = "absent"
  PROVE  Core(c, n, res, 1)
<1> DEFINE w == Wire(n, c.out)
           r == Heard(res, c.calls)
<1>1. Right(c, w, r, 0)
  BY DEF Core
<1> HIDE DEF w, r
<1>2. Answering(c, r, 1) /\ EarlyRight(c, r, 1)
  BY <1>1 DEF Right, Answering, Listens, Phase, EarlyRight
<1>3. Right(c, w, r, 1)
  BY <1>1, <1>2 DEF Right
<1> QED
  BY <1>3 DEF Core, w, r

(* A client that was acknowledged, before its queue is drained             *)
Welcome(d, n, res) ==
    /\ Core(d, n, res, 1) /\ ~ d.draining
    /\ d.notify => d.queue # <<>>
    /\ d.threw \/ ~ d.connected => Settled(d) /\ (~ d.threw => d.queue = <<>>)

(* The call of onSuccess is counted.                                       *)
LEMMA Greeted ==
  ASSUME NEW c, NEW n, NEW res \in Results, Core(c, n, res, 0), c.connected
  PROVE  LET told == Call(c, "onSuccess", c.attempt)
         IN  /\ Core(told, n, res, 1) /\ SameTurn(c, told)
             /\ told.threw = c.threw /\ told.sent = c.sent
<1> DEFINE cb == "onSuccess"
           told == Call(c, cb, c.attempt)
           r == Heard(res, c.calls)
           s == Heard(res, told.calls)
           w == Wire(n, c.out)
<1>2. /\ Right(c, w, r, 0) /\ ClientType(c) /\ IsSequence(c.calls)
      /\ r \in Results
  BY DEF Core, Right, ClientType
<1>3. /\ ClientType(told) /\ told.calls = Append(c.calls, <<cb, c.attempt>>)
      /\ SameTurn(c, told) /\ SamePingers(c, told) /\ told.out = c.out
      /\ told.reaction = c.reaction /\ told.attempt = c.attempt
      /\ told.hosts = c.hosts /\ told.hostIndex = c.hostIndex
      /\ told.connectTimer = c.connectTimer
      /\ told.sent = c.sent /\ told.stored = c.stored
      /\ told.threw = c.threw /\ s \in Results
  BY <1>2, CallOne
<1>4. OneMore(r, s, "onSuccess", c.attempt)
  BY <1>2, <1>3, HeardOne
<1>5. Core(told, n, res, 1)
  <2>1. Core(told, n, res, 1) <=> Right(told, w, s, 1)
    BY <1>3 DEF Core
  <2> HIDE DEF told, w, r, s, cb
  <2>2. Answering(told, s, 1)
    <3>1. c.attempt \in Nat /\ Answering(c, r, 0) /\ told.connected
      BY <1>2, <1>3 DEF Right, ClientType, SameTurn
    <3> QED
      BY <1>2, <1>3, <1>4, <3>1, SuccessAnswered
  <2>3. /\ Keeping(told) /\ Attempting(told) /\ TimersRight(told)
        /\ HostsRight(told) /\ QueueRight(told) /\ NetRight(told, w)
        /\ EarlyRight(told, s, 1)
    BY <1>2, <1>3 DEF Right, Keeping, Attempting, TimersRight, HostsRight,
                      QueueRight, NetRight, EarlyRight, SameTurn, SamePingers
  <2> QED
    BY <1>2, <1>3, <2>1, <2>2, <2>3 DEF Right
<1> QED
  BY <1>3, <1>5

(* onSuccess is called if there is one, and may subscribe.                 *)
LEMMA Welcomed ==
  ASSUME NEW c, NEW n, NEW res \in Results, Core(c, n, res, 0),
         c.connected, ~ c.draining, ~ c.threw, c.notify => c.queue # <<>>,
         c.queue = <<>> \/ DOMAIN c.sent = {}
  PROVE  Welcome(onSuccess(c), n, res)
<1> DEFINE told == Call(c, "onSuccess", c.attempt)
           sub == Request(told, "SUBSCRIBE")
           d == onSuccess(c)
<1>1. /\ c.reaction.onSuccess = "absent" => d = c
      /\ c.reaction.onSuccess # "absent" => d = sub \/ d = told
  BY DEF onSuccess
<1>2. /\ Core(told, n, res, 1) /\ SameTurn(c, told)
      /\ told.threw = c.threw /\ told.sent = c.sent
  BY Greeted
<1> HIDE DEF told
<1>6. Welcome(told, n, res)
  BY <1>2 DEF Welcome, SameTurn
<1>7. Welcome(sub, n, res)
  <2> DEFINE type == "SUBSCRIBE"
             k == 1
             e == Request(told, type)
  <2>1. /\ Core(told, n, res, k) /\ told.connected /\ ~ told.draining
        /\ ~ told.threw /\ (told.notify => told.queue # <<>>)
        /\ told.queue = <<>> \/ DOMAIN told.sent = {}
        /\ k \in {0, 1} /\ type \in {"SUBSCRIBE", "UNSUBSCRIBE"}
    BY <1>2 DEF SameTurn
  <2> HIDE DEF k, type
  <2>2. Core(e, n, res, k) /\ Settled(e) /\ e.queue = <<>>
    BY <2>1, Requested
  <2> HIDE DEF e
  <2>3. Core(e, n, res, 1) /\ ~ e.draining /\ ~ e.notify
    BY <2>2 DEF Settled, k
  <2>4. Welcome(e, n, res)
    BY <2>2, <2>3 DEF Welcome
  <2> QED
    BY <2>4 DEF e, type
<1>8. c.reaction.onSuccess = "absent" => Welcome(c, n, res)
  <2> SUFFICES ASSUME c.reaction.onSuccess = "absent"
               PROVE  Welcome(c, n, res)
    OBVIOUS
  <2>1. Core(c, n, res, 1)
    BY LaterOn
  <2> QED
    BY <2>1 DEF Welcome
<1> HIDE DEF d, sub
<1>9. Welcome(d, n, res)
  BY <1>1, <1>6, <1>7, <1>8
<1> QED
  BY <1>9 DEF d

(* At last the queue that was filled meanwhile is sent.                    *)
LEMMA QueueProcessed ==
  ASSUME NEW c, NEW n, NEW res \in Results, Welcome(c, n, res), ~ c.threw
  PROVE  LET d == process_queue(c) IN Core(d, n, res, 1) /\ Settled(d)
<1> DEFINE seq == c.queue
           d == process_queue(c)
<1>1. /\ ClientType(c) /\ IsSequence(seq) /\ AllSendable(seq) /\ Waiting(seq)
      /\ Core(c, n, res, 1) /\ ~ c.draining
  BY DEF Welcome, Core, Right, ClientType, QueueRight
<1>2. CASE c.connected
  <2>1. c = [c EXCEPT !.queue = seq]
    BY <1>1 DEF ClientType
  <2>2. \A i \in DOMAIN seq : \/ Encodable(seq[i])
                              \/ i = Len(seq) /\ (c.notify => i > 1)
    BY <1>1 DEF Waiting
  <2>3. c.notify => seq # <<>>
    BY DEF Welcome
  <2> HIDE DEF seq
  <2> DEFINE k == 1
  <2>4. k \in {0, 1} /\ Core(c, n, res, k)
    BY <1>1
  <2> HIDE DEF k
  <2>5. /\ Core(d, n, res, k) /\ d.queue = <<>> /\ ~ d.draining
        /\ d.wireMessage = c.wireMessage
        /\ \/ /\ d.connected /\ (d.notify => c.notify /\ seq = <<>>)
              /\ d.threw => seq # <<>> /\ ~ Encodable(seq[Len(seq)])
           \/ Down(d) /\ c.notify /\ (Len(seq) > 1 <=> d.threw)
    BY <1>1, <1>2, <2>1, <2>2, <2>4, Processed
  <2> HIDE DEF d
  <2>6. Settled(d)
    BY <2>3, <2>5 DEF Settled, Down
  <2> QED
    BY <2>5, <2>6 DEF d, k
<1>3. CASE ~ c.connected
  <2>1. c.queue = <<>> /\ Settled(c) /\ ~ c.notify
    BY <1>3 DEF Welcome
  <2> DEFINE base == [c EXCEPT !.queue = <<>>, !.draining = TRUE]
  <2>2. d = [FoldLeft(SendNext, base, <<>>) EXCEPT !.draining = FALSE]
    BY <2>1 DEF process_queue
  <2>3. FoldLeft(SendNext, base, <<>>) = base
    <3> HIDE DEF base
    <3>1. DOMAIN <<>> = {}
      OBVIOUS
    <3> QED
      BY <3>1 DEF FoldLeft, MapThenFoldSet
  <2> HIDE DEF d
  <2>4. d = [base EXCEPT !.draining = FALSE]
    BY <2>2, <2>3
  <2>5. d = c
    BY <1>1, <2>1, <2>4 DEF ClientType
  <2> QED
    BY <1>1, <2>1, <2>5 DEF d
<1> QED
  BY <1>2, <1>3

-----------------------------------------------------------------------------
(* A turn begins between two others, with a packet from the broker.        *)
LEMMA Begun ==
  ASSUME NEW c, c.out = <<>>, c.calls = <<>>, NEW n, NEW res \in Results,
         NEW k
  PROVE  /\ Core(c, n, res, k) <=> Right(c, n, res, k)
         /\ Wire(n, c.out) = n /\ Heard(res, c.calls) = res
<1>1. Wire(n, <<>>) = n /\ Heard(res, <<>>) = res
  BY NothingSent, NothingHeard
<1> QED
  BY <1>1 DEF Core

Taken(w) == [w EXCEPT !.toClient = Tail(@)]

(* The client takes the first packet from the network.                     *)
LEMMA PacketTaken ==
  ASSUME NEW w, NetType(w), w.toClient # <<>>
  PROVE  LET n == Taken(w)
         IN  /\ NetType(n) /\ n.toBroker = w.toBroker
             /\ n.toClient = Tail(w.toClient)
             /\ n.accepted = w.accepted /\ n.closed = w.closed
<1> DEFINE t == Tail(w.toClient)
           n == [w EXCEPT !.toClient = t]
<1>1. IsSequence(t)
  BY Tailed DEF NetType
<1> HIDE DEF t
<1>2. /\ NetType(n) /\ n.toBroker = w.toBroker /\ n.toClient = t
      /\ n.accepted = w.accepted /\ n.closed = w.closed
  BY <1>1 DEF NetType
<1> QED
  BY <1>2 DEF t, Taken

Stirred(cl) == [cl EXCEPT !.receivePinger = reset(@)]

(* Any packet resets the pinger that waits for one.                        *)
LEMMA PingerStirred ==
  ASSUME NEW cl, ClientType(cl)
  PROVE  LET c == Stirred(cl)
         IN  /\ ClientType(c) /\ c.reaction = cl.reaction
             /\ c.connected = cl.connected /\ c.socket = cl.socket
             /\ c.attempt = cl.attempt /\ c.hosts = cl.hosts
             /\ c.hostIndex = cl.hostIndex /\ c.queue = cl.queue
             /\ c.notify = cl.notify /\ c.draining = cl.draining
             /\ c.connectTimer = cl.connectTimer
             /\ c.sendPinger = cl.sendPinger
             /\ c.sent = cl.sent /\ c.stored = cl.stored
             /\ c.out = cl.out /\ c.calls = cl.calls /\ c.threw = cl.threw
<1> DEFINE p == reset(cl.receivePinger)
           c == [cl EXCEPT !.receivePinger = p]
<1>1. p \in PingerType
  BY PingerReset
<1> HIDE DEF p
<1>2. /\ ClientType(c) /\ c.reaction = cl.reaction
      /\ c.connected = cl.connected /\ c.socket = cl.socket
      /\ c.attempt = cl.attempt /\ c.hosts = cl.hosts
      /\ c.hostIndex = cl.hostIndex /\ c.queue = cl.queue
      /\ c.notify = cl.notify /\ c.draining = cl.draining
      /\ c.connectTimer = cl.connectTimer
      /\ c.sendPinger = cl.sendPinger
      /\ c.sent = cl.sent /\ c.stored = cl.stored
      /\ c.out = cl.out /\ c.calls = cl.calls /\ c.threw = cl.threw
  BY <1>1 DEF ClientType
<1> QED
  BY <1>2 DEF p, Stirred

(* The state that is kept may be cleared.                                  *)
LEMMA StateCleared ==
  ASSUME NEW c, ClientType(c), Keeping(c)
  PROVE  LET timed == [c EXCEPT !.connectTimer = FALSE]
             d == IF c.clean THEN ClearState(timed) ELSE timed
         IN  /\ ClientType(d) /\ Keeping(d)
             /\ d.reaction = c.reaction /\ d.connected = c.connected
             /\ d.socket = c.socket /\ d.attempt = c.attempt
             /\ d.hosts = c.hosts /\ d.hostIndex = c.hostIndex
             /\ d.queue = c.queue /\ d.notify = c.notify
             /\ d.draining = c.draining /\ ~ d.connectTimer
             /\ d.out = c.out /\ d.calls = c.calls /\ d.threw = c.threw
<1> DEFINE timed == [c EXCEPT !.connectTimer = FALSE]
           cleared == ClearState(timed)
           Same(d) == /\ d.reaction = c.reaction /\ d.connected = c.connected
                      /\ d.socket = c.socket /\ d.attempt = c.attempt
                      /\ d.hosts = c.hosts /\ d.hostIndex = c.hostIndex
                      /\ d.queue = c.queue /\ d.notify = c.notify
                      /\ d.draining = c.draining /\ ~ d.connectTimer
                      /\ d.out = c.out /\ d.calls = c.calls
                      /\ d.threw = c.threw
<1>1. /\ ClientType(timed) /\ Same(timed)
      /\ timed.sent = c.sent /\ timed.stored = c.stored
  BY DEF ClientType
<1> HIDE DEF timed
<1>2. Keeping(timed)
  BY <1>1 DEF Keeping
<1> DEFINE left == [id \in DOMAIN timed.stored.sent \ DOMAIN timed.sent
                        |-> timed.stored.sent[id]]
           rest == [id \in DOMAIN timed.stored.received
                            \ DOMAIN timed.received
                        |-> timed.stored.received[id]]
<1>3. cleared = [timed EXCEPT !.sent = EmptyMap, !.received = EmptyMap,
                              !.stored = [sent |-> left, received |-> rest]]
  BY DEF ClearState
<1>4. Kept(left)
  BY <1>2, KeptLess DEF Keeping
<1> HIDE DEF left, rest, cleared
<1>5. /\ ClientType(cleared) /\ Same(cleared)
      /\ cleared.sent = EmptyMap /\ cleared.stored.sent = left
  BY <1>1, <1>3 DEF ClientType
<1>6. Keeping(cleared)
  BY <1>4, <1>5, KeptNothing DEF Keeping
<1> QED
  BY <1>1, <1>2, <1>5, <1>6 DEF timed, cleared

(* The client that is cleared, and the one that is connected               *)
Cleared(c) == LET timed == [c EXCEPT !.connectTimer = FALSE]
              IN  IF c.clean THEN ClearState(timed) ELSE timed

Raised(c) == [Cleared(c) EXCEPT !.connected = TRUE,
                                !.hostIndex = IF c.hosts > 0 THEN c.hosts ELSE @]

LEMMA Raising ==
  ASSUME NEW cl, NEW w, NEW res \in Results, Right(cl, w, res, 1),
         Settled(cl), Between(cl), cl.socket = "open", ~ cl.connected,
         Answered(w)
  PROVE  LET c == Stirred(cl)
             n == Taken(w)
             ready == Cleared(c)
             up == Raised(c)
         IN  /\ NetType(n) /\ ClientType(ready) /\ Keeping(ready)
             /\ ready.reaction = cl.reaction /\ ~ ready.connected
             /\ ready.socket = "open" /\ ready.attempt = cl.attempt
             /\ ready.hosts = cl.hosts /\ ready.hostIndex = cl.hostIndex
             /\ ready.queue = cl.queue
             /\ ready.out = <<>> /\ ready.calls = <<>>
             /\ Core(up, n, res, 0) /\ up.connected /\ ~ up.draining
             /\ ~ up.threw /\ (up.notify => up.queue # <<>>)
             /\ up.queue = cl.queue /\ up.out = <<>>
             /\ up.sent = ready.sent /\ up.stored = ready.stored
             /\ up.received = ready.received
<1> DEFINE c == Stirred(cl)
           n == Taken(w)
           ready == Cleared(c)
           last == IF c.hosts > 0 THEN c.hosts ELSE ready.hostIndex
           up == [ready EXCEPT !.connected = TRUE, !.hostIndex = last]
<1>1. Raised(c) = up
  BY DEF Raised
<1>2. /\ ClientType(cl) /\ Keeping(cl) /\ Attempting(cl) /\ QueueRight(cl)
      /\ NetType(w) /\ Answering(cl, res, 1) /\ EarlyRight(cl, res, 1)
      /\ cl.out = <<>> /\ cl.calls = <<>> /\ ~ cl.threw
  BY DEF Right, Between
<1>3. /\ NetType(n) /\ n.toBroker = w.toBroker /\ n.toClient = Tail(w.toClient)
      /\ n.accepted = w.accepted /\ n.closed = w.closed
  BY <1>2, PacketTaken DEF Answered
<1>4. Serving(n)
  BY <1>3 DEF Answered, Serving
<1> HIDE DEF n
<1>5. /\ ClientType(c) /\ c.reaction = cl.reaction
      /\ c.connected = cl.connected /\ c.socket = cl.socket
      /\ c.attempt = cl.attempt /\ c.hosts = cl.hosts
      /\ c.hostIndex = cl.hostIndex /\ c.queue = cl.queue
      /\ c.notify = cl.notify /\ c.draining = cl.draining
      /\ c.sent = cl.sent /\ c.stored = cl.stored
      /\ c.out = cl.out /\ c.calls = cl.calls /\ c.threw = cl.threw
  BY <1>2, PingerStirred
<1> HIDE DEF c
<1>6. /\ ClientType(ready) /\ Keeping(ready)
      /\ ready.reaction = c.reaction /\ ready.connected = c.connected
      /\ ready.socket = c.socket /\ ready.attempt = c.attempt
      /\ ready.hosts = c.hosts /\ ready.hostIndex = c.hostIndex
      /\ ready.queue = c.queue /\ ready.notify = c.notify
      /\ ready.draining = c.draining /\ ~ ready.connectTimer
      /\ ready.out = c.out /\ ready.calls = c.calls /\ ready.threw = c.threw
  <2>1. Keeping(c)
    BY <1>2, <1>5 DEF Keeping
  <2> QED
    BY <1>5, <2>1, StateCleared DEF Cleared
<1> HIDE DEF ready
<1>7. /\ ready.reaction = cl.reaction /\ ~ ready.connected
      /\ ready.socket = "open" /\ ready.attempt = cl.attempt
      /\ ready.hosts = cl.hosts /\ ready.hostIndex = cl.hostIndex
      /\ ready.queue = cl.queue /\ ready.notify = cl.notify
      /\ ~ ready.draining /\ ~ ready.threw
      /\ ready.out = <<>> /\ ready.calls = <<>>
  BY <1>2, <1>5, <1>6 DEF Settled
<1>8. last \in Nat /\ (c.hosts = 0 \/ last >= c.hosts)
  BY <1>5, <1>6 DEF ClientType
<1> HIDE DEF last
<1>9. /\ ClientType(up) /\ up.connected /\ up.hostIndex = last
      /\ up.reaction = ready.reaction /\ up.socket = ready.socket
      /\ up.attempt = ready.attempt /\ up.hosts = ready.hosts
      /\ up.queue = ready.queue /\ up.notify = ready.notify
      /\ up.draining = ready.draining /\ ~ up.connectTimer
      /\ up.sent = ready.sent /\ up.stored = ready.stored
      /\ up.received = ready.received
      /\ up.out = ready.out /\ up.calls = ready.calls
      /\ up.threw = ready.threw
  BY <1>6, <1>8 DEF ClientType
<1> HIDE DEF up
<1>10. Core(up, n, res, 0)
  <2>1. Keeping(up)
    BY <1>6, <1>9 DEF Keeping
  <2>2. Attempting(up) /\ TimersRight(up) /\ HostsRight(up) /\ QueueRight(up)
    BY <1>2, <1>6, <1>7, <1>8, <1>9
    DEF Attempting, TimersRight, HostsRight, QueueRight
  <2>3. NetRight(up, n)
    BY <1>4, <1>7, <1>9 DEF NetRight
  <2>4. Answering(up, res, 0)
    BY <1>2, <1>7, <1>9 DEF Answering, Listens, Phase
  <2>5. EarlyRight(up, res, 0)
    BY <1>2, <1>7, <1>9 DEF EarlyRight, Counted, Listens
  <2>6. Right(up, n, res, 0)
    BY <1>3, <1>9, <2>1, <2>2, <2>3, <2>4, <2>5 DEF Right
  <2> QED
    BY <1>7, <1>9, <2>6, Begun
<1>11. up.notify => up.queue # <<>>
  BY <1>7, <1>9 DEF Settled
<1> QED
  BY <1>1, <1>3, <1>6, <1>7, <1>9, <1>10, <1>11 DEF c, n, ready

(* CONNACK: refused, or connected, sent again, told and drained.           *)
LEMMA ConnAckReceived ==
  ASSUME NEW cl, NEW w, NEW res \in Results, Right(cl, w, res, 1),
         Settled(cl), Between(cl), cl.socket = "open", ~ cl.connected,
         Answered(w), NEW code
  PROVE  LET d == ConnAck(Stirred(cl), code)
         IN  Core(d, Taken(w), res, 1) /\ Settled(d)
<1> DEFINE c == Stirred(cl)
           n == Taken(w)
           ready == Cleared(c)
           up == Raised(c)
           resent == FoldLeft(Resend, up, SequencedMessages(up.sent))
           told == IF resent.threw THEN resent ELSE onSuccess(resent)
           lost == disconnected(ready)
           done == process_queue(told)
           d == ConnAck(c, code)
<1>1. d = IF code # 0 THEN lost ELSE IF told.threw THEN told ELSE done
  BY DEF ConnAck, Cleared, Raised
<1>2. /\ NetType(n) /\ ClientType(ready) /\ Keeping(ready)
      /\ ready.reaction = cl.reaction /\ ~ ready.connected
      /\ ready.socket = "open" /\ ready.attempt = cl.attempt
      /\ ready.hosts = cl.hosts /\ ready.hostIndex = cl.hostIndex
      /\ ready.queue = cl.queue
      /\ ready.out = <<>> /\ ready.calls = <<>>
      /\ Core(up, n, res, 0) /\ up.connected /\ ~ up.draining
      /\ ~ up.threw /\ (up.notify => up.queue # <<>>)
  BY Raising
<1> HIDE DEF c, n, ready, up, resent, told, lost, done, d
<1>3. Wire(n, ready.out) = n /\ Heard(res, ready.calls) = res
  BY <1>2, Begun
<1>4. Core(lost, n, res, 1) /\ Settled(lost)
  <2> DEFINE k == 1
  <2>1. /\ k \in {0, 1} /\ Answering(cl, res, k)
        /\ Attempting(cl) /\ QueueRight(cl)
    BY DEF Right
  <2> HIDE DEF k
  <2>2. Idle(ready, n) /\ HostsRight(ready)
    BY <1>2, <1>3, <2>1 DEF Idle, HostsRight, Attempting, QueueRight
  <2>3. Answering(ready, Heard(res, ready.calls), k)
    BY <1>2, <1>3, <2>1 DEF Answering, Listens, Phase
  <2>4. /\ ready.connected /\ k = 0 => Counted(ready, Heard(res, ready.calls))
        /\ ready.socket # "none"
    BY <1>2
  <2>5. /\ Core(lost, n, res, k) /\ Down(lost)
    BY <2>1, <2>2, <2>3, <2>4, Lost DEF lost
  <2>6. Settled(lost)
    BY <2>5 DEF Settled, Down
  <2> QED
    BY <2>5, <2>6 DEF k
<1>5. /\ Resending(resent, n, res, 0)
      /\ ~ resent.threw => resent.queue = <<>> \/ DOMAIN resent.sent = {}
  BY <1>2, Resent DEF resent
<1>6. ~ resent.threw => Welcome(told, n, res)
  <2> SUFFICES ASSUME ~ resent.threw PROVE Welcome(told, n, res)
    OBVIOUS
  <2>1. told = onSuccess(resent)
    BY DEF told
  <2>2. /\ Core(resent, n, res, 0) /\ resent.connected /\ ~ resent.draining
        /\ (resent.notify => resent.queue # <<>>)
        /\ resent.queue = <<>> \/ DOMAIN resent.sent = {}
    BY <1>5 DEF Resending
  <2>3. Welcome(onSuccess(resent), n, res)
    BY <2>2, Welcomed
  <2> QED
    BY <2>1, <2>3
<1>7. resent.threw => told = resent /\ Core(told, n, res, 1) /\ Settled(told)
  BY <1>5, LaterOn DEF Resending, told
<1>8. told.threw => Core(told, n, res, 1) /\ Settled(told)
  BY <1>6, <1>7 DEF Welcome
<1>9. ~ told.threw => Core(done, n, res, 1) /\ Settled(done)
  <2>1. ~ told.threw => Welcome(told, n, res)
    BY <1>6, <1>7
  <2> QED
    BY <2>1, QueueProcessed DEF done
<1>10. Core(d, n, res, 1) /\ Settled(d)
  BY <1>1, <1>4, <1>8, <1>9
<1> QED
  BY <1>10 DEF d, c, n

-----------------------------------------------------------------------------
(* The end of a turn                                                       *)
LEMMA TurnKept ==
  ASSUME NEW after, NEW n, IInv,
         Core(after, n, results, 1), Settled(after), Turn(after, n)
  PROVE  IInv'
<1> DEFINE w == Wire(n, after.out)
           r == Heard(results, after.calls)
           c == [after EXCEPT !.out = <<>>, !.calls = <<>>, !.threw = FALSE,
                              !.wireMessage = Ack(None, 0)]
<1>1. results \in Results /\ SessionType
  BY DEF IInv, Right
<1>2. client' = c /\ net' = w /\ session' = session
  BY DEF Turn, Wire
<1>3. results' = r
  <2>1. CASE after.calls = <<>>
    BY <1>1, <2>1, NothingHeard DEF Turn
  <2>2. CASE after.calls # <<>>
    <3>1. results' = [a \in 1 .. MaxAttempts |->
                         [cb \in DOMAIN NoResult |->
                             results[a][cb] + Count(after.calls, cb, a)]]
      BY <2>2 DEF Turn
    <3> QED
      BY <3>1 DEF Heard
  <2> QED
    BY <2>1, <2>2
<1>4. Right(after, w, r, 1)
  BY DEF Core
<1> HIDE DEF w, r
<1>5. /\ ClientType(c) /\ SamePingers(after, c) /\ Between(c)
      /\ c.reaction = after.reaction /\ c.connected = after.connected
      /\ c.socket = after.socket /\ c.attempt = after.attempt
      /\ c.hosts = after.hosts /\ c.hostIndex = after.hostIndex
      /\ c.queue = after.queue /\ c.notify = after.notify
      /\ c.connectTimer = after.connectTimer /\ c.draining = after.draining
      /\ c.sent = after.sent /\ c.stored = after.stored
  BY <1>4, EmptySequence DEF Right, ClientType, SamePingers, Between
<1> HIDE DEF c
<1>6. /\ Keeping(c) /\ Attempting(c) /\ TimersRight(c) /\ HostsRight(c)
      /\ QueueRight(c) /\ NetRight(c, w)
  BY <1>4, <1>5 DEF Right, Keeping, Attempting, TimersRight, HostsRight,
                    QueueRight, NetRight, SamePingers
<1>7. Answering(c, r, 1) /\ EarlyRight(c, r, 1)
  BY <1>4, <1>5 DEF Right, Answering, Phase, EarlyRight, Counted, Listens
<1>8. Right(c, w, r, 1) /\ Settled(c)
  BY <1>4, <1>5, <1>6, <1>7 DEF Right, Settled
<1>9. SessionType'
  BY <1>1, <1>2 DEF SessionType
<1> QED
  BY <1>2, <1>3, <1>5, <1>8, <1>9 DEF IInv

(* The start of a turn                                                     *)
LEMMA Starting ==
  ASSUME IInv
  PROVE  /\ Core(client, net, results, 1) /\ Right(client, net, results, 1)
         /\ results \in Results /\ Settled(client) /\ ~ client.threw
         /\ client.out = <<>> /\ client.calls = <<>>
         /\ Wire(net, client.out) = net
         /\ Heard(results, client.calls) = results
         /\ ClientType(client) /\ NetType(net)
         /\ client.connected => Serene(client, net, results)
<1>1. /\ Right(client, net, results, 1) /\ Settled(client) /\ Between(client)
      /\ results \in Results /\ ClientType(client) /\ NetType(net)
  BY DEF IInv, Right
<1>2. client.out = <<>> /\ client.calls = <<>> /\ ~ client.threw
  BY <1>1 DEF Between
<1>3. /\ Core(client, net, results, 1)
      /\ Wire(net, client.out) = net /\ Heard(results, client.calls) = results
  BY <1>1, <1>2, Begun
<1> QED
  BY <1>1, <1>2, <1>3 DEF Serene

(* The steps of the application: connect(),                                *)
LEMMA AppConnectKept == ASSUME IInv, AppConnect PROVE IInv'
<1>1. PICK clean \in CleanChoices, hosts \in HostChoices :
          Turn(connect(client, clean, hosts), net)
  BY DEF AppConnect
<1> DEFINE d == connect(client, clean, hosts)
<1>2. clean \in BOOLEAN /\ hosts \in Nat
  BY SystemAssumption
<1>3. /\ Idle(client, net) /\ ~ client.connected /\ client.socket = "none"
      /\ client.attempt < MaxAttempts /\ results \in Results
      /\ Answering(client, Heard(results, client.calls), 1)
      /\ client.notify => Counted(client, Heard(results, client.calls))
      /\ Settled(client)
  BY Starting DEF AppConnect, MayConnect, Idle, Right, QueueRight, EarlyRight
<1>4. /\ Core(d, net, results, 1)
      /\ ~ d.connected /\ d.socket = "connecting"
      /\ d.queue = client.queue /\ d.notify = client.notify
      /\ d.draining = client.draining /\ d.wireMessage = client.wireMessage
      /\ d.threw = client.threw
  BY <1>2, <1>3, Connected
<1> HIDE DEF d
<1>5. Settled(d)
  BY <1>3, <1>4 DEF Settled
<1> QED
  BY <1>1, <1>4, <1>5, TurnKept DEF d

(* send(),                                                                 *)
LEMMA AppSendKept == ASSUME IInv, AppSend PROVE IInv'
<1>1. PICK i \in DOMAIN Outbound : Turn(send(client, Outbound[i]), net)
  BY DEF AppSend
<1> DEFINE m == Outbound[i]
           d == send(client, m)
<1>2. m \in Messages
  BY SystemAssumption
<1> HIDE DEF m
<1>3. Core(d, net, results, 1) /\ Settled(d)
  BY <1>2, Starting, SendCalled DEF AppSend
<1> HIDE DEF d
<1> QED
  BY <1>1, <1>3, TurnKept DEF d, m

(* subscribe() and unsubscribe(),                                          *)
LEMMA AppRequestKept == ASSUME IInv, AppRequest PROVE IInv'
<1>1. PICK type \in {"SUBSCRIBE", "UNSUBSCRIBE"} :
          Turn(Request(client, type), net)
  BY DEF AppRequest
<1> DEFINE d == Request(client, type)
           k == 1
<1>2. /\ Core(client, net, results, k) /\ client.connected
      /\ ~ client.draining /\ ~ client.threw
      /\ (client.notify => client.queue # <<>>) /\ client.queue = <<>>
      /\ results \in Results /\ k \in {0, 1}
  BY Starting DEF AppRequest, Settled
<1> HIDE DEF k
<1>3. Core(d, net, results, k) /\ Settled(d) /\ d.queue = <<>>
  BY <1>2, Requested
<1> HIDE DEF d
<1>4. Core(d, net, results, 1)
  BY <1>3 DEF k
<1> QED
  BY <1>1, <1>3, <1>4, TurnKept DEF d

(* An early call of disconnect() is counted, and with that the promise to  *)
(* answer is off.                                                          *)
LEMMA EarlyCounted ==
  ASSUME NEW c, NEW d, NEW r \in Results, NEW s \in Results,
         c.attempt \in 1 .. MaxAttempts, Answering(c, r, 1),
         d.reaction = c.reaction, d.attempt = c.attempt,
         OneMore(r, s, "early", c.attempt)
  PROVE  Answering(d, s, 1) /\ Counted(d, s)
<1>1. MaxAttempts \in Nat
  BY ClientAssumption
<1>2. ASSUME NEW b \in 1 .. MaxAttempts
      PROVE  /\ s[b].onSuccess = r[b].onSuccess
             /\ s[b].onFailure = r[b].onFailure
             /\ s[b].onConnectionLost = r[b].onConnectionLost
             /\ s[b].reloaded = r[b].reloaded
             /\ s[b].early = r[b].early + IF b = c.attempt THEN 1 ELSE 0
             /\ s[b].early \in Nat /\ r[b].early \in Nat
  BY ResultFields DEF OneMore
<1>3. s[c.attempt].early # 0
  BY <1>2
<1>4. ASSUME NEW a \in 1 .. MaxAttempts, a >= c.attempt
      PROVE  ~ NoEarly(s, a)
  BY <1>3, <1>4 DEF NoEarly
<1>5. Counted(d, s)
  BY <1>4 DEF Counted, Listens
<1>6. ASSUME FewMisspelt, Listens(c), NEW a \in 1 .. MaxAttempts
      PROVE  /\ a > c.attempt => Untouched(s[a])
             /\ Clear(s, a) => /\ a < c.attempt => Final(s[a])
                               /\ a = c.attempt => Phase(d, s[a], 1)
  <2>1. /\ a > c.attempt => Untouched(r[a])
        /\ Clear(r, a) /\ a < c.attempt => Final(r[a])
    BY <1>6 DEF Answering
  <2>2. CASE a > c.attempt
    BY <1>2, <1>4, <2>1, <2>2 DEF Called, Clear, Untouched
  <2>3. CASE a = c.attempt
    BY <1>4, <2>3 DEF Clear
  <2>4. CASE a < c.attempt
    <3>1. Clear(s, a) => Clear(r, a)
      BY <1>1, <1>2, <2>4 DEF NoEarly, Clear
    <3> QED
      BY <1>2, <2>1, <2>4, <3>1 DEF Final
  <2> QED
    BY <2>2, <2>3, <2>4
<1>7. Answering(d, s, 1)
  BY <1>6 DEF Answering, Listens
<1> QED
  BY <1>5, <1>7

(* The early callback of a disconnect() before the CONNACK is counted.     *)
LEMMA EarlyCalled ==
  ASSUME IInv, client.socket # "none", ~ client.connected
  PROVE  LET d == Call(client, "early", client.attempt)
         IN  /\ Core(d, net, results, 1) /\ ~ d.draining /\ ~ d.threw
             /\ d.socket # "none" /\ Counted(d, Heard(results, d.calls))
<1> DEFINE cb == "early"
           d == Call(client, cb, client.attempt)
           s == Heard(results, d.calls)
<1>1. /\ Right(client, net, results, 1) /\ results \in Results
      /\ client.calls = <<>> /\ client.out = <<>> /\ ClientType(client)
      /\ Heard(results, client.calls) = results
      /\ Settled(client) /\ ~ client.threw /\ IsSequence(client.calls)
  BY Starting DEF ClientType
<1> HIDE DEF cb
<1>2. /\ ClientType(d)
      /\ d.calls = Append(client.calls, <<cb, client.attempt>>)
      /\ SameTurn(client, d) /\ SamePingers(client, d) /\ d.out = client.out
      /\ d.reaction = client.reaction /\ d.attempt = client.attempt
      /\ d.hosts = client.hosts /\ d.hostIndex = client.hostIndex
      /\ d.connectTimer = client.connectTimer
      /\ d.sent = client.sent /\ d.stored = client.stored
      /\ d.threw = client.threw /\ s \in Results
  <2> DEFINE arg == client.attempt
             e == Call(client, cb, arg)
  <2> HIDE DEF arg
  <2>1. /\ ClientType(e) /\ e.calls = Append(client.calls, <<cb, arg>>)
        /\ SameTurn(client, e) /\ SamePingers(client, e)
        /\ e.out = client.out
        /\ e.reaction = client.reaction /\ e.attempt = client.attempt
        /\ e.hosts = client.hosts /\ e.hostIndex = client.hostIndex
        /\ e.connectTimer = client.connectTimer /\ e.clean = client.clean
        /\ e.sent = client.sent /\ e.stored = client.stored
        /\ e.threw = client.threw /\ e.received = client.received
        /\ Heard(results, e.calls) \in Results
    <3>1. ClientType(client) /\ results \in Results
      BY <1>1
    <3> HIDE DEF d, s
    <3> QED
      BY <3>1, CallOne
  <2> QED
    BY <2>1 DEF arg
<1>3. OneMore(results, s, "early", client.attempt)
  <2>1. OneMore(Heard(results, client.calls), s, cb, client.attempt)
    BY <1>1, <1>2, HeardOne
  <2> QED
    BY <1>1, <2>1 DEF cb
<1>4. client.attempt \in 1 .. MaxAttempts /\ Answering(client, results, 1)
  BY <1>1 DEF Right, ClientType, Attempting
<1>5. Wire(net, d.out) = net
  BY <1>1, <1>2, NothingSent
<1> HIDE DEF d, s
<1>6. Answering(d, s, 1) /\ Counted(d, s)
  BY <1>1, <1>2, <1>3, <1>4, EarlyCounted
<1>7. Right(d, net, s, 1)
  BY <1>1, <1>2, <1>6 DEF Right, Keeping, Attempting, TimersRight, HostsRight,
     QueueRight, NetRight, EarlyRight, SameTurn, SamePingers
<1>8. Core(d, net, results, 1)
  BY <1>5, <1>7 DEF Core, s
<1> QED
  BY <1>1, <1>2, <1>6, <1>8 DEF d, s, cb, SameTurn, Settled

(* disconnect(),                                                           *)
LEMMA AppDisconnectKept == ASSUME IInv, AppDisconnect PROVE IInv'
<1> DEFINE early == Call(client, "early", client.attempt)
           c == IF client.connected THEN client ELSE early
           d == disconnect(c)
<1>1. Turn(d, net) /\ client.socket # "none"
  BY DEF AppDisconnect
<1>2. ~ client.connected =>
          /\ Core(early, net, results, 1) /\ ~ early.draining /\ ~ early.threw
          /\ early.socket # "none"
          /\ Counted(early, Heard(results, early.calls))
  BY <1>1, EarlyCalled
<1> HIDE DEF early
<1>3. /\ Core(client, net, results, 1) /\ ~ client.draining /\ ~ client.threw
      /\ results \in Results
  BY Starting DEF Settled
<1> DEFINE k == 1
<1>4. /\ Core(c, net, results, k) /\ ~ c.draining /\ ~ c.threw
      /\ c.socket # "none" /\ k \in {0, 1}
      /\ \/ c.connected /\ k = 1
         \/ Counted(c, Heard(results, c.calls))
  BY <1>1, <1>2, <1>3
<1> HIDE DEF c, k
<1>5. /\ Core(d, net, results, k) /\ Settled(d)
      /\ d.wireMessage = Ack("DISCONNECT", 0)
  BY <1>3, <1>4, DisconnectCalled
<1> HIDE DEF d
<1>6. Core(d, net, results, 1)
  BY <1>5 DEF k
<1> QED
  BY <1>1, <1>5, <1>6, TurnKept

(* A reload is counted for the attempt that it ends.                       *)
LEMMA ReloadCounted ==
  ASSUME NEW r \in Results, NEW a \in 1 .. MaxAttempts
  PROVE  LET s == [r EXCEPT ![a].reloaded = @ + 1]
         IN  /\ s \in Results /\ s[a].reloaded # 0
             /\ \A b \in 1 .. MaxAttempts : s[b].early = r[b].early
<1> DEFINE k == r[a].reloaded + 1
           t == [r[a] EXCEPT !.reloaded = k]
           s == [r EXCEPT ![a] = t]
<1>1. k \in Nat /\ k # 0
  BY ResultFields
<1> HIDE DEF k
<1>2. t \in ResultType /\ t.reloaded = k /\ t.early = r[a].early
  BY <1>1 DEF Results, ResultType, NoResult
<1> HIDE DEF t
<1>3. /\ s \in Results /\ s[a] = t
      /\ \A b \in 1 .. MaxAttempts : b # a => s[b] = r[b]
  BY <1>2 DEF Results
<1> QED
  BY <1>1, <1>2, <1>3 DEF t, k

(* and a reload of the page, which starts from the storage.                *)
LEMMA ReloadKept == ASSUME IInv, Reload PROVE IInv'
<1> DEFINE c == ClientImpl(client.stored, client.attempt, client.reaction)
           n == Hangup(net)
<1>1. /\ client' = c /\ net' = n /\ session' = session
      /\ results' = IF client.socket = "none" THEN results
                    ELSE [results EXCEPT ![client.attempt].reloaded = @ + 1]
  BY DEF Reload
<1>2. /\ Right(client, net, results, 1) /\ ClientType(client) /\ NetType(net)
      /\ results \in Results
  BY Starting
<1>3. /\ c.reaction = client.reaction /\ ~ c.connected /\ c.socket = "none"
      /\ c.attempt = client.attempt /\ c.hosts = 0
      /\ c.queue = <<>> /\ ~ c.draining /\ ~ c.notify
      /\ ~ c.connectTimer /\ ~ c.sendPinger.armed /\ ~ c.receivePinger.armed
      /\ c.sent = client.stored.sent /\ c.stored = client.stored
      /\ c.out = <<>> /\ c.calls = <<>> /\ ~ c.threw
  BY DEF ClientImpl, NewPinger
<1>4. ClientType(c)
  <2>1. /\ client.reaction \in Reactions /\ client.attempt \in Nat
        /\ client.stored \in [sent : {client.stored.sent},
                              received : {client.stored.received}]
    BY <1>2 DEF ClientType
  <2>2. IsSequence(<<>>)
    BY EmptySequence
  <2> QED
    BY <2>1, <2>2 DEF ClientType, ClientImpl, NewPinger, PingerType, Ack,
                      WireMessage
<1>5. NetType(n)
  BY <1>2, HungUp
<1> HIDE DEF c, n
<1>6. /\ Keeping(c) /\ Attempting(c) /\ TimersRight(c) /\ HostsRight(c)
      /\ QueueRight(c) /\ NetRight(c, n) /\ EarlyRight(c, results', 1)
      /\ Settled(c) /\ Between(c)
  BY <1>2, <1>3, NothingWaits
  DEF Right, Keeping, Attempting, TimersRight, HostsRight, QueueRight,
      NetRight, EarlyRight, Settled, Between
<1>7. results' \in Results /\ Answering(c, results', 1)
  <2>1. CASE client.socket = "none"
    BY <1>1, <1>2, <1>3, <2>1
    DEF Right, Answering, Listens, Phase, QueueRight
  <2>2. CASE client.socket # "none"
    <3> DEFINE a == client.attempt
               s == [results EXCEPT ![a].reloaded = @ + 1]
    <3>1. a \in 1 .. MaxAttempts /\ Answering(client, results, 1)
      BY <1>2, <2>2, ClientAssumption DEF Right, ClientType, Attempting
    <3> HIDE DEF a
    <3>2. s \in Results /\ s[a].reloaded # 0
      BY <1>2, <3>1, ReloadCounted
    <3>3. ASSUME NEW b \in 1 .. MaxAttempts, b # a PROVE s[b] = results[b]
      BY <1>2, <3>3 DEF Results
    <3>4. ASSUME NEW b \in 1 .. MaxAttempts
          PROVE  s[b].early = results[b].early
      BY <1>2, <3>1, <3>4, ReloadCounted
    <3>5. results' = s
      BY <1>1, <2>2 DEF a
    <3> HIDE DEF s
    <3>6. ASSUME FewMisspelt, Listens(c), NEW b \in 1 .. MaxAttempts
          PROVE  /\ b > a => Untouched(s[b])
                 /\ Clear(s, b) => /\ b < a => Final(s[b])
                                   /\ b = a => Phase(c, s[b], 1)
      <4>1. /\ b > a => Untouched(results[b])
            /\ Clear(results, b) /\ b < a => Final(results[b])
        BY <1>3, <3>1, <3>6 DEF Answering, Listens, a
      <4>2. CASE b = a
        BY <3>1, <3>2, <4>2 DEF Clear
      <4>3. CASE b # a
        <5>1. s[b] = results[b]
          BY <3>3, <4>3
        <5>2. NoEarly(s, b) => NoEarly(results, b)
          BY <3>4, ClientAssumption DEF NoEarly
        <5> QED
          BY <4>1, <4>3, <5>1, <5>2 DEF Clear
      <4> QED
        BY <4>2, <4>3
    <3>7. Answering(c, s, 1)
      BY <1>3, <3>6 DEF Answering, a
    <3> QED
      BY <3>2, <3>5, <3>7
  <2> QED
    BY <2>1, <2>2
<1>8. SessionType'
  BY <1>1 DEF IInv, SessionType
<1>9. Right(c, n, results', 1)
  BY <1>2, <1>4, <1>5, <1>6, <1>7 DEF Right
<1> QED
  BY <1>1, <1>6, <1>8, <1>9 DEF IInv

-----------------------------------------------------------------------------
(* The network's events and the timers                                     *)
LEMMA SocketOpened ==
  ASSUME NEW cl, NEW net0, NEW res \in Results, Right(cl, net0, res, 1),
         Settled(cl), Between(cl), cl.socket = "connecting",
         NEW n, n = [net0 EXCEPT !.state = "up"]
  PROVE  LET d == on_socket_open(cl) IN Core(d, n, res, 1) /\ Settled(d)
<1> DEFINE p == reset(cl.sendPinger)
           id == 0 % IdSpace
           m == [WireMessage("CONNECT", 0, cl.clean) EXCEPT !.id = id]
           out == Append(cl.out, m)
           c == [cl EXCEPT !.socket = "open"]
           d == [c EXCEPT !.out = out, !.sendPinger = p]
           w == SocketStep(n, m)
<1>1. /\ ClientType(cl) /\ Fresh(net0) /\ NetType(net0)
      /\ ~ cl.connected /\ cl.out = <<>> /\ cl.calls = <<>>
  BY DEF Right, NetRight, QueueRight, Between
<1>2. on_socket_open(cl) = d
  <2>1. c.socket = "open" /\ c.sendPinger = cl.sendPinger /\ c.out = cl.out
        /\ c.clean = cl.clean
    BY <1>1 DEF ClientType
  <2>2. Encodable(WireMessage("CONNECT", 0, cl.clean))
    BY DEF Encodable, WireMessage
  <2> QED
    BY <2>1, <2>2 DEF on_socket_open, socket_send, WireMessage
<1>3. m.type = "CONNECT"
  BY DEF WireMessage
<1>4. p \in PingerType /\ IsSequence(out)
  <2>1. IsSequence(cl.out)
    BY <1>1 DEF ClientType
  <2> HIDE DEF m
  <2> QED
    BY <2>1, PingerReset, SentOneMore
<1>5. Wire(n, out) = w
  <2> HIDE DEF m
  <2>1. Wire(n, cl.out) = n
    BY <1>1, NothingSent
  <2>2. IsSequence(cl.out)
    BY <1>1 DEF ClientType
  <2>3. Wire(n, Append(cl.out, m)) = SocketStep(Wire(n, cl.out), m)
    BY <2>2, SentOneMore
  <2> QED
    BY <2>1, <2>3
<1>6. NetType(w) /\ Asking(w)
  <2>1. /\ NetType(n) /\ n.toBroker = <<>> /\ n.toClient = <<>>
        /\ ~ n.accepted /\ ~ n.closed
    BY <1>1 DEF NetType, Fresh
  <2> HIDE DEF m
  <2> DEFINE t == Append(<<>>, m)
  <2>2. w = [n EXCEPT !.toBroker = t]
    BY <1>3, <2>1 DEF SocketStep
  <2>3. /\ IsSequence(t) /\ t # <<>> /\ t[1] = m /\ Tail(t) = <<>>
    <3>1. t[1] = m /\ Tail(t) = <<>> /\ t # <<>>
      OBVIOUS
    <3>2. IsSequence(t)
      BY EmptySequence, Appended
    <3> QED
      BY <3>1, <3>2
  <2> HIDE DEF t, w
  <2>4. No("CONNECT", <<>>)
    BY EmptySequence
  <2>5. NetType(w) /\ w.toBroker = t /\ w.toClient = n.toClient
        /\ w.accepted = n.accepted /\ w.closed = n.closed
    BY <2>1, <2>2, <2>3 DEF NetType
  <2> QED
    BY <1>3, <2>1, <2>3, <2>4, <2>5 DEF Asking
<1> HIDE DEF p, out, m, w
<1>7. /\ ClientType(d) /\ d.socket = "open" /\ d.out = out
      /\ d.reaction = cl.reaction /\ d.connected = cl.connected
      /\ d.attempt = cl.attempt /\ d.hosts = cl.hosts
      /\ d.hostIndex = cl.hostIndex /\ d.queue = cl.queue
      /\ d.notify = cl.notify /\ d.connectTimer = cl.connectTimer
      /\ d.draining = cl.draining /\ d.calls = cl.calls
      /\ d.sent = cl.sent /\ d.stored = cl.stored
  BY <1>1, <1>4 DEF ClientType
<1> HIDE DEF c, d
<1>8. /\ Keeping(d) /\ Attempting(d) /\ TimersRight(d) /\ HostsRight(d)
      /\ QueueRight(d) /\ NetRight(d, w) /\ Settled(d)
  BY <1>1, <1>6, <1>7 DEF Right, Keeping, Attempting, TimersRight, HostsRight,
     QueueRight, NetRight, Settled
<1>9. Answering(d, res, 1) /\ EarlyRight(d, res, 1)
  BY <1>1, <1>7 DEF Right, Answering, Phase, EarlyRight, Counted, Listens
<1>10. Right(d, w, res, 1)
  BY <1>6, <1>7, <1>8, <1>9 DEF Right
<1>11. Heard(res, d.calls) = res
  BY <1>1, <1>7, NothingHeard
<1> QED
  BY <1>2, <1>5, <1>7, <1>8, <1>10, <1>11 DEF Core

(* The socket opens and CONNECT goes out.                                  *)
LEMMA OpenKept == ASSUME IInv, Open PROVE IInv'
<1> DEFINE n == [net EXCEPT !.state = "up"]
           d == on_socket_open(client)
<1>1. Turn(d, n) /\ client.socket = "connecting"
  BY DEF Open, Dialing
<1>2. /\ Right(client, net, results, 1) /\ Settled(client) /\ Between(client)
      /\ results \in Results
  BY Starting DEF IInv
<1>3. Core(d, n, results, 1) /\ Settled(d)
  BY <1>1, <1>2, SocketOpened
<1> HIDE DEF d, n
<1> QED
  BY <1>1, <1>3, TurnKept

(* A turn in which the connection is lost                                  *)
LEMMA LossKept ==
  ASSUME IInv, client.socket # "none",
         NEW e, ClientType(e), SameStake(client, e), e.socket # "none",
         NEW n, NetType(n), Turn(disconnected(e), n)
  PROVE  IInv'
<1> DEFINE d == disconnected(e)
<1>1. Core(client, net, results, 1) /\ results \in Results
      /\ client.out = <<>>
  BY Starting
<1>2. NetType(Wire(n, e.out))
  BY <1>1, NothingSent DEF SameStake
<1>3. Core(d, n, results, 1) /\ Settled(d)
  BY <1>1, <1>2, Broken
<1> HIDE DEF d
<1> QED
  BY <1>3, TurnKept DEF d

(* A closed socket still belongs to its attempt.                           *)
LEMMA SocketLost ==
  ASSUME NEW c, ClientType(c)
  PROVE  LET e == [c EXCEPT !.socket = "closed"]
         IN  ClientType(e) /\ SameStake(c, e) /\ e.socket # "none"
BY DEF ClientType, SameStake

(* The socket does not open.                                               *)
LEMMA DialFailsKept == ASSUME IInv, DialFails PROVE IInv'
<1> DEFINE e == [client EXCEPT !.socket = "closed"]
           n == [net EXCEPT !.state = "down"]
<1>1. Turn(disconnected(e), n) /\ client.socket # "none"
  BY DEF DialFails, Dialing, on_socket_error
<1>2. ClientType(client) /\ NetType(net)
  BY Starting
<1>3. NetType(n)
  BY <1>2 DEF NetType
<1>4. ClientType(e) /\ SameStake(client, e) /\ e.socket # "none"
  BY <1>2, SocketLost
<1> HIDE DEF e, n
<1> QED
  BY <1>1, <1>3, <1>4, LossKept

(* The socket closes.                                                      *)
LEMMA CloseKept ==
  ASSUME IInv, client.socket = "open",
         Turn(on_socket_close(client), Hangup(net))
  PROVE  IInv'
<1> DEFINE e == [client EXCEPT !.socket = "closed"]
           n == Hangup(net)
<1>1. Turn(disconnected(e), n) /\ client.socket # "none"
  BY DEF on_socket_close
<1>2. ClientType(client) /\ NetType(net)
  BY Starting
<1>3. NetType(n)
  BY <1>2, HungUp
<1>4. ClientType(e) /\ SameStake(client, e) /\ e.socket # "none"
  BY <1>2, SocketLost
<1> HIDE DEF e, n
<1> QED
  BY <1>1, <1>3, <1>4, LossKept

(* The timer of connect() fires.                                           *)
LEMMA ConnectTimerKept == ASSUME IInv, ConnectTimerFires PROVE IInv'
<1> DEFINE e == [client EXCEPT !.connectTimer = FALSE]
<1>1. Turn(disconnected(e), net) /\ client.connectTimer
  BY DEF ConnectTimerFires, ConnectTimeout
<1>2. /\ Right(client, net, results, 1) /\ ClientType(client) /\ NetType(net)
  BY Starting
<1>3. client.socket # "none"
  BY <1>1, <1>2 DEF Right, TimersRight
<1>4. ClientType(e) /\ SameStake(client, e) /\ e.socket # "none"
  BY <1>2, <1>3 DEF ClientType, SameStake
<1> HIDE DEF e
<1> QED
  BY <1>1, <1>2, <1>3, <1>4, LossKept

(* The timer of a subscribe() or unsubscribe() fires.                      *)
LEMMA RequestTimerKept == ASSUME IInv, RequestTimerFires PROVE IInv'
<1>1. PICK i \in client.requestTimers : Turn(RequestTimesOut(client, i), net)
  BY DEF RequestTimerFires
<1> DEFINE timers == client.requestTimers \ {i}
           c == [client EXCEPT !.requestTimers = timers]
           cb == "requestFailure"
           d == Call(c, cb, i)
<1>2. Turn(d, net)
  BY <1>1 DEF RequestTimesOut
<1>3. /\ Core(client, net, results, 1) /\ ClientType(client)
      /\ results \in Results /\ Settled(client) /\ Keeping(client)
  BY Starting DEF Right
<1> HIDE DEF timers
<1>4. /\ ClientType(c) /\ SameButKept(client, c)
      /\ c.sent = client.sent /\ c.stored = client.stored
  BY <1>3 DEF ClientType, SameButKept, SameLink, SamePingers
<1> HIDE DEF c
<1>5. Keeping(c)
  BY <1>3, <1>4 DEF Keeping
<1>6. Core(c, net, results, 1)
  BY <1>3, <1>4, <1>5, QuietlyKept
<1>7. Core(d, net, results, 1) /\ SameTurn(c, d)
  <2>1. cb \notin DOMAIN NoResult
    BY DEF NoResult
  <2> HIDE DEF cb
  <2>2. /\ Core(d, net, results, 1) /\ SameTurn(c, d) /\ d.threw = c.threw
        /\ d.reaction = c.reaction
        /\ Heard(results, d.calls) = Heard(results, c.calls)
    BY <1>3, <1>6, <2>1, Called1
  <2> QED
    BY <2>2
<1>8. Settled(d)
  <2> HIDE DEF d
  <2> QED
    BY <1>3, <1>4, <1>7 DEF Settled, SameTurn, SameButKept, SameLink
<1> HIDE DEF d
<1> QED
  BY <1>2, <1>7, <1>8, TurnKept

(* A pinger is armed only while the socket is open.                        *)
LEMMA Pinging ==
  ASSUME IInv, NEW which \in {"sendPinger", "receivePinger"},
         client[which].armed
  PROVE  client.socket = "open"
BY Starting DEF Right, TimersRight

(* A pinger sends PINGREQ ...                                              *)
LEMMA PingSent ==
  ASSUME IInv, client.socket = "open",
         NEW which \in {"sendPinger", "receivePinger"}
  PROVE  LET d == [client EXCEPT
                      ![which] = [isReset |-> FALSE, armed |-> TRUE],
                      !.out = Append(@, Ack("PINGREQ", 0))]
         IN  Core(d, net, results, 1) /\ Settled(d)
<1> DEFINE m == Ack("PINGREQ", 0)
           p == [isReset |-> FALSE, armed |-> TRUE]
           out == Append(client.out, m)
           d == [client EXCEPT ![which] = p, !.out = out]
<1>1. /\ Core(client, net, results, 1) /\ ClientType(client)
      /\ Settled(client) /\ IsSequence(client.out)
  BY Starting DEF ClientType
<1>2. m.type \notin {"dial", "close", "CONNECT"}
  BY DEF Ack, WireMessage
<1>3. p \in PingerType
  BY DEF PingerType
<1> HIDE DEF m, p
<1>4. IsSequence(out)
  BY <1>1, SentOneMore
<1> HIDE DEF out
<1>5. ClientType(d) /\ SameTurn(client, d) /\ SameRest(client, d)
      /\ d.out = out
  <2>1. CASE which = "sendPinger"
    BY <1>1, <1>3, <1>4, <2>1 DEF ClientType, SameTurn, SameRest
  <2>2. CASE which = "receivePinger"
    BY <1>1, <1>3, <1>4, <2>2 DEF ClientType, SameTurn, SameRest
  <2> QED
    BY <2>1, <2>2
<1> HIDE DEF d
<1>6. Core(d, net, results, 1)
  BY <1>1, <1>2, <1>5, PacketSent DEF out
<1>7. Settled(d)
  BY <1>1, <1>5 DEF Settled, SameTurn
<1> QED
  BY <1>6, <1>7 DEF d, out, m, p

(* ... or gives the connection up when nothing came since the last.        *)
LEMMA PingerKept == ASSUME IInv, PingerFires PROVE IInv'
<1>1. PICK which \in {"sendPinger", "receivePinger"} :
          client[which].armed /\ Turn(doPing(client, which), net)
  BY DEF PingerFires
<1>2. client.socket = "open"
  BY <1>1, Pinging
<1> DEFINE d == [client EXCEPT
                    ![which] = [isReset |-> FALSE, armed |-> TRUE],
                    !.out = Append(@, Ack("PINGREQ", 0))]
           p == cancel(client[which])
           e == [client EXCEPT ![which] = p]
<1>3. CASE client[which].isReset
  <2>1. Turn(d, net)
    BY <1>1, <1>3 DEF doPing
  <2>2. Core(d, net, results, 1) /\ Settled(d)
    BY <1>2, PingSent
  <2> HIDE DEF d
  <2> QED
    BY <2>1, <2>2, TurnKept
<1>4. CASE ~ client[which].isReset
  <2>1. Turn(disconnected(e), net)
    BY <1>1, <1>4 DEF doPing
  <2>2. ClientType(client) /\ NetType(net)
    BY Starting
  <2>3. p \in PingerType
    BY <2>2 DEF ClientType, PingerType, cancel
  <2> HIDE DEF p
  <2>4. ClientType(e) /\ SameStake(client, e) /\ e.socket # "none"
    <3>1. CASE which = "sendPinger"
      BY <1>2, <2>2, <2>3, <3>1 DEF ClientType, SameStake
    <3>2. CASE which = "receivePinger"
      BY <1>2, <2>2, <2>3, <3>2 DEF ClientType, SameStake
    <3> QED
      BY <3>1, <3>2
  <2> HIDE DEF e
  <2> QED
    BY <1>2, <2>1, <2>2, <2>4, LossKept
<1> QED
  BY <1>3, <1>4

(* A packet comes: CONNACK if the client waits for it, and no other        *)
(* CONNACK.                                                                *)
LEMMA Delivering ==
  ASSUME IInv, client.socket = "open", net.toClient # <<>>
  PROVE  LET packet == Head(net.toClient)
         IN  /\ client.connected => /\ packet.type # "CONNACK"
                                    /\ Serene(Stirred(client), Taken(net), results)
             /\ ~ client.connected => /\ packet.type = "CONNACK"
                                      /\ Answered(net)
<1> DEFINE packet == Head(net.toClient)
           n == Taken(net)
           c == Stirred(client)
<1>1. /\ Right(client, net, results, 1) /\ Settled(client) /\ Between(client)
      /\ results \in Results /\ ClientType(client) /\ NetType(net)
      /\ client.out = <<>> /\ client.calls = <<>> /\ ~ client.threw
  BY Starting DEF IInv
<1>2. /\ DOMAIN net.toClient = 1 .. Len(net.toClient)
      /\ 1 \in DOMAIN net.toClient /\ packet = net.toClient[1]
      /\ DOMAIN Tail(net.toClient) = 1 .. Len(net.toClient) - 1
      /\ \A i \in 1 .. Len(net.toClient) - 1 :
             /\ Tail(net.toClient)[i] = net.toClient[i + 1]
             /\ i + 1 \in 1 .. Len(net.toClient)
  BY <1>1, Tailed DEF NetType
<1>3. /\ NetType(n) /\ n.toBroker = net.toBroker
      /\ n.toClient = Tail(net.toClient)
  BY <1>1, PacketTaken
<1>4. /\ ClientType(c) /\ c.reaction = client.reaction
      /\ c.connected = client.connected /\ c.socket = client.socket
      /\ c.attempt = client.attempt /\ c.hosts = client.hosts
      /\ c.hostIndex = client.hostIndex /\ c.queue = client.queue
      /\ c.notify = client.notify /\ c.draining = client.draining
      /\ c.connectTimer = client.connectTimer
      /\ c.sendPinger = client.sendPinger
      /\ c.sent = client.sent /\ c.stored = client.stored
      /\ c.out = client.out /\ c.calls = client.calls
      /\ c.threw = client.threw
  BY <1>1, PingerStirred
<1> HIDE DEF n, packet, c
<1>5. ASSUME client.connected
      PROVE  packet.type # "CONNACK" /\ Serene(c, n, results)
  <2>1. packet.type # "CONNACK" /\ Serving(n)
    BY <1>1, <1>2, <1>3, <1>5 DEF Right, NetRight, Serving, No
  <2>2. /\ Keeping(c) /\ Attempting(c) /\ TimersRight(c) /\ HostsRight(c)
        /\ QueueRight(c) /\ NetRight(c, n)
        /\ Answering(c, results, 1) /\ EarlyRight(c, results, 1)
        /\ Settled(c)
    BY <1>1, <1>4, <1>5, <2>1
    DEF Right, Keeping, Attempting, TimersRight, HostsRight, QueueRight,
        NetRight, Answering, Phase, EarlyRight, Counted, Listens, Settled
  <2>3. Right(c, n, results, 1)
    BY <1>1, <1>3, <1>4, <2>2 DEF Right
  <2>4. Core(c, n, results, 1)
    BY <1>1, <1>4, <2>3, Begun
  <2> QED
    BY <1>1, <1>4, <1>5, <2>1, <2>2, <2>4 DEF Serene
<1>6. ASSUME ~ client.connected
      PROVE  packet.type = "CONNACK" /\ Answered(net)
  <2>1. Answered(net)
    BY <1>1, <1>6 DEF Right, NetRight, Asking
  <2> QED
    BY <1>2, <2>1 DEF Answered
<1> QED
  BY <1>5, <1>6 DEF packet, n, c

(* A packet is delivered.                                                  *)
LEMMA DeliverKept == ASSUME IInv, Deliver PROVE IInv'
<1> DEFINE packet == Head(net.toClient)
           n == Taken(net)
           c == Stirred(client)
           d == on_socket_message(client, packet)
<1>1. Turn(d, n) /\ client.socket = "open" /\ net.toClient # <<>>
  BY DEF Deliver, Arriving, Taken
<1>2. /\ Right(client, net, results, 1) /\ Settled(client) /\ Between(client)
      /\ results \in Results
  BY Starting DEF IInv
<1>3. /\ client.connected => packet.type # "CONNACK" /\ Serene(c, n, results)
      /\ ~ client.connected => packet.type = "CONNACK" /\ Answered(net)
  BY <1>1, Delivering
<1> HIDE DEF n, packet
<1>4. CASE client.connected
  <2>1. Serene([client EXCEPT !.receivePinger = reset(@)], n, results)
    BY <1>3, <1>4 DEF Stirred
  <2>2. Core(d, n, results, 1) /\ Settled(d)
    BY <1>2, <1>3, <1>4, <2>1, PacketReceived
  <2> HIDE DEF d
  <2> QED
    BY <1>1, <2>2, TurnKept
<1>5. CASE ~ client.connected
  <2> DEFINE code == packet.body
             e == ConnAck(c, code)
  <2>1. d = e
    BY <1>3, <1>5 DEF on_socket_message, Stirred
  <2> HIDE DEF code, d, c
  <2>2. Core(e, Taken(net), results, 1) /\ Settled(e)
    BY <1>1, <1>2, <1>3, <1>5, ConnAckReceived DEF c
  <2> HIDE DEF e
  <2>3. Core(d, n, results, 1) /\ Settled(d)
    BY <2>1, <2>2 DEF n
  <2> QED
    BY <1>1, <2>3, TurnKept
<1> QED
  BY <1>4, <1>5

-----------------------------------------------------------------------------
(* The broker                                                              *)
LEMMA NoneJoined ==
  ASSUME NEW type, NEW s, IsSequence(s), NEW t, IsSequence(t), No(type, t)
  PROVE  LET u == s \o t
         IN  /\ IsSequence(u)
             /\ No(type, s) => No(type, u)
             /\ s # <<>> => /\ u # <<>> /\ u[1] = s[1]
                            /\ No(type, Tail(s)) => No(type, Tail(u))
<1> DEFINE u == s \o t
           k == Len(s)
           l == Len(t)
<1>1. /\ IsSequence(u) /\ k \in Nat /\ l \in Nat
      /\ DOMAIN s = 1 .. k /\ DOMAIN t = 1 .. l /\ DOMAIN u = 1 .. k + l
      /\ \A i \in 1 .. k : u[i] = s[i]
      /\ \A i \in 1 .. l : u[k + i] = t[i]
      /\ Len(u) = k + l
  BY Joined
<1>2. s # <<>> => k >= 1
  BY Tailed
<1> HIDE DEF u, k, l
<1>3. ASSUME NEW i \in 1 .. k + l
      PROVE  \/ i \in 1 .. k /\ u[i] = s[i]
             \/ i > k /\ u[i].type # type
  <2>1. CASE i \in 1 .. k
    BY <1>1, <2>1
  <2>2. CASE i \notin 1 .. k
    <3> DEFINE j == i - k
    <3>1. j \in 1 .. l /\ k + j = i /\ i > k
      BY <1>1, <1>3, <2>2
    <3>2. u[k + j] = t[j] /\ t[j].type # type
      BY <1>1, <3>1 DEF No
    <3> QED
      BY <3>1, <3>2
  <2> QED
    BY <2>1, <2>2
<1>4. No(type, s) => No(type, u)
  BY <1>1, <1>3 DEF No
<1>5. ASSUME s # <<>> PROVE /\ u # <<>> /\ u[1] = s[1]
                            /\ No(type, Tail(s)) => No(type, Tail(u))
  <2>1. /\ DOMAIN Tail(s) = 1 .. k - 1
        /\ \A i \in 1 .. k - 1 : Tail(s)[i] = s[i + 1]
    BY <1>5, Tailed DEF k
  <2>2. 1 \in 1 .. k /\ 1 \in DOMAIN u
    BY <1>1, <1>2, <1>5
  <2>3. u # <<>>
    BY <2>2
  <2>4. Len(u) = k + l /\ DOMAIN Tail(u) = 1 .. k + l - 1
        /\ \A i \in 1 .. k + l - 1 : Tail(u)[i] = u[i + 1]
    BY <1>1, <2>3, Tailed
  <2>5. ASSUME No(type, Tail(s)), NEW i \in 1 .. k + l - 1
        PROVE  Tail(u)[i].type # type
    <3>1. i + 1 \in 1 .. k + l /\ Tail(u)[i] = u[i + 1]
      BY <1>1, <2>4
    <3>2. CASE i + 1 > k
      BY <1>1, <1>3, <3>1, <3>2
    <3>3. CASE i + 1 <= k
      <4>1. i \in 1 .. k - 1 /\ i + 1 \in 1 .. k
        BY <1>1, <3>3
      <4>2. u[i + 1] = s[i + 1] /\ Tail(s)[i] = s[i + 1]
        BY <1>1, <2>1, <4>1
      <4> QED
        BY <2>1, <2>5, <3>1, <4>1, <4>2 DEF No
    <3> QED
      BY <1>1, <3>2, <3>3
  <2>6. No(type, Tail(s)) => No(type, Tail(u))
    BY <2>4, <2>5 DEF No
  <2> QED
    BY <1>1, <2>2, <2>3, <2>6
<1> QED
  BY <1>1, <1>4, <1>5 DEF u

(* A sequence of one packet.                                               *)
LEMMA OnePacket ==
  ASSUME NEW x
  PROVE  /\ IsSequence(<<x>>) /\ DOMAIN <<x>> = {1} /\ <<x>>[1] = x
         /\ <<x>> # <<>>
         /\ Tail(<<x>>) = <<>>
         /\ \A type : x.type # type => No(type, <<x>>)
<1>1. DOMAIN <<x>> = {1} /\ <<x>>[1] = x /\ <<x>> # <<>> /\ Tail(<<x>>) = <<>>
  OBVIOUS
<1>2. IsSequence(<<x>>)
  <2>1. Append(<<>>, x) = <<x>>
    OBVIOUS
  <2> QED
    BY <2>1, EmptySequence, SentOneMore
<1>3. \A type : x.type # type => No(type, <<x>>)
  BY <1>1 DEF No
<1> QED
  BY <1>1, <1>2, <1>3

(* What a packet that is no CONNECT leads to                               *)
Follows(n, m) == /\ NetType(m) /\ m.toBroker = n.toBroker
                 /\ Answered(n) => Answered(m)
                 /\ Serving(n) => Serving(m)

(* The broker answers a packet with one, or not at all on a connection     *)
(* that the client has left.                                               *)
LEMMA PacketAnswered ==
  ASSUME NEW n, NetType(n), NEW live \in BOOLEAN, NEW x, x.type # "CONNACK"
  PROVE  LET m == Answer(n, live, <<x>>)
         IN  Follows(n, m) /\ (~ live => m = n)
<1> DEFINE s == n.toClient
           t == <<x>>
           u == s \o t
           y == [n EXCEPT !.toClient = u]
           m == Answer(n, live, t)
<1>1. m = IF live THEN y ELSE n
  BY DEF Answer
<1>2. IsSequence(t) /\ No("CONNACK", t)
  BY OnePacket
<1>3. IsSequence(s)
  BY DEF NetType
<1>4. /\ IsSequence(u)
      /\ No("CONNACK", s) => No("CONNACK", u)
      /\ s # <<>> => /\ u # <<>> /\ u[1] = s[1]
                     /\ No("CONNACK", Tail(s)) => No("CONNACK", Tail(u))
  <2> DEFINE type == "CONNACK"
  <2>1. No(type, t)
    BY <1>2
  <2> HIDE DEF s, t, type
  <2>2. /\ IsSequence(u)
        /\ No(type, s) => No(type, u)
        /\ s # <<>> => /\ u # <<>> /\ u[1] = s[1]
                       /\ No(type, Tail(s)) => No(type, Tail(u))
    BY <1>2, <1>3, <2>1, NoneJoined
  <2> QED
    BY <2>2 DEF type
<1> HIDE DEF t, u
<1>5. /\ NetType(y) /\ y.toBroker = n.toBroker /\ y.toClient = u
  BY <1>4 DEF NetType
<1> HIDE DEF y
<1>6. Follows(n, y)
  BY <1>4, <1>5 DEF Follows, Answered, Serving
<1>7. Follows(n, n)
  BY DEF Follows
<1> HIDE DEF m
<1>8. Follows(n, m) /\ (~ live => m = n)
  BY <1>1, <1>6, <1>7
<1> QED
  BY <1>8 DEF m, t

(* The broker takes any packet but CONNECT.                                *)
LEMMA Taking ==
  ASSUME NEW n, NetType(n), NEW live \in BOOLEAN, NEW packet,
         packet.type # "CONNECT", Take(n, live, packet), SessionType
  PROVE  Follows(n, net') /\ (~ live => net' = n) /\ SessionType'
<1>1. Follows(n, n)
  BY DEF Follows
<1>2. /\ IsFiniteSet(DOMAIN session.inflight)
      /\ session = [held |-> session.held, inflight |-> session.inflight]
  BY DEF SessionType
<1>3. ASSUME NEW type, type # "CONNACK", NEW id
      PROVE  LET m == Answer(n, live, <<Ack(type, id)>>)
             IN  Follows(n, m) /\ (~ live => m = n)
  <2> DEFINE x == Ack(type, id)
  <2>1. x.type # "CONNACK"
    BY <1>3 DEF Ack, WireMessage
  <2> HIDE DEF x
  <2> QED
    BY <2>1, PacketAnswered DEF x
<1>4. CASE packet.type = "PUBLISH"
  <2>1. TakePublish(n, live, packet)
    BY <1>4 DEF Take
  <2>2. SessionType'
    BY <1>2, <2>1 DEF TakePublish, SessionType
  <2> DEFINE a == Answer(n, live, <<Ack("PUBACK", packet.id)>>)
             b == Answer(n, live, <<Ack("PUBREC", packet.id)>>)
  <2>3. net' = n \/ net' = a \/ net' = b
    BY <2>1 DEF TakePublish
  <2>4. Follows(n, a) /\ (~ live => a = n) /\ Follows(n, b) /\ (~ live => b = n)
    BY <1>3
  <2> HIDE DEF a, b
  <2> QED
    BY <1>1, <2>2, <2>3, <2>4
<1>5. CASE packet.type \in {"PUBACK", "PUBCOMP"}
  <2>1. TakeConfirmation(n, packet)
    BY <1>5 DEF Take
  <2> DEFINE less == Delete(session.inflight, packet.id)
  <2>2. session' = [session EXCEPT !.inflight = less] /\ net' = n
    BY <2>1 DEF TakeConfirmation
  <2>3. IsFiniteSet(DOMAIN less)
    BY <1>2, FS_Subset, DOMAIN less \subseteq DOMAIN session.inflight
    DEF Delete
  <2> HIDE DEF less
  <2>4. SessionType'
    BY <1>2, <2>2, <2>3 DEF SessionType
  <2> QED
    BY <1>1, <2>2, <2>4
<1>6. CASE packet.type = "PUBREC"
  <2>1. TakePubRec(n, live, packet)
    BY <1>6 DEF Take
  <2>2. SessionType'
    <3> DEFINE less == [session.inflight EXCEPT ![packet.id].released = TRUE]
    <3>1. session' = session \/ session' = [session EXCEPT !.inflight = less]
      BY <2>1 DEF TakePubRec
    <3>2. DOMAIN less = DOMAIN session.inflight
      OBVIOUS
    <3> HIDE DEF less
    <3> QED
      BY <1>2, <3>1, <3>2 DEF SessionType
  <2> DEFINE a == Answer(n, live, <<Ack("PUBREL", packet.id)>>)
  <2>3. net' = a
    BY <2>1 DEF TakePubRec
  <2>4. Follows(n, a) /\ (~ live => a = n)
    BY <1>3
  <2> HIDE DEF a
  <2> QED
    BY <2>2, <2>3, <2>4
<1>7. CASE packet.type = "PUBREL"
  <2> DEFINE a == Answer(n, live, <<Ack("PUBCOMP", packet.id)>>)
  <2>1. net' = a /\ session' = [session EXCEPT !.held = @ \ {packet.id}]
    BY <1>7 DEF Take, Reply
  <2>2. SessionType'
    BY <1>2, <2>1 DEF SessionType
  <2>3. Follows(n, a) /\ (~ live => a = n)
    BY <1>3
  <2> HIDE DEF a
  <2> QED
    BY <2>1, <2>2, <2>3
<1>8. CASE packet.type \in {"SUBSCRIBE", "UNSUBSCRIBE", "PINGREQ"}
  <2> DEFINE a == Answer(n, live, <<Ack("SUBACK", packet.id)>>)
             b == Answer(n, live, <<Ack("UNSUBACK", packet.id)>>)
             e == Answer(n, live, <<Ack("PINGRESP", 0)>>)
  <2>1. (net' = a \/ net' = b \/ net' = e) /\ session' = session
    BY <1>8 DEF Take, Reply
  <2>2. SessionType'
    BY <1>2, <2>1 DEF SessionType
  <2>3. /\ Follows(n, a) /\ (~ live => a = n)
        /\ Follows(n, b) /\ (~ live => b = n)
        /\ Follows(n, e) /\ (~ live => e = n)
    BY <1>3
  <2> HIDE DEF a, b, e
  <2> QED
    BY <2>1, <2>2, <2>3
<1>9. CASE packet.type \notin {"CONNECT", "PUBLISH", "PUBACK", "PUBCOMP",
                               "PUBREC", "PUBREL", "SUBSCRIBE", "UNSUBSCRIBE",
                               "PINGREQ"}
  <2> DEFINE m == [n EXCEPT !.closed = TRUE]
  <2>1. TakeDisconnect(n, live)
    BY <1>9 DEF Take
  <2>2. net' = (IF live THEN m ELSE n) /\ session' = session
    BY <2>1 DEF TakeDisconnect
  <2>3. /\ NetType(m) /\ m.toBroker = n.toBroker /\ m.toClient = n.toClient
    BY DEF NetType
  <2> HIDE DEF m
  <2>4. Follows(n, m)
    BY <2>3 DEF Follows, Answered, Serving
  <2>5. SessionType'
    BY <1>2, <2>2 DEF SessionType
  <2> QED
    BY <1>1, <2>2, <2>4, <2>5
<1> QED
  BY <1>4, <1>5, <1>6, <1>7, <1>8, <1>9

(* What is in flight is messages and their releases.                       *)
LEMMA InflightSent ==
  ASSUME NEW s, IsFiniteSet(DOMAIN s.inflight)
  PROVE  LET more == Unacknowledged(s)
         IN  /\ IsSequence(more)
             /\ \A i \in DOMAIN more : more[i].type \in {"PUBLISH", "PUBREL"}
<1> DEFINE ids == Ascending(DOMAIN s.inflight)
           l == Cardinality(DOMAIN s.inflight)
           more == Unacknowledged(s)
<1>1. l \in Nat
  BY FS_CardinalityType
<1>2. DOMAIN ids = 1 .. l
  BY DEF Ascending
<1>3. more = [i \in DOMAIN ids |-> InflightPacket(s, ids[i])]
  BY DEF Unacknowledged
<1>4. ASSUME NEW id
      PROVE  InflightPacket(s, id).type \in {"PUBLISH", "PUBREL"}
  BY DEF InflightPacket, Ack, WireMessage
<1> HIDE DEF ids, l, more
<1>5. DOMAIN more = 1 .. l /\ more = [i \in 1 .. l |-> more[i]]
  BY <1>2, <1>3
<1>6. IsSequence(more)
  <2>1. more \in [1 .. l -> Range(more)]
    BY <1>5 DEF Range
  <2> QED
    BY <1>1, <2>1 DEF IsSequence
<1>7. \A i \in DOMAIN more : more[i].type \in {"PUBLISH", "PUBREL"}
  BY <1>3, <1>4, <1>5
<1> QED
  BY <1>6, <1>7 DEF more

(* A CONNECT is answered by a CONNACK, and then by what is in flight.      *)
LEMMA ConnectTaken ==
  ASSUME NEW n, NetType(n), NEW live \in BOOLEAN, NEW packet,
         packet.type = "CONNECT", Take(n, live, packet), SessionType
  PROVE  /\ SessionType'
         /\ NetType(net') /\ net'.toBroker = n.toBroker
         /\ ~ live => /\ net'.toClient = n.toClient /\ net'.closed = n.closed
                      /\ ~ net'.accepted
         /\ live /\ n.toClient = <<>> =>
                /\ net'.toClient # <<>> /\ net'.toClient[1].type = "CONNACK"
                /\ No("CONNACK", Tail(net'.toClient))
<1> DEFINE up == WireMessage("CONNACK", 0, 0)
           bad == WireMessage("CONNACK", 0, 3)
           type == "CONNACK"
<1>1. /\ IsFiniteSet(DOMAIN session.inflight)
      /\ session = [held |-> session.held, inflight |-> session.inflight]
      /\ IsSequence(n.toClient)
  BY DEF SessionType, NetType
<1>2. \/ Accept(n, live, packet.body)
      \/ Refuse(n, live)
  BY DEF Take
<1>3. up.type = type /\ bad.type = type
  BY DEF WireMessage
<1>4. CASE Accept(n, live, packet.body)
  <2> DEFINE s == IF packet.body THEN NoSession ELSE session
             more == Unacknowledged(s)
             packets == <<up>> \o more
             to == n.toClient \o packets
             m == [n EXCEPT !.toClient = to, !.accepted = TRUE]
             m0 == [n EXCEPT !.accepted = FALSE]
  <2>1. session' = s /\ net' = [Answer(n, live, packets) EXCEPT !.accepted = live]
    BY <1>4 DEF Accept
  <2>2. IsFiniteSet(DOMAIN s.inflight)
        /\ s = [held |-> s.held, inflight |-> s.inflight]
    BY <1>1, FS_EmptySet DEF NoSession, EmptyMap
  <2>3. SessionType'
    <3> HIDE DEF s
    <3> QED
      BY <2>1, <2>2 DEF SessionType
  <2>4. IsSequence(more) /\ No(type, more)
    <3> HIDE DEF s
    <3> QED
      BY <2>2, InflightSent DEF No
  <2>5. /\ IsSequence(<<up>>) /\ <<up>> # <<>> /\ <<up>>[1] = up
        /\ No(type, Tail(<<up>>))
    BY OnePacket, EmptySequence
  <2> HIDE DEF more, up, s
  <2>6. /\ IsSequence(packets) /\ packets # <<>> /\ packets[1] = up
        /\ No(type, Tail(packets))
    <3> DEFINE a == <<up>>
    <3>1. /\ IsSequence(a) /\ a # <<>> /\ a[1] = up /\ No(type, Tail(a))
      BY <2>5
    <3> HIDE DEF a, type
    <3> DEFINE u == a \o more
    <3>2. /\ IsSequence(u)
          /\ No(type, a) => No(type, u)
          /\ a # <<>> => /\ u # <<>> /\ u[1] = a[1]
                         /\ No(type, Tail(a)) => No(type, Tail(u))
      BY <2>4, <3>1, NoneJoined
    <3> QED
      BY <3>1, <3>2 DEF a
  <2> HIDE DEF packets
  <2>7. IsSequence(to) /\ (n.toClient = <<>> => to = packets)
    <3>1. IsSequence(to)
      BY <1>1, <2>6, Joined
    <3>2. packets \in Seq(Range(packets))
      BY <2>6 DEF IsSequence
    <3> QED
      BY <3>1, <3>2
  <2>8. net' = IF live THEN m ELSE m0
    BY <2>1 DEF Answer, NetType
  <2> HIDE DEF to
  <2>9. /\ NetType(m) /\ m.toBroker = n.toBroker /\ m.toClient = to
        /\ NetType(m0) /\ m0.toBroker = n.toBroker
        /\ m0.toClient = n.toClient /\ m0.closed = n.closed /\ ~ m0.accepted
    BY <2>7 DEF NetType
  <2> HIDE DEF m, m0
  <2> QED
    BY <1>3, <2>3, <2>6, <2>7, <2>8, <2>9
<1>5. CASE Refuse(n, live)
  <2> DEFINE to == n.toClient \o <<bad>>
             m == [n EXCEPT !.toClient = to, !.closed = TRUE]
  <2>1. live /\ net' = m /\ session' = session
    BY <1>5 DEF Refuse, Answer, NetType
  <2>2. /\ IsSequence(<<bad>>) /\ <<bad>> # <<>> /\ <<bad>>[1] = bad
        /\ No(type, Tail(<<bad>>))
    BY OnePacket, EmptySequence
  <2> HIDE DEF bad
  <2>3. IsSequence(to) /\ (n.toClient = <<>> => to = <<bad>>)
    <3> DEFINE b == <<bad>>
    <3>1. IsSequence(b)
      BY <2>2
    <3>2. b \in Seq(Range(b))
      BY <3>1 DEF IsSequence
    <3> HIDE DEF b
    <3>3. IsSequence(n.toClient \o b)
      BY <1>1, <3>1, Joined
    <3>4. n.toClient = <<>> => n.toClient \o b = b
      BY <3>2
    <3> QED
      BY <3>3, <3>4 DEF b
  <2> HIDE DEF to
  <2>4. NetType(m) /\ m.toBroker = n.toBroker /\ m.toClient = to
    BY <2>3 DEF NetType
  <2>5. SessionType'
    BY <1>1, <2>1 DEF SessionType
  <2> HIDE DEF m
  <2> QED
    BY <1>3, <2>1, <2>2, <2>3, <2>4, <2>5
<1> QED
  BY <1>2, <1>4, <1>5

(* A step of the broker changes nothing but the network and its session.   *)
LEMMA NetKept ==
  ASSUME IInv, client' = client, results' = results, SessionType',
         NetType(net'), NetRight(client, net')
  PROVE  IInv'
<1>1. /\ Right(client, net, results, 1) /\ Settled(client) /\ Between(client)
  BY DEF IInv
<1>2. Right(client, net', results, 1)
  BY <1>1 DEF Right
<1> QED
  BY <1>1, <1>2 DEF IInv

(* The broker reads a packet of the current connection,                    *)
LEMMA BrokerReadsKept == ASSUME IInv, BrokerReads PROVE IInv'
<1> DEFINE packet == Head(net.toBroker)
           rest == IF packet.type = "CONNECT" THEN <<>> ELSE net.residual
           t == Tail(net.toBroker)
           n == [net EXCEPT !.toBroker = t, !.residual = rest]
           live == TRUE
<1>1. /\ Take(n, live, packet) /\ net.toBroker # <<>>
      /\ client' = client /\ results' = results
  BY DEF BrokerReads, Unread
<1>2. /\ NetType(net) /\ NetRight(client, net) /\ SessionType
      /\ IsSequence(net.toBroker)
  BY DEF IInv, Right, NetType
<1>3. /\ IsSequence(t) /\ Len(net.toBroker) \in Nat /\ Len(net.toBroker) >= 1
      /\ DOMAIN net.toBroker = 1 .. Len(net.toBroker)
      /\ DOMAIN t = 1 .. Len(net.toBroker) - 1
      /\ \A i \in 1 .. Len(net.toBroker) - 1 : t[i] = net.toBroker[i + 1]
      /\ packet = net.toBroker[1]
  BY <1>1, <1>2, Tailed
<1>4. /\ No("CONNECT", net.toBroker) => packet.type # "CONNECT" /\ No("CONNECT", t)
  BY <1>3 DEF No
<1> HIDE DEF packet, rest, t
<1>5. NetType(n) /\ n.toBroker = t /\ n.toClient = net.toClient
  BY <1>2, <1>3 DEF NetType
<1>6. live \in BOOLEAN
  OBVIOUS
<1> HIDE DEF n, live
<1>7. CASE packet.type = "CONNECT"
  <2>1. /\ SessionType'
        /\ NetType(net') /\ net'.toBroker = n.toBroker
        /\ live /\ n.toClient = <<>> =>
                /\ net'.toClient # <<>> /\ net'.toClient[1].type = "CONNACK"
                /\ No("CONNACK", Tail(net'.toClient))
    BY <1>1, <1>2, <1>5, <1>6, <1>7, ConnectTaken
  <2>2. Asking(net) => Answered(net')
    BY <1>5, <2>1 DEF Asking, Answered, live, t
  <2>3. ~ Fresh(net) /\ ~ Answered(net) /\ ~ Serving(net)
    BY <1>1, <1>4, <1>7 DEF Fresh, Answered, Serving
  <2>4. NetRight(client, net')
    BY <1>2, <2>2, <2>3 DEF NetRight
  <2> QED
    BY <1>1, <2>1, <2>4, NetKept
<1>8. CASE packet.type # "CONNECT"
  <2>1. Follows(n, net') /\ SessionType'
    BY <1>1, <1>2, <1>5, <1>6, <1>8, Taking
  <2>2. /\ Answered(net) => Answered(n)
        /\ Serving(net) => Serving(n)
    BY <1>4, <1>5 DEF Answered, Serving
  <2>3. ~ Fresh(net) /\ ~ Asking(net)
    BY <1>1, <1>3, <1>8 DEF Fresh, Asking
  <2>4. NetRight(client, net') /\ NetType(net')
    BY <1>2, <2>1, <2>2, <2>3 DEF NetRight, Follows
  <2> QED
    BY <1>1, <2>1, <2>4, NetKept
<1> QED
  BY <1>7, <1>8

(* What old connections carried changes nothing on the current one.        *)
LEMMA SameNet ==
  ASSUME NetRight(client, net),
         NEW m, m.toBroker = net.toBroker, m.toClient = net.toClient,
         m.closed = net.closed, m.accepted = net.accepted \/ ~ m.accepted
  PROVE  NetRight(client, m)
<1>1. /\ Fresh(net) => Fresh(m)
      /\ Asking(net) => Asking(m)
      /\ Answered(net) => Answered(m)
      /\ Serving(net) => Serving(m)
  BY DEF Fresh, Asking, Answered, Serving
<1> QED
  BY <1>1 DEF NetRight

(* reads one of an earlier connection,                                     *)
LEMMA BrokerReadsOldKept == ASSUME IInv, BrokerReadsOld PROVE IInv'
<1> DEFINE packet == Head(net.residual)
           t == Tail(net.residual)
           n == [net EXCEPT !.residual = t]
           live == FALSE
<1>1. /\ Take(n, live, packet) /\ client' = client /\ results' = results
  BY DEF BrokerReadsOld
<1>2. NetType(net) /\ NetRight(client, net) /\ SessionType
  BY DEF IInv, Right
<1> HIDE DEF packet, t
<1>3. /\ NetType(n) /\ n.toBroker = net.toBroker /\ n.toClient = net.toClient
      /\ n.closed = net.closed /\ n.accepted = net.accepted
  BY <1>2 DEF NetType
<1>4. live \in BOOLEAN /\ ~ live
  OBVIOUS
<1> HIDE DEF n, live
<1>5. CASE packet.type = "CONNECT"
  <2>1. /\ SessionType'
        /\ NetType(net') /\ net'.toBroker = n.toBroker
        /\ ~ live => /\ net'.toClient = n.toClient /\ net'.closed = n.closed
                     /\ ~ net'.accepted
    BY <1>1, <1>2, <1>3, <1>4, <1>5, ConnectTaken
  <2>2. NetRight(client, net')
    BY <1>2, <1>3, <1>4, <2>1, SameNet
  <2> QED
    BY <1>1, <2>1, <2>2, NetKept
<1>6. CASE packet.type # "CONNECT"
  <2>1. SessionType' /\ net' = n
    BY <1>1, <1>2, <1>3, <1>4, <1>6, Taking
  <2>2. NetRight(client, net')
    BY <1>2, <1>3, <2>1, SameNet
  <2> QED
    BY <1>1, <1>3, <2>1, <2>2, NetKept
<1> QED
  BY <1>5, <1>6

(* never gets it,                                                          *)
LEMMA LoseOldKept == ASSUME IInv, LoseOld PROVE IInv'
<1>1. /\ net' = [net EXCEPT !.residual = <<>>] /\ client' = client
      /\ results' = results /\ session' = session
  BY DEF LoseOld, history
<1>2. NetType(net) /\ NetRight(client, net) /\ SessionType
  BY DEF IInv, Right
<1>3. /\ NetType(net') /\ net'.toBroker = net.toBroker
      /\ net'.toClient = net.toClient /\ net'.closed = net.closed
      /\ net'.accepted = net.accepted
  BY <1>1, <1>2 DEF NetType
<1>4. NetRight(client, net') /\ SessionType'
  BY <1>1, <1>2, <1>3, SameNet DEF SessionType
<1> QED
  BY <1>1, <1>3, <1>4, NetKept

(* A broker sends of its own accord only once it has accepted.             *)
LEMMA AnswerKept ==
  ASSUME IInv, NEW live \in BOOLEAN, live => net.accepted,
         NEW x, x.type # "CONNACK", net' = Answer(net, live, <<x>>),
         client' = client, results' = results, SessionType'
  PROVE  IInv'
<1>1. NetType(net) /\ NetRight(client, net)
  BY DEF IInv, Right
<1>2. Follows(net, net') /\ (~ live => net' = net)
  BY <1>1, PacketAnswered
<1>3. live => ~ Fresh(net) /\ ~ Asking(net)
  BY DEF Fresh, Asking
<1>4. NetType(net') /\ NetRight(client, net')
  BY <1>1, <1>2, <1>3 DEF NetRight, Follows
<1> QED
  BY <1>4, NetKept

(* publishes a message,                                                    *)
LEMMA BrokerPublishesKept == ASSUME IInv, BrokerPublishes PROVE IInv'
<1> DEFINE used == DOMAIN session.inflight
           id == CHOOSE i \in 1 .. Cardinality(used) + 1 : i \notin used
           live == net.accepted /\ ~ net.closed
<1>1. PICK m \in Inbound \ requested :
          /\ session' = IF QoS[m] = 0 THEN session
                        ELSE [session EXCEPT !.inflight =
                                 Put(@, id, [body |-> m, released |-> FALSE])]
          /\ net' = Answer(net, live,
                           <<WireMessage("PUBLISH",
                                         IF QoS[m] = 0 THEN 0 ELSE id, m)>>)
          /\ client' = client /\ results' = results
  BY DEF BrokerPublishes
<1> HIDE DEF id
<1> DEFINE x == WireMessage("PUBLISH", IF QoS[m] = 0 THEN 0 ELSE id, m)
           more == Put(session.inflight, id, [body |-> m, released |-> FALSE])
<1>2. net' = Answer(net, live, <<x>>)
      /\ (session' = session \/ session' = [session EXCEPT !.inflight = more])
  BY <1>1
<1>3. x.type # "CONNACK"
  BY DEF WireMessage
<1>4. /\ IsFiniteSet(used)
      /\ session = [held |-> session.held, inflight |-> session.inflight]
      /\ NetType(net)
  BY DEF IInv, SessionType, Right
<1>5. IsFiniteSet(DOMAIN more)
  <2>1. DOMAIN more = used \cup {id}
    BY DEF Put
  <2> QED
    BY <1>4, <2>1, FS_AddElement
<1> HIDE DEF x, more
<1>6. SessionType'
  BY <1>2, <1>4, <1>5 DEF SessionType
<1>7. live \in BOOLEAN /\ (live => net.accepted)
  BY <1>4 DEF NetType
<1> HIDE DEF live
<1> QED
  BY <1>1, <1>2, <1>3, <1>6, <1>7, AnswerKept

(* or errs.                                                                *)
LEMMA BrokerErrsKept == ASSUME IInv, BrokerErrs PROVE IInv'
<1>1. PICK type \in {"malformed", "DISCONNECT"} :
          net' = Answer(net, TRUE, <<Ack(type, 0)>>)
  BY DEF BrokerErrs
<1>2. /\ net.accepted /\ client' = client /\ results' = results
      /\ session' = session
  BY DEF BrokerErrs, history
<1> DEFINE x == Ack(type, 0)
           live == TRUE
<1>3. x.type # "CONNACK"
  BY DEF Ack, WireMessage
<1>4. SessionType'
  BY <1>2 DEF IInv, SessionType
<1>5. net' = Answer(net, live, <<x>>) /\ live \in BOOLEAN
      /\ (live => net.accepted)
  BY <1>1, <1>2
<1> HIDE DEF x, live
<1> QED
  BY <1>2, <1>3, <1>4, <1>5, AnswerKept

-----------------------------------------------------------------------------
(* The theorems                                                            *)
LEMMA InitRight == ASSUME Init PROVE IInv
<1>1. PICK reaction \in ReactionChoices :
          client = ClientImpl([sent |-> EmptyMap, received |-> EmptyMap],
                              0, reaction)
  BY DEF Init
<1>2. reaction \in Reactions
  BY SystemAssumption
<1>3. /\ client.reaction = reaction /\ ~ client.connected
      /\ client.socket = "none" /\ client.attempt = 0 /\ client.hosts = 0
      /\ client.queue = <<>> /\ ~ client.draining /\ ~ client.notify
      /\ ~ client.connectTimer /\ ~ client.sendPinger.armed
      /\ ~ client.receivePinger.armed
      /\ client.sent = EmptyMap /\ client.stored.sent = EmptyMap
      /\ client.out = <<>> /\ client.calls = <<>> /\ ~ client.threw
  BY <1>1 DEF ClientImpl, NewPinger
<1>4. ClientType(client)
  BY <1>1, <1>2, EmptySequence
  DEF ClientType, ClientImpl, NewPinger, PingerType, Ack, WireMessage
<1>5. NetType(net)
  BY EmptySequence DEF Init, NetType
<1>6. results \in Results
  BY DEF Init, Results, ResultType, NoResult
<1>7. /\ Keeping(client) /\ TimersRight(client) /\ HostsRight(client)
      /\ QueueRight(client) /\ NetRight(client, net)
      /\ EarlyRight(client, results, 1)
      /\ Settled(client) /\ Between(client)
  BY <1>3, KeptNothing, NothingWaits
  DEF Keeping, TimersRight, HostsRight, QueueRight, NetRight, EarlyRight,
      Settled, Between
<1>8. Attempting(client)
  BY <1>3, ClientAssumption DEF Attempting
<1>9. Answering(client, results, 1)
  <2>1. ASSUME NEW a \in 1 .. MaxAttempts
        PROVE  Untouched(results[a]) /\ a > 0
    BY DEF Init, NoResult, Called, Untouched
  <2> QED
    BY <1>3, <2>1 DEF Answering
<1>10. SessionType
  BY FS_EmptySet DEF Init, SessionType, NoSession, EmptyMap
<1> QED
  BY <1>4, <1>5, <1>6, <1>7, <1>8, <1>9, <1>10 DEF IInv, Right

(* Every step keeps the invariant.                                         *)
LEMMA NextRight == ASSUME IInv, [Next]_vars PROVE IInv'
<1>1. CASE UNCHANGED vars
  <2>1. /\ client' = client /\ net' = net /\ session' = session
        /\ results' = results
    BY <1>1 DEF vars, history
  <2>2. SessionType' /\ NetType(net') /\ NetRight(client, net')
    BY <2>1 DEF IInv, SessionType, Right
  <2> QED
    BY <2>1, <2>2, NetKept
<1>2. CASE Application
  BY <1>2, AppConnectKept, AppSendKept, AppRequestKept, AppDisconnectKept,
     ReloadKept DEF Application
<1>3. CASE Environment
  <2>1. CASE Break
    BY <2>1, CloseKept DEF Break
  <2>2. CASE Closed
    BY <2>2, CloseKept DEF Closed, Closing
  <2> QED
    BY <1>3, <2>1, <2>2, OpenKept, DialFailsKept, DeliverKept,
       ConnectTimerKept, RequestTimerKept, PingerKept DEF Environment
<1>4. CASE Broker
  BY <1>4, BrokerReadsKept, BrokerReadsOldKept, LoseOldKept,
     BrokerPublishesKept, BrokerErrsKept DEF Broker
<1> QED
  BY <1>1, <1>2, <1>3, <1>4 DEF Next

(* The client's fields, the packets on their way and the callbacks made so *)
(* far agree with the client's phase after every turn.                     *)
THEOREM Invariance == Spec => []IInv
<1>1. Init => IInv
  BY InitRight
<1>2. IInv /\ [Next]_vars => IInv'
  BY NextRight
<1> QED
  BY <1>1, <1>2, PTL DEF Spec

(* No timer outlives the connection that set it: every way a connection    *)
(* ends goes through disconnected, which stops all three.                  *)
THEOREM TimersEnd == Spec => []NoStaleTimer
<1>1. IInv => NoStaleTimer
  BY DEF IInv, Right, TimersRight, NoStaleTimer
<1> QED
  BY <1>1, Invariance, PTL

(* Once connected, the client ends every turn with an empty queue, also    *)
(* when a callback scheduled something while the queue was being drained.  *)
THEOREM QueueDrained == Spec => []NothingWaitsWhileConnected
<1>1. IInv => NothingWaitsWhileConnected
  BY DEF IInv, Settled, NothingWaitsWhileConnected
<1> QED
  BY <1>1, Invariance, PTL

(* Every connect() is answered exactly once, by onSuccess or by onFailure, *)
(* and every onSuccess by one onConnectionLost when the connection ends;   *)
(* until it is answered, the timer that ends it runs.  The page must not   *)
(* be left before, nor disconnect() called while it is connecting, and     *)
(* every message that is kept until it is acknowledged must be encodable:  *)
(* one that is not makes the CONNACK handler throw before onSuccess.       *)
THEOREM AnsweredOnce ==
  ASSUME FewMisspelt
  PROVE  Spec => []ConnectAnsweredOnce
<1>1. IInv => ConnectAnsweredOnce
  <2> SUFFICES ASSUME IInv, Listening,
                      NEW a \in 1 .. MaxAttempts, Clear(results, a)
               PROVE  IF /\ a <= client.attempt
                         /\ a < client.attempt \/ client.socket = "none"
                      THEN Final(results[a])
                      ELSE /\ Called(results[a],
                                     IF a = client.attempt /\ client.connected
                                     THEN 1 ELSE 0)
                           /\ a = client.attempt
                                  => client.connected \/ client.connectTimer
    BY DEF ConnectAnsweredOnce, NoEarly, Clear, Final, Called
  <2>1. /\ Answering(client, results, 1) /\ Listens(client)
        /\ client.attempt \in Nat
        /\ client.connected => client.socket # "none"
        /\ client.connected \/ client.connectTimer \/ client.socket = "none"
    BY DEF IInv, Right, ClientType, QueueRight, TimersRight, Listening, Listens
  <2>2. /\ a > client.attempt => Called(results[a], 0)
        /\ a < client.attempt => Final(results[a])
        /\ a = client.attempt => Phase(client, results[a], 1)
    BY <2>1 DEF Answering, Untouched
  <2>4. CASE a = client.attempt
    BY <2>1, <2>2, <2>4 DEF Phase
  <2>5. CASE a # client.attempt
    BY <2>1, <2>2, <2>5
  <2> QED
    BY <2>4, <2>5
<1> QED
  BY <1>1, Invariance, PTL
-----------------------------------------------------------------------------
(* What the storage holds.  An acknowledgement of a request removes from   *)
(* memory whatever has its identifier, so the invariant follows each       *)
(* identifier on its way: what the client sent (Ours) or the broker's      *)
(* answer to it (Theirs) is under way at most once, and belongs to what    *)
(* the client keeps under it.                                              *)
Requests == {"SUBSCRIBE", "UNSUBSCRIBE"}

Ours(p) == \/ p.type = "PUBLISH" /\ QoS[p.body] # 0
           \/ p.type \in Requests \cup {"PUBREL"}

Theirs(p) == p.type \in {"PUBACK", "PUBREC", "PUBCOMP", "SUBACK", "UNSUBACK"}

OnRequest(p) == p.type \in Requests \cup {"SUBACK", "UNSUBACK"}

Named(sent, p) == /\ p.id \in DOMAIN sent
                  /\ sent[p.id].type \in Requests <=> OnRequest(p)

Exchanges(sent, n) ==
    /\ \A i \in DOMAIN n.toBroker : Ours(n.toBroker[i]) =>
           /\ Named(sent, n.toBroker[i])
           /\ \A j \in DOMAIN n.toBroker :
                  /\ Ours(n.toBroker[j])
                  /\ n.toBroker[j].id = n.toBroker[i].id
                  => i = j
           /\ \A j \in DOMAIN n.toClient :
                  Theirs(n.toClient[j]) => n.toClient[j].id # n.toBroker[i].id
    /\ \A i \in DOMAIN n.toClient : Theirs(n.toClient[i]) =>
           /\ Named(sent, n.toClient[i])
           /\ \A j \in DOMAIN n.toClient :
                  /\ Theirs(n.toClient[j])
                  /\ n.toClient[j].id = n.toClient[i].id
                  => i = j

Free(id, n) ==
    /\ \A i \in DOMAIN n.toBroker : Ours(n.toBroker[i]) => n.toBroker[i].id # id
    /\ \A i \in DOMAIN n.toClient : Theirs(n.toClient[i]) => n.toClient[i].id # id

NoExchange(n) == /\ \A i \in DOMAIN n.toBroker : ~ Ours(n.toBroker[i])
                 /\ \A i \in DOMAIN n.toClient : ~ Theirs(n.toClient[i])

Calm(queue) == \A i \in DOMAIN queue : ~ Ours(queue[i])

Linked(c, n) ==
    c.socket = "open" => IF c.connected THEN Exchanges(c.sent, n)
                                        ELSE NoExchange(n)

Traffic(c, n) == Calm(c.queue) /\ Linked(c, Wire(n, c.out))

(* What is kept in memory and in the storage                               *)
Entries(sent) == \A id \in DOMAIN sent :
                     /\ sent[id].id = id
                     /\ sent[id].type \in Requests \cup {"PUBLISH"}

Publications(sent) == {id \in DOMAIN sent : sent[id].type = "PUBLISH"}

Mirrored(c) ==
    /\ c.stored.sent = [id \in Publications(c.sent) |-> c.sent[id]]
    /\ c.stored.received = c.received

Memory(c) == Entries(c.sent) /\ Mirrored(c)

Fit(sent) == \A id \in DOMAIN sent : id < IdSpace

SameMemory(c, d) == /\ d.sent = c.sent /\ d.received = c.received
                    /\ d.stored = c.stored

(* A message that may be sent without another of its identifier            *)
Fits(c, n, m) ==
    Ours(m) => /\ c.connected /\ Named(c.sent, m)
               /\ m.id \in Nat /\ m.id < IdSpace /\ Free(m.id, Wire(n, c.out))

(* No exchange is under way where none has begun.                          *)
LEMMA NoneBegun ==
  ASSUME NEW n, NoExchange(n), NEW sent
  PROVE  Exchanges(sent, n) /\ \A id : Free(id, n)
BY DEF NoExchange, Exchanges, Free

(* Only the two directions of the connection matter.                       *)
LEMMA SameWay ==
  ASSUME NEW n, NEW w, w.toBroker = n.toBroker, w.toClient = n.toClient
  PROVE  /\ \A sent : Exchanges(sent, n) => Exchanges(sent, w)
         /\ NoExchange(n) => NoExchange(w)
         /\ \A id : Free(id, n) => Free(id, w)
BY DEF NoExchange, Exchanges, Free

(* An identifier that is not in use is free.                               *)
LEMMA UnusedFree ==
  ASSUME NEW sent, NEW n, Exchanges(sent, n), NEW id, id \notin DOMAIN sent
  PROVE  Free(id, n)
BY DEF Exchanges, Free, Named

(* A message of another identifier may be added to what is kept, ...       *)
LEMMA ExchangesPut ==
  ASSUME NEW sent, NEW n, Exchanges(sent, n), NEW id, NEW v,
         id \notin DOMAIN sent \/ (sent[id].type \in Requests
                                       <=> v.type \in Requests)
  PROVE  Exchanges(Put(sent, id, v), n)
<1>1. /\ DOMAIN Put(sent, id, v) = DOMAIN sent \cup {id}
      /\ \A i \in DOMAIN sent \cup {id} :
             Put(sent, id, v)[i] = IF i = id THEN v ELSE sent[i]
  BY DEF Put
<1>2. \A p : Named(sent, p) => Named(Put(sent, id, v), p)
  BY <1>1 DEF Named
<1> QED
  BY <1>2 DEF Exchanges

(* ... or removed once its exchange has ended.                             *)
LEMMA ExchangesDelete ==
  ASSUME NEW sent, NEW n, Exchanges(sent, n), NEW id, Free(id, n)
  PROVE  Exchanges(Delete(sent, id), n)
<1>1. /\ DOMAIN Delete(sent, id) = DOMAIN sent \ {id}
      /\ \A i \in DOMAIN sent \ {id} : Delete(sent, id)[i] = sent[i]
  BY DEF Delete
<1>2. \A p : Named(sent, p) /\ p.id # id => Named(Delete(sent, id), p)
  BY <1>1 DEF Named
<1> QED
  BY <1>2 DEF Exchanges, Free

(* A packet goes out.                                                      *)
LEMMA WayOut ==
  ASSUME NEW n, NetType(n), NEW p, p.type \notin {"dial", "close"}
  PROVE  LET w == SocketStep(n, p)
         IN  /\ w.toClient = n.toClient
             /\ DOMAIN n.toBroker = 1 .. Len(n.toBroker)
             /\ Len(n.toBroker) \in Nat
             /\ DOMAIN w.toBroker = 1 .. Len(n.toBroker) + 1
             /\ \A i \in 1 .. Len(n.toBroker) : w.toBroker[i] = n.toBroker[i]
             /\ w.toBroker[Len(n.toBroker) + 1] = p
<1> DEFINE t == Append(n.toBroker, p)
<1>1. SocketStep(n, p) = [n EXCEPT !.toBroker = t]
  BY DEF SocketStep
<1>2. /\ DOMAIN n.toBroker = 1 .. Len(n.toBroker) /\ Len(n.toBroker) \in Nat
      /\ DOMAIN t = 1 .. Len(n.toBroker) + 1
      /\ \A i \in 1 .. Len(n.toBroker) : t[i] = n.toBroker[i]
      /\ t[Len(n.toBroker) + 1] = p
  BY Appended DEF NetType
<1> HIDE DEF t
<1>3. [n EXCEPT !.toBroker = t].toBroker = t
      /\ [n EXCEPT !.toBroker = t].toClient = n.toClient
  BY DEF NetType
<1> QED
  BY <1>1, <1>2, <1>3

(* What is not ours begins no exchange; what is ours begins one of its own.*)
LEMMA SentOn ==
  ASSUME NEW n, NetType(n), NEW p, p.type \notin {"dial", "close"}
  PROVE  LET w == SocketStep(n, p)
         IN  /\ ~ Ours(p) => /\ \A sent : Exchanges(sent, n) => Exchanges(sent, w)
                             /\ NoExchange(n) => NoExchange(w)
                             /\ \A id : Free(id, n) => Free(id, w)
             /\ Free(p.id, n) =>
                    \A sent : Exchanges(sent, n) /\ Named(sent, p)
                                  => Exchanges(sent, w)
             /\ \A id : Free(id, n) /\ id # p.id => Free(id, w)
<1> DEFINE w == SocketStep(n, p)
           l == Len(n.toBroker)
<1>1. /\ w.toClient = n.toClient /\ l \in Nat
      /\ DOMAIN n.toBroker = 1 .. l /\ DOMAIN w.toBroker = 1 .. l + 1
      /\ \A i \in 1 .. l : w.toBroker[i] = n.toBroker[i]
      /\ w.toBroker[l + 1] = p
  BY WayOut
<1> HIDE DEF w, l
<1>2. \A i \in DOMAIN w.toBroker : i \in DOMAIN n.toBroker \/ i = l + 1
  BY <1>1
<1>3. \A i \in DOMAIN n.toBroker : w.toBroker[i] = n.toBroker[i]
  BY <1>1
<1>4. ~ Ours(p) => /\ \A sent : Exchanges(sent, n) => Exchanges(sent, w)
                   /\ NoExchange(n) => NoExchange(w)
                   /\ \A id : Free(id, n) => Free(id, w)
  BY <1>1, <1>2, <1>3 DEF Exchanges, NoExchange, Free
<1>5. ASSUME Free(p.id, n), NEW sent, Exchanges(sent, n), Named(sent, p)
      PROVE  Exchanges(sent, w)
  BY <1>1, <1>2, <1>3, <1>5 DEF Exchanges, Free
<1>6. \A id : Free(id, n) /\ id # p.id => Free(id, w)
  BY <1>1, <1>2, <1>3 DEF Free
<1> QED
  BY <1>4, <1>5, <1>6 DEF w

-----------------------------------------------------------------------------
(* Losing a connection changes nothing that is kept.                       *)
LEMMA CallMemory ==
  ASSUME NEW c, ClientType(c), NEW cb, NEW arg
  PROVE  LET d == Call(c, cb, arg)
         IN  /\ ClientType(d) /\ SameMemory(c, d) /\ d.connected = c.connected
             /\ d.socket = c.socket /\ d.queue = c.queue /\ d.out = c.out
<1> DEFINE calls == Append(c.calls, <<cb, arg>>)
<1>1. IsSequence(calls)
  BY Appended DEF ClientType
<1>2. Call(c, cb, arg) = [c EXCEPT !.calls = calls]
  BY DEF Call
<1> HIDE DEF calls
<1> QED
  BY <1>1, <1>2 DEF ClientType, SameMemory

(* doConnect leaves it alone,                                              *)
LEMMA DialMemory ==
  ASSUME NEW c, ClientType(c)
  PROVE  LET d == doConnect(c)
         IN  /\ SameMemory(c, d) /\ ~ d.connected
             /\ d.socket = "connecting" /\ d.queue = c.queue
BY DEF ClientType, SameMemory, doConnect

(* and so do the callback that tells of the loss                           *)
LEMMA NotifyMemory ==
  ASSUME NEW c, ClientType(c), ~ c.connected, c.socket = "none", NEW cb
  PROVE  LET d == Notify(c, cb)
         IN  /\ SameMemory(c, d) /\ ~ d.connected
             /\ d.socket \in {"none", "connecting"} /\ d.queue = c.queue
<1> DEFINE told == Call(c, cb, c.attempt)
           count == told.attempt + 1
           opts == [told EXCEPT !.clean = c.clean, !.hosts = c.hosts,
                                !.hostIndex = 0, !.attempt = count]
<1>1. /\ ClientType(told) /\ SameMemory(c, told) /\ ~ told.connected
      /\ told.socket = "none" /\ told.queue = c.queue
  BY CallMemory
<1>2. Notify(c, cb) = c \/ Notify(c, cb) = told
      \/ Notify(c, cb) = connect(told, c.clean, c.hosts)
  BY DEF Notify
<1> HIDE DEF told
<1>3. connect(told, c.clean, c.hosts) = doConnect(opts)
  BY <1>1 DEF connect
<1>4. ClientType(opts) /\ SameMemory(told, opts) /\ opts.queue = told.queue
  <2>1. c.clean \in BOOLEAN /\ c.hosts \in Nat /\ count \in Nat
    BY <1>1 DEF ClientType
  <2> HIDE DEF count
  <2> QED
    BY <1>1, <2>1 DEF ClientType, SameMemory
<1> HIDE DEF opts
<1>5. LET d == doConnect(opts)
      IN  /\ SameMemory(opts, d) /\ ~ d.connected
          /\ d.socket = "connecting" /\ d.queue = opts.queue
  BY <1>4, DialMemory
<1> QED
  BY <1>1, <1>2, <1>3, <1>4, <1>5 DEF SameMemory

(* and _disconnected.                                                      *)
LEMMA LostMemory ==
  ASSUME NEW c, ClientType(c)
  PROVE  LET d == disconnected(c)
         IN  /\ SameMemory(c, d) /\ ~ d.connected
             /\ d.socket \in {"none", "connecting"} /\ d.queue = <<>>
<1> DEFINE out == IF c.socket = "open" THEN Append(c.out, Ack("close", 0))
                                       ELSE c.out
           left == [c EXCEPT !.sendPinger = cancel(@),
                             !.receivePinger = cancel(@),
                             !.connectTimer = FALSE,
                             !.queue = <<>>, !.draining = FALSE,
                             !.notify = FALSE, !.socket = "none", !.out = out]
           next == [left EXCEPT !.hostIndex = @ + 1]
           down == [left EXCEPT !.connected = FALSE]
<1>1. disconnected(c) = IF left.hosts > 0 /\ left.hostIndex < left.hosts - 1
                        THEN doConnect(next)
                        ELSE IF left.connected
                        THEN Notify(down, "onConnectionLost")
                        ELSE Notify(left, "onFailure")
  BY DEF disconnected, ClientType
<1>2. IsSequence(out) /\ IsSequence(<<>>)
  BY Appended, EmptySequence DEF ClientType
<1> HIDE DEF out
<1>3. /\ ClientType(left) /\ SameMemory(c, left) /\ left.socket = "none"
      /\ left.queue = <<>>
  BY <1>2 DEF ClientType, SameMemory, cancel, PingerType
<1> HIDE DEF left
<1>4. ClientType(next) /\ SameMemory(left, next) /\ next.queue = left.queue
  BY <1>3 DEF ClientType, SameMemory
<1>5. /\ ClientType(down) /\ SameMemory(left, down) /\ ~ down.connected
      /\ down.socket = "none" /\ down.queue = left.queue
  BY <1>3 DEF ClientType, SameMemory
<1> HIDE DEF next, down
<1> DEFINE d1 == doConnect(next)
           d2 == Notify(down, "onConnectionLost")
           d3 == Notify(left, "onFailure")
           Fine(d) == /\ SameMemory(c, d) /\ ~ d.connected
                      /\ d.socket \in {"none", "connecting"}
                      /\ d.queue = <<>>
<1>6. Fine(d1)
  BY <1>3, <1>4, DialMemory DEF SameMemory
<1>7. Fine(d2)
  BY <1>3, <1>5, NotifyMemory DEF SameMemory
<1>8. ~ left.connected => Fine(d3)
  BY <1>3, NotifyMemory DEF SameMemory
<1> HIDE DEF d1, d2, d3, Fine
<1>9. Fine(disconnected(c))
  BY <1>1, <1>6, <1>7, <1>8 DEF d1, d2, d3
<1> QED
  BY <1>9 DEF Fine

(* A connection that is lost carries nothing.                              *)
LEMMA LostTraffic ==
  ASSUME NEW c, ClientType(c), NEW d, d = disconnected(c), NEW n
  PROVE  SameMemory(c, d) /\ Traffic(d, n) /\ d.socket # "open"
<1>1. /\ SameMemory(c, d) /\ d.socket \in {"none", "connecting"}
      /\ d.queue = <<>>
  BY LostMemory
<1> QED
  BY <1>1 DEF Traffic, Calm, Linked

-----------------------------------------------------------------------------
(* Sending                                                                 *)
Wired(m) == [m EXCEPT !.id = @ % IdSpace]

(* Two bytes hold an identifier that fits.                                 *)
LEMMA WiredFacts ==
  ASSUME NEW m, IsPacket(m)
  PROVE  /\ Wired(m).type = m.type /\ Wired(m).type \notin {"dial", "close"}
         /\ Ours(Wired(m)) <=> Ours(m)
         /\ OnRequest(Wired(m)) <=> OnRequest(m)
         /\ m.id \in Nat /\ m.id < IdSpace => Wired(m).id = m.id
<1> DEFINE id == m.id % IdSpace
<1>1. m.id \in Nat /\ m.id < IdSpace => id = m.id
  BY ClientAssumption
<1> HIDE DEF id
<1>2. Wired(m) = [m EXCEPT !.id = id]
  BY DEF Wired, id
<1>3. /\ [m EXCEPT !.id = id].type = m.type /\ [m EXCEPT !.id = id].body = m.body
      /\ [m EXCEPT !.id = id].id = id /\ m.type \in Sendable
  BY DEF IsPacket
<1> QED
  BY <1>1, <1>2, <1>3 DEF Ours, OnRequest, Sendable

(* _socket_send                                                            *)
LEMMA SocketMemory ==
  ASSUME NEW c, ClientType(c), NEW m, IsPacket(m)
  PROVE  LET d == socket_send(c, m)
         IN  /\ ClientType(d) /\ SameMemory(c, d)
             /\ d.connected = c.connected /\ d.socket = c.socket
             /\ d.queue = c.queue /\ d.notify = c.notify
             /\ \/ d.threw /\ d.out = c.out
                \/ d.threw = c.threw /\ d.out = Append(c.out, Wired(m))
<1> DEFINE out == Append(c.out, Wired(m))
           p == reset(c.sendPinger)
           d1 == [c EXCEPT !.out = out, !.sendPinger = p]
<1>1. IsSequence(out) /\ p \in PingerType
  BY Appended, PingerReset DEF ClientType
<1>2. socket_send(c, m) = Throw(c) \/ socket_send(c, m) = d1
  BY DEF socket_send, Wired
<1> HIDE DEF out, p
<1>3. /\ ClientType(d1) /\ SameMemory(c, d1) /\ d1.connected = c.connected
      /\ d1.socket = c.socket /\ d1.queue = c.queue /\ d1.notify = c.notify
      /\ d1.out = out /\ d1.threw = c.threw
  BY <1>1 DEF ClientType, SameMemory
<1>4. /\ ClientType(Throw(c)) /\ SameMemory(c, Throw(c))
      /\ Throw(c).connected = c.connected
      /\ Throw(c).socket = c.socket /\ Throw(c).queue = c.queue
      /\ Throw(c).notify = c.notify /\ Throw(c).threw /\ Throw(c).out = c.out
  BY DEF ClientType, SameMemory, Throw
<1> HIDE DEF d1
<1> QED
  BY <1>2, <1>3, <1>4 DEF out

(* One message of the queue                                                *)
LEMMA NextMemory ==
  ASSUME NEW x, ClientType(x), NEW m, IsPacket(m)
  PROVE  LET y == SendNext(x, m)
         IN  /\ SameMemory(x, y)
             /\ y.connected => /\ x.connected
                               /\ \/ y.out = x.out
                                  \/ y.out = Append(x.out, Wired(m))
<1> DEFINE after == socket_send(x, m)
           quiet == [after EXCEPT !.notify = FALSE]
           back == [x EXCEPT !.queue = IF x.draining THEN <<m>> \o @ ELSE @]
<1>1. /\ ClientType(after) /\ SameMemory(x, after)
      /\ after.connected = x.connected
      /\ after.out = x.out \/ after.out = Append(x.out, Wired(m))
  BY SocketMemory
<1>2. \/ SendNext(x, m) = back \/ SendNext(x, m) = after
      \/ SendNext(x, m) = disconnected(quiet)
  BY DEF SendNext
<1>3. /\ SameMemory(x, back) /\ back.out = x.out
      /\ back.connected = x.connected
  BY DEF ClientType, SameMemory
<1> HIDE DEF after, back
<1>4. ClientType(quiet) /\ SameMemory(after, quiet)
  BY <1>1 DEF ClientType, SameMemory
<1> HIDE DEF quiet
<1>5. SameMemory(quiet, disconnected(quiet)) /\ ~ disconnected(quiet).connected
  BY <1>4, LostMemory
<1> QED
  BY <1>1, <1>2, <1>3, <1>4, <1>5 DEF SameMemory


(* The loop that drains the queue sends at most one message that is ours,  *)
(* the last.                                                               *)
LastOther(seq, id) == seq # <<>> /\ Ours(seq[Len(seq)]) => id # seq[Len(seq)].id

Ready(c, n, seq) ==
    /\ Exchanges(c.sent, Wire(n, c.out))
    /\ \A i \in DOMAIN seq : i < Len(seq) => ~ Ours(seq[i])
    /\ seq # <<>> => Fits(c, n, seq[Len(seq)])

LEMMA DrainedMemory ==
  ASSUME NEW base, NEW n, NEW res \in Results, NEW k \in {0, 1},
         Core(base, n, res, k), base.connected, base.draining, ~ base.threw,
         base.queue = <<>>,
         NEW seq, IsSequence(seq), AllSendable(seq),
         \A i \in DOMAIN seq : \/ Encodable(seq[i])
                               \/ i = Len(seq) /\ (base.notify => i > 1)
  PROVE  LET e == FoldLeft(SendNext, base, seq)
         IN  /\ SameMemory(base, e)
             /\ Ready(base, n, seq) /\ e.connected =>
                    /\ Exchanges(base.sent, Wire(n, e.out))
                    /\ \A id : Free(id, Wire(n, base.out)) /\ LastOther(seq, id)
                                   => Free(id, Wire(n, e.out))
<1>0. PICK f : Draining(f, base, n, res, k, seq)
  BY DrainWalk
<1> DEFINE l == Len(seq)
           w == Wire(n, base.out)
           ready == Ready(base, n, seq)
           Flow(x, i) ==
               /\ Exchanges(base.sent, Wire(n, x.out))
               /\ \A id : Free(id, w) /\ (i = l => LastOther(seq, id))
                              => Free(id, Wire(n, x.out))
<1>1. l \in Nat /\ DOMAIN seq = 1 .. l /\ (seq = <<>> <=> l = 0)
  BY Appended
<1>2. /\ f[0] = base
      /\ \A i \in 1 .. l : f[i] = SendNext(f[i - 1], seq[i])
      /\ FoldLeft(SendNext, base, seq) = f[l]
      /\ \A i \in 0 .. l : Core(f[i], n, res, k)
  BY <1>0 DEF Draining
<1> HIDE DEF l
<1> DEFINE T == {i \in 0 .. l : SameMemory(base, f[i])
                            /\ (ready /\ f[i].connected => Flow(f[i], i))}
<1>3. 0 \in T
  <2>1. SameMemory(base, base) /\ (ready => Flow(base, 0))
    BY DEF SameMemory, Ready
  <2> QED
    BY <1>1, <1>2, <2>1
<1>4. ASSUME NEW i \in 0 .. l - 1, i \in T PROVE i + 1 \in T
  <2> DEFINE x == f[i]
             m == seq[i + 1]
             y == SendNext(x, m)
             v == Wire(n, x.out)
             p == Wired(m)
  <2>1. i + 1 \in 1 .. l /\ i + 1 \in 0 .. l /\ (i + 1) - 1 = i /\ i # l
        /\ i \in Nat
    BY <1>1
  <2>2. f[i + 1] = y
    <3>1. f[i + 1] = SendNext(f[(i + 1) - 1], seq[i + 1])
      BY <1>2, <2>1, Zenon
    <3> QED
      BY <2>1, <3>1
  <2>3. /\ IsPacket(m)
        /\ ready => /\ i + 1 < l => ~ Ours(m)
                    /\ i + 1 = l => Fits(base, n, m)
    <3>1. i + 1 \in DOMAIN seq
      BY <1>1, <2>1
    <3>2. IsPacket(seq[i + 1])
      BY <3>1 DEF AllSendable
    <3>3. ready /\ i + 1 < l => ~ Ours(seq[i + 1])
      BY <3>1 DEF l, Ready
    <3>4. ready /\ i + 1 = l => Fits(base, n, seq[i + 1])
      <4> SUFFICES ASSUME ready, i + 1 = l PROVE Fits(base, n, seq[l])
        OBVIOUS
      <4>1. l # 0
        BY <1>1, <2>1
      <4> QED
        BY <1>1, <4>1 DEF l, Ready
    <3> QED
      BY <3>2, <3>3, <3>4
  <2>4. SameMemory(base, x) /\ (ready /\ x.connected => Flow(x, i))
    BY <1>4
  <2>5. ClientType(x) /\ NetType(v) /\ IsSequence(x.out)
    BY <1>2, <1>4 DEF Core, Right, ClientType
  <2> HIDE DEF m, x
  <2>6. /\ SameMemory(x, y)
        /\ y.connected => /\ x.connected
                          /\ \/ y.out = x.out
                             \/ y.out = Append(x.out, p)
    BY <2>3, <2>5, NextMemory
  <2> HIDE DEF y
  <2>7. SameMemory(base, y)
    BY <2>4, <2>6 DEF SameMemory
  <2>8. ASSUME ready, y.connected PROVE Flow(y, i + 1)
    <3>1. Exchanges(base.sent, v) /\ \A id : Free(id, w) => Free(id, v)
      BY <2>1, <2>4, <2>6, <2>8
    <3>2. CASE y.out = x.out
      BY <3>1, <3>2
    <3>3. CASE y.out = Append(x.out, p)
      <4>1. Wire(n, y.out) = SocketStep(v, p)
        BY <2>5, <3>3, SentOneMore
      <4>2. /\ p.type \notin {"dial", "close"} /\ (Ours(p) <=> Ours(m))
            /\ (OnRequest(p) <=> OnRequest(m))
            /\ m.id \in Nat /\ m.id < IdSpace => p.id = m.id
        BY <2>3, WiredFacts
      <4> HIDE DEF p
      <4> DEFINE u == SocketStep(v, p)
      <4>3. /\ ~ Ours(p) => /\ \A sent : Exchanges(sent, v) => Exchanges(sent, u)
                            /\ \A id : Free(id, v) => Free(id, u)
            /\ Free(p.id, v) =>
                   \A sent : Exchanges(sent, v) /\ Named(sent, p)
                                 => Exchanges(sent, u)
            /\ \A id : Free(id, v) /\ id # p.id => Free(id, u)
        BY <2>5, <4>2, SentOn
      <4> HIDE DEF u, v, w
      <4>4. CASE ~ Ours(m)
        BY <3>1, <4>1, <4>2, <4>3, <4>4 DEF u
      <4>5. CASE Ours(m)
        <5>1. i + 1 = l /\ Fits(base, n, m)
          BY <1>1, <2>1, <2>3, <2>8, <4>5
        <5>2. p.id = m.id /\ Free(p.id, v) /\ Named(base.sent, p)
          BY <3>1, <4>2, <4>5, <5>1 DEF Fits, Named, w
        <5>3. \A id : LastOther(seq, id) => id # p.id
          BY <1>1, <2>1, <4>5, <5>1, <5>2 DEF LastOther, m
        <5> QED
          BY <3>1, <4>1, <4>3, <5>1, <5>2, <5>3 DEF u
      <4> QED
        BY <4>4, <4>5
    <3> QED
      BY <2>6, <2>8, <3>2, <3>3
  <2> HIDE DEF Flow
  <2> QED
    BY <2>1, <2>2, <2>7, <2>8
<1>5. l \in T
  <2>1. T \in SUBSET (0 .. l)
    OBVIOUS
  <2> HIDE DEF T
  <2>2. T = 0 .. l
    BY <1>1, <1>3, <1>4, <2>1, Induction
  <2> QED
    BY <1>1, <2>2
<1> DEFINE e == FoldLeft(SendNext, base, seq)
<1>6. e = f[l]
  BY <1>2
<1> HIDE DEF e
<1>7. SameMemory(base, e) /\ (ready /\ e.connected => Flow(e, l))
  BY <1>5, <1>6
<1> QED
  BY <1>7 DEF e

(* _process_queue                                                          *)
LEMMA ProcessedMemory ==
  ASSUME NEW c, NEW n, NEW res \in Results, NEW k \in {0, 1},
         Core(c, n, res, k), c.connected, ~ c.threw,
         NEW seq, IsSequence(seq), AllSendable(seq),
         \A i \in DOMAIN seq : \/ Encodable(seq[i])
                               \/ i = Len(seq) /\ (c.notify => i > 1),
         NEW q, q = [c EXCEPT !.queue = seq]
  PROVE  LET d == process_queue(q)
         IN  /\ SameMemory(c, d)
             /\ Ready(c, n, seq) /\ d.connected =>
                    /\ Exchanges(d.sent, Wire(n, d.out))
                    /\ \A id : Free(id, Wire(n, c.out)) /\ LastOther(seq, id)
                                   => Free(id, Wire(n, d.out))
<1> DEFINE base == [q EXCEPT !.queue = <<>>, !.draining = TRUE]
           e == FoldLeft(SendNext, base, seq)
           d == [e EXCEPT !.draining = FALSE]
<1>1. ClientType(c)
  BY DEF Core, Right
<1>2. q.queue = seq
  BY <1>1 DEF ClientType
<1>3. process_queue(q) = d
  BY <1>2 DEF process_queue
<1>4. ClientType(base) /\ base.queue = <<>> /\ base.draining
  BY <1>1, EmptySequence DEF ClientType
<1>5. /\ SameRest(c, base) /\ SamePingers(c, base)
      /\ base.connected = c.connected /\ base.socket = c.socket
      /\ base.out = c.out /\ base.notify = c.notify
      /\ base.threw = c.threw /\ SameMemory(c, base)
  BY <1>1 DEF ClientType, SameRest, SamePingers, SameMemory
<1> HIDE DEF base
<1>6. EarlyRight(base, Heard(res, c.calls), k)
  BY <1>5 DEF Core, Right, EarlyRight, Counted, Listens, SameRest
<1>7. Core(base, n, res, k)
  BY <1>4, <1>5, <1>6, NothingWaits, Requeued
<1>8. /\ \A i \in DOMAIN seq : \/ Encodable(seq[i])
                               \/ i = Len(seq) /\ (base.notify => i > 1)
      /\ base.connected /\ ~ base.threw
      /\ Ready(c, n, seq) => Ready(base, n, seq)
  BY <1>5 DEF SameMemory, Fits, Ready
<1>9. /\ SameMemory(base, e)
      /\ Ready(base, n, seq) /\ e.connected =>
             /\ Exchanges(base.sent, Wire(n, e.out))
             /\ \A id : Free(id, Wire(n, base.out)) /\ LastOther(seq, id)
                            => Free(id, Wire(n, e.out))
  BY <1>4, <1>7, <1>8, DrainedMemory
<1>10. ClientType(e)
  BY <1>4, <1>7, <1>8, Drained DEF Core, Right
<1> HIDE DEF e
<1>11. SameMemory(e, d) /\ d.connected = e.connected /\ d.out = e.out
  BY <1>10 DEF ClientType, SameMemory
<1> HIDE DEF d
<1>12. /\ SameMemory(c, d)
       /\ Ready(c, n, seq) /\ d.connected =>
              /\ Exchanges(d.sent, Wire(n, d.out))
              /\ \A id : Free(id, Wire(n, c.out)) /\ LastOther(seq, id)
                             => Free(id, Wire(n, d.out))
  BY <1>5, <1>8, <1>9, <1>11 DEF SameMemory
<1> QED
  BY <1>3, <1>12

(* A queue that is calm stays so with one more message.                    *)
LEMMA CalmGrows ==
  ASSUME NEW s, IsSequence(s), Calm(s), NEW m
  PROVE  LET t == Append(s, m)
         IN  /\ \A i \in DOMAIN t : i < Len(t) => ~ Ours(t[i])
             /\ ~ Ours(m) => Calm(t)
<1> DEFINE t == Append(s, m)
<1>1. /\ Len(s) \in Nat /\ DOMAIN s = 1 .. Len(s)
      /\ Len(t) = Len(s) + 1 /\ DOMAIN t = 1 .. Len(s) + 1
      /\ \A i \in 1 .. Len(s) : t[i] = s[i]
      /\ t[Len(s) + 1] = m
  BY Appended
<1> HIDE DEF t
<1>2. ASSUME NEW i \in DOMAIN t, i # Len(s) + 1 PROVE ~ Ours(t[i])
  <2>1. i \in 1 .. Len(s)
    BY <1>1, <1>2
  <2> QED
    BY <1>1, <2>1 DEF Calm
<1>3. \A i \in DOMAIN t : i < Len(t) => ~ Ours(t[i])
  BY <1>1, <1>2
<1>4. ~ Ours(m) => Calm(t)
  BY <1>1, <1>2 DEF Calm
<1> QED
  BY <1>3, <1>4 DEF t

(* _schedule_message                                                       *)
Onward(c, d, n, m) ==
    /\ SameMemory(c, d) /\ Traffic(d, n)
    /\ d.connected => \A id : /\ Free(id, Wire(n, c.out))
                              /\ Ours(m) => id # m.id
                              => Free(id, Wire(n, d.out))

LEMMA ScheduledMemory ==
  ASSUME NEW c, NEW n, NEW res \in Results, NEW k \in {0, 1},
         Core(c, n, res, k), ~ c.draining, ~ c.threw, NEW m, IsPacket(m),
         \/ Encodable(m)
         \/ c.connected /\ (c.notify => c.queue # <<>>)
  PROVE  LET d == schedule_message(c, m)
         IN  /\ SameMemory(c, d)
             /\ Traffic(c, n) /\ Fits(c, n, m) => Onward(c, d, n, m)
<1> DEFINE seq == Append(c.queue, m)
           q == [c EXCEPT !.queue = seq]
           d == schedule_message(c, m)
           fine == Traffic(c, n) /\ Fits(c, n, m)
<1>1. /\ ClientType(c) /\ IsSequence(c.queue)
      /\ AllSendable(c.queue) /\ Waiting(c.queue)
      /\ c.connected => c.socket = "open"
  BY DEF Core, Right, ClientType, QueueRight
<1>2. /\ IsSequence(seq) /\ AllSendable(seq) /\ seq # <<>>
      /\ Len(c.queue) \in Nat /\ Len(seq) = Len(c.queue) + 1
      /\ seq[Len(seq)] = m
      /\ \A i \in DOMAIN seq : Encodable(seq[i]) \/ i = Len(seq)
      /\ c.queue # <<>> <=> Len(c.queue) >= 1
  BY <1>1, QueueGrows
<1>3. fine => /\ \A i \in DOMAIN seq : i < Len(seq) => ~ Ours(seq[i])
              /\ ~ Ours(m) => Calm(seq)
  BY <1>1, CalmGrows DEF Traffic
<1>4. d = IF c.connected THEN process_queue(q) ELSE q
  BY DEF schedule_message
<1>5. /\ c.connected => d.queue = <<>> /\ (d.connected \/ Down(d))
      /\ ~ c.connected => ~ d.connected
  BY Scheduled
<1> HIDE DEF seq, d
<1>6. CASE c.connected
  <2>1. \A i \in DOMAIN seq : \/ Encodable(seq[i])
                              \/ i = Len(seq) /\ (c.notify => i > 1)
    <3>1. Encodable(m) \/ (c.notify => Len(seq) > 1)
      BY <1>2
    <3>2. ASSUME NEW i \in DOMAIN seq, ~ Encodable(seq[i])
          PROVE  i = Len(seq) /\ (c.notify => i > 1)
      <4>1. i = Len(seq) /\ ~ Encodable(m)
        BY <1>2, <3>2
      <4> QED
        BY <3>1, <4>1
    <3> QED
      BY <3>2
  <2>2. fine => Ready(c, n, seq)
    BY <1>1, <1>2, <1>3, <1>6 DEF Traffic, Linked, Ready
  <2>4. /\ SameMemory(c, d)
        /\ Ready(c, n, seq) /\ d.connected =>
               /\ Exchanges(d.sent, Wire(n, d.out))
               /\ \A id : Free(id, Wire(n, c.out)) /\ LastOther(seq, id)
                              => Free(id, Wire(n, d.out))
    BY <1>2, <1>4, <1>6, <2>1, ProcessedMemory
  <2>5. \A id : (Ours(m) => id # m.id) => LastOther(seq, id)
    BY <1>2 DEF LastOther
  <2>6. fine => Traffic(d, n)
    BY <1>5, <1>6, <2>2, <2>4 DEF Traffic, Calm, Linked, Down
  <2>7. fine => Onward(c, d, n, m)
    <3> HIDE DEF fine
    <3> QED
      BY <2>2, <2>4, <2>5, <2>6 DEF Onward
  <2> QED
    BY <2>4, <2>7 DEF d
<1>7. CASE ~ c.connected
  <2>1. fine => ~ Ours(m)
    BY <1>7 DEF Fits
  <2>2. /\ SameMemory(c, q) /\ q.queue = seq /\ q.socket = c.socket
        /\ q.connected = c.connected /\ q.out = c.out
    BY <1>1 DEF ClientType, SameMemory
  <2> HIDE DEF q
  <2>3. d = q
    BY <1>4, <1>7
  <2>4. fine => Traffic(d, n)
    BY <1>3, <2>1, <2>2, <2>3 DEF Traffic, Linked, SameMemory
  <2>5. fine => Onward(c, d, n, m)
    BY <1>5, <1>7, <2>2, <2>3, <2>4 DEF Onward
  <2> QED
    BY <2>2, <2>3, <2>5 DEF d
<1> QED
  BY <1>6, <1>7

(* Only what is ours has to fit.                                           *)
LEMMA OthersFit == \A c, n, m : ~ Ours(m) => Fits(c, n, m)
BY DEF Fits

(* A step that changes nothing but what the exchanges do not depend on     *)
SameWire(c, d) == /\ d.connected = c.connected /\ d.socket = c.socket
                  /\ d.queue = c.queue /\ d.out = c.out

LEMMA SameTraffic ==
  ASSUME NEW c, NEW d, NEW n, SameWire(c, d), d.sent = c.sent
  PROVE  Traffic(d, n) <=> Traffic(c, n)
BY DEF SameWire, Traffic, Linked

(* disconnect() begins no exchange.                                        *)
LEMMA DisconnectMemory ==
  ASSUME NEW c, NEW n, NEW res \in Results, NEW k \in {0, 1},
         Core(c, n, res, k), ~ c.draining, ~ c.threw, c.socket # "none",
         \/ c.connected /\ k = 1
         \/ Counted(c, Heard(res, c.calls)),
         Traffic(c, n)
  PROVE  LET d == disconnect(c)
         IN  /\ SameMemory(c, d) /\ Traffic(d, n)
             /\ c.connected /\ c.queue = <<>> => ~ d.threw
<1> DEFINE m == Ack("DISCONNECT", 0)
           q == [c EXCEPT !.wireMessage = m, !.notify = TRUE]
           d == schedule_message(q, m)
<1>1. disconnect(c) = d
  BY DEF disconnect
<1>2. IsPacket(m) /\ Encodable(m) /\ ~ Ours(m)
  BY DEF IsPacket, Encodable, Ack, WireMessage, Sendable, Ours, Requests
<1> HIDE DEF m
<1>3. ClientType(c) /\ AllSendable(c.queue) /\ Waiting(c.queue)
  BY DEF Core, Right, QueueRight
<1>4. ClientType(q) /\ q.wireMessage = m /\ q.notify
  BY <1>3 DEF ClientType
<1>5. /\ SameRest(c, q) /\ SamePingers(c, q) /\ SameWire(c, q)
      /\ q.draining = c.draining /\ q.threw = c.threw /\ SameMemory(c, q)
  BY <1>3 DEF ClientType, SameRest, SamePingers, SameWire, SameMemory
<1> HIDE DEF q
<1>6. EarlyRight(q, Heard(res, c.calls), k)
  BY <1>5 DEF EarlyRight, Counted, Listens, SameRest, SameWire
<1>7. Core(q, n, res, k)
  BY <1>3, <1>4, <1>5, <1>6, Requeued DEF SameWire
<1>8. Traffic(q, n)
  BY <1>5, SameTraffic DEF SameMemory
<1>9. Fits(q, n, m)
  BY <1>2, OthersFit
<1>10. Onward(q, d, n, m)
  BY <1>2, <1>5, <1>7, <1>8, <1>9, ScheduledMemory
<1>11. q.connected =>
           \/ d.connected /\ (d.threw => ~ Encodable(m))
           \/ Down(d) /\ q.notify /\ (q.queue # <<>> <=> d.threw)
  BY <1>2, <1>5, <1>7, Scheduled
<1> HIDE DEF d
<1> QED
  BY <1>1, <1>2, <1>5, <1>10, <1>11 DEF Onward, SameMemory, SameWire

(* A report leaves the memory alone, and throws nothing.                   *)
LEMMA ReportMemory ==
  ASSUME NEW c, NEW n, NEW res \in Results, Serene(c, n, res), Traffic(c, n),
         NEW cb \in {"onMessageArrived", "onMessageDelivered"}, NEW body
  PROVE  LET d == Report(c, cb, body)
         IN  SameMemory(c, d) /\ Traffic(d, n) /\ ~ d.threw
<1> DEFINE told == Call(c, cb, body)
           d == disconnect(told)
<1>1. cb \notin DOMAIN NoResult
  BY DEF NoResult
<1>2. /\ Core(told, n, res, 1) /\ SameTurn(c, told) /\ told.threw = c.threw
  BY <1>1, Called1 DEF Serene
<1>3. Report(c, cb, body) = IF c.reaction[cb] = "absent" THEN c
                            ELSE IF c.reaction[cb] = "disconnect" THEN d
                            ELSE told
  BY DEF Report
<1>4. SameMemory(c, told) /\ SameWire(c, told)
  <2>1. ClientType(c)
    BY DEF Serene, Core, Right
  <2> QED
    BY <2>1, CallMemory DEF SameWire
<1> HIDE DEF told
<1>5. /\ told.connected /\ told.socket = "open" /\ ~ told.draining
      /\ ~ told.threw /\ told.queue = <<>> /\ ~ c.threw
  BY <1>2 DEF Serene, SameTurn, Settled, Core, Right, QueueRight
<1>6. Traffic(told, n)
  BY <1>4, SameTraffic DEF SameMemory
<1>7. SameMemory(told, d) /\ Traffic(d, n) /\ ~ d.threw
  <2> DEFINE k == 1
  <2>1. told.connected /\ k = 1 /\ k \in {0, 1} /\ Core(told, n, res, k)
    BY <1>2, <1>5
  <2> HIDE DEF k
  <2> QED
    BY <1>5, <1>6, <2>1, DisconnectMemory
<1> HIDE DEF d
<1> QED
  BY <1>3, <1>4, <1>5, <1>6, <1>7 DEF SameMemory

-----------------------------------------------------------------------------
(* store() makes the storage follow the memory, where it has room.         *)
Following(c, id) ==
    /\ Entries(c.sent) /\ c.stored.received = c.received
    /\ DOMAIN c.stored.sent \subseteq Publications(c.sent)
    /\ \A i \in Publications(c.sent) \ {id} :
           i \in DOMAIN c.stored.sent /\ c.stored.sent[i] = c.sent[i]

LEMMA StoredMemory ==
  ASSUME NEW c, ClientType(c), Keeping(c), Oversized = {},
         NEW id \in DOMAIN c.sent, c.sent[id].type = "PUBLISH",
         Following(c, id)
  PROVE  LET d == StoreSent(c, id)
         IN  /\ Memory(d) /\ d.threw = c.threw
             /\ \E v : d.sent = Put(c.sent, id, v) /\ v.type = "PUBLISH"
<1> DEFINE first == c.sent[id].seq = 0
           number == IF first THEN c.sequence + 1 ELSE c.sent[id].seq
           message == [c.sent[id] EXCEPT !.seq = number]
           sent == Put(c.sent, id, message)
           kept == Put(c.stored.sent, id, message)
           count == IF first THEN number ELSE c.sequence
           numbered == [c EXCEPT !.sent = sent, !.sequence = count]
           saved == [numbered EXCEPT !.stored.sent = kept]
<1>1. StoreSent(c, id) = saved
  <2>1. numbered.stored.sent = c.stored.sent
    BY DEF ClientType
  <2> HIDE DEF message, count
  <2>2. StoreSent(c, id) =
            IF message.body \in Oversized THEN Throw(numbered)
            ELSE [numbered EXCEPT
                     !.stored.sent = Put(numbered.stored.sent, id, message)]
    BY DEF StoreSent, message, count
  <2> QED
    BY <2>1, <2>2
<1> HIDE DEF number, count
<1>2. message.type = "PUBLISH" /\ message.id = id
  <2>1. IsPacket(c.sent[id]) /\ c.sent[id].id = id
    BY DEF Keeping, Kept, Keepable, Following, Entries
  <2> QED
    BY <2>1 DEF IsPacket
<1> HIDE DEF message
<1>3. /\ DOMAIN sent = DOMAIN c.sent
      /\ \A i \in DOMAIN c.sent : sent[i] = IF i = id THEN message ELSE c.sent[i]
  BY DEF Put
<1>4. /\ DOMAIN kept = DOMAIN c.stored.sent \cup {id}
      /\ \A i \in DOMAIN kept :
             kept[i] = IF i = id THEN message ELSE c.stored.sent[i]
      /\ kept = [i \in DOMAIN kept |-> kept[i]]
  BY DEF Put
<1> HIDE DEF kept
<1>5. /\ saved.sent = sent /\ saved.stored.sent = kept
      /\ saved.received = c.received
      /\ saved.stored.received = c.stored.received
      /\ saved.threw = c.threw
  BY DEF ClientType
<1> HIDE DEF sent, saved
<1>6. Entries(sent)
  BY <1>2, <1>3 DEF Following, Entries
<1>7. Publications(sent) = Publications(c.sent) /\ id \in Publications(sent)
  BY <1>2, <1>3 DEF Publications
<1>8. DOMAIN kept = Publications(sent)
  BY <1>4, <1>7 DEF Following
<1>9. \A i \in Publications(sent) : kept[i] = sent[i]
  <2>1. \A i \in Publications(sent) : i \in DOMAIN c.sent
    BY <1>3 DEF Publications
  <2> QED
    BY <1>3, <1>4, <1>7, <1>8, <2>1 DEF Following
<1>10. kept = [i \in Publications(sent) |-> sent[i]]
  BY <1>4, <1>8, <1>9
<1>11. Memory(saved)
  BY <1>5, <1>6, <1>10 DEF Memory, Mirrored, Following
<1>12. saved.sent = Put(c.sent, id, message)
  BY <1>5 DEF sent
<1> QED
  BY <1>1, <1>2, <1>5, <1>11, <1>12

(* What is kept follows what was.                                          *)
LEMMA MirroredFollows ==
  ASSUME NEW c, Memory(c), NEW id
  PROVE  Following(c, id)
<1>1. /\ Entries(c.sent) /\ c.stored.received = c.received
      /\ c.stored.sent = [i \in Publications(c.sent) |-> c.sent[i]]
  BY DEF Memory, Mirrored
<1>2. /\ DOMAIN c.stored.sent = Publications(c.sent)
      /\ \A i \in Publications(c.sent) : c.stored.sent[i] = c.sent[i]
  BY <1>1
<1> QED
  BY <1>1, <1>2 DEF Following

(* _requires_ack keeps the message under an identifier of its own.         *)
LEMMA AcknowledgedMemory ==
  ASSUME NEW c, NEW n, NEW res, NEW k, Core(c, n, res, k),
         NEW type \in {"PUBLISH", "SUBSCRIBE", "UNSUBSCRIBE"}, NEW body,
         type = "PUBLISH" /\ FewMisspelt => body \notin Unencodable,
         Oversized = {}, Memory(c), Traffic(c, n), c.connected
  PROVE  LET d == requires_ack(c, type, body)
             m == d.wireMessage
         IN  /\ Memory(d) /\ Traffic(d, n) /\ d.connected
             /\ ~ d.threw => /\ m.id \in DOMAIN d.sent /\ m.id \in Nat
                             /\ Named(d.sent, m)
                             /\ Free(m.id, Wire(n, d.out))
<1> DEFINE id == UnusedIdentifier(c)
           message == WireMessage(type, id, body)
           sent == Put(c.sent, id, message)
           kept == [c EXCEPT !.messageIdentifier = id, !.sent = sent]
           done == IF type = "PUBLISH" THEN StoreSent(kept, id) ELSE kept
           sending == done.sent[id]
           d == [done EXCEPT !.wireMessage = sending]
           w == Wire(n, c.out)
<1>1. /\ ClientType(c) /\ Keeping(c) /\ c.socket = "open"
      /\ Exchanges(c.sent, w) /\ Calm(c.queue)
  BY DEF Core, Right, QueueRight, Traffic, Linked
<1>2. id \in Nat /\ id \notin DOMAIN c.sent
  BY <1>1, FreeIdentifier DEF ClientType, Keeping, Kept
<1>3. /\ Keepable(message) /\ message.type = type /\ message.id = id
  BY DEF Keepable, IsPacket, Encodable, WireMessage, Sendable
<1>4. requires_ack(c, type, body) =
          IF Cardinality(DOMAIN c.sent) > MaxMessageIdentifier THEN Throw(c)
                                                               ELSE d
  BY DEF requires_ack
<1> HIDE DEF id, message, w
<1>5. /\ DOMAIN sent = DOMAIN c.sent \cup {id}
      /\ \A i \in DOMAIN sent : sent[i] = IF i = id THEN message ELSE c.sent[i]
  BY DEF Put
<1>6. Kept(sent)
  BY <1>1, <1>2, <1>3, KeptPut DEF Keeping
<1>7. Exchanges(sent, w) /\ Free(id, w)
  BY <1>1, <1>2, ExchangesPut, UnusedFree
<1> HIDE DEF sent
<1>8. /\ ClientType(kept) /\ SameButKept(c, kept) /\ kept.sent = sent
      /\ kept.stored = c.stored /\ kept.received = c.received
      /\ kept.threw = c.threw
  BY <1>1, <1>2 DEF ClientType, SameButKept, SameLink, SamePingers
<1> HIDE DEF kept
<1>9. Keeping(kept) /\ Entries(sent)
  <2>1. Entries(c.sent)
    BY DEF Memory
  <2> QED
    BY <1>1, <1>3, <1>5, <1>6, <1>8, <2>1 DEF Keeping, Entries, Requests
<1>10. /\ ClientType(done) /\ SameButKept(c, done) /\ Memory(done)
       /\ Exchanges(done.sent, w)
       /\ id \in DOMAIN done.sent /\ done.sent[id].type = type
  <2>1. CASE type = "PUBLISH"
    <3>1. id \in DOMAIN kept.sent /\ kept.sent[id].type = "PUBLISH"
      BY <1>3, <1>5, <1>8, <2>1
    <3>2. /\ ClientType(done) /\ SameButKept(kept, done)
          /\ id \in DOMAIN done.sent /\ done.sent[id].type = kept.sent[id].type
      BY <1>8, <1>9, <2>1, <3>1, Stored
    <3>3. Following(kept, id)
      <4>1. Following(c, id)
        BY MirroredFollows
      <4>2. /\ Publications(sent) = Publications(c.sent) \cup {id}
            /\ \A i \in Publications(sent) \ {id} : sent[i] = c.sent[i]
        BY <1>2, <1>3, <1>5, <2>1 DEF Publications
      <4> QED
        BY <1>2, <1>8, <1>9, <4>1, <4>2 DEF Following
    <3>4. /\ Memory(done)
          /\ \E v : done.sent = Put(kept.sent, id, v) /\ v.type = "PUBLISH"
      BY <1>8, <1>9, <2>1, <3>1, <3>3, StoredMemory
    <3> HIDE DEF done
    <3>5. Exchanges(done.sent, w)
      BY <1>7, <1>8, <3>1, <3>4, ExchangesPut DEF Requests
    <3> QED
      BY <1>8, <2>1, <3>1, <3>2, <3>4, <3>5
      DEF SameButKept, SameLink, SamePingers
  <2>2. CASE type # "PUBLISH"
    <3>1. done = kept
      BY <2>2
    <3>2. Publications(sent) = Publications(c.sent)
      BY <1>2, <1>3, <1>5, <2>2 DEF Publications
    <3>3. \A i \in Publications(sent) : sent[i] = c.sent[i]
      BY <1>2, <1>3, <1>5, <2>2 DEF Publications
    <3>4. [i \in Publications(sent) |-> sent[i]]
              = [i \in Publications(c.sent) |-> c.sent[i]]
      BY <3>2, <3>3
    <3>5. Memory(kept)
      BY <1>8, <1>9, <3>4 DEF Memory, Mirrored
    <3> HIDE DEF done
    <3> QED
      BY <1>3, <1>5, <1>7, <1>8, <3>1, <3>5
  <2> QED
    BY <2>1, <2>2
<1> HIDE DEF done
<1>11. /\ sending.type = type /\ sending.id = id
  BY <1>10 DEF Memory, Entries
<1>12. Named(done.sent, sending)
  BY <1>10, <1>11 DEF Named, OnRequest, Requests
<1> HIDE DEF sending
<1>13. /\ d.wireMessage = sending /\ SameButKept(done, d)
       /\ d.sent = done.sent /\ d.stored = done.stored
       /\ d.received = done.received
  BY <1>10 DEF ClientType, SameButKept, SameLink, SamePingers
<1> HIDE DEF d
<1>14. /\ d.out = c.out /\ d.queue = c.queue /\ d.socket = c.socket
       /\ d.connected = c.connected
  BY <1>10, <1>13 DEF SameButKept, SameLink
<1>15. Memory(d) /\ Traffic(d, n) /\ d.connected
  BY <1>1, <1>10, <1>13, <1>14 DEF Memory, Mirrored, Traffic, Linked, w
<1>16. Free(id, Wire(n, d.out))
  BY <1>7, <1>14 DEF w
<1>17. Memory(Throw(c)) /\ Traffic(Throw(c), n) /\ Throw(c).connected
       /\ Throw(c).threw
  BY <1>1 DEF ClientType, Throw, Memory, Mirrored, Traffic, Linked
<1>18. CASE Cardinality(DOMAIN c.sent) > MaxMessageIdentifier
  BY <1>4, <1>17, <1>18
<1>19. CASE ~ (Cardinality(DOMAIN c.sent) > MaxMessageIdentifier)
  BY <1>2, <1>4, <1>10, <1>11, <1>12, <1>13, <1>15, <1>16, <1>19
<1> QED
  BY <1>18, <1>19

-----------------------------------------------------------------------------
(* What the storage, the memory and the exchanges under way owe each other *)
Sound(c, n) == Memory(c) /\ Traffic(c, n)

LEMMA SoundSame ==
  ASSUME NEW c, NEW d, NEW n, SameMemory(c, d)
  PROVE  /\ Memory(c) => Memory(d)
         /\ Sound(c, n) /\ SameWire(c, d) => Sound(d, n)
<1>1. Memory(c) => Memory(d)
  BY DEF SameMemory, Memory, Mirrored
<1>2. Sound(c, n) /\ SameWire(c, d) => Traffic(d, n)
  BY SameTraffic DEF SameMemory, Sound
<1> QED
  BY <1>1, <1>2 DEF Sound

(* A packet that is not ours may always be sent.                           *)
LEMMA OtherSent ==
  ASSUME NEW c, NEW n, NEW res \in Results, NEW k \in {0, 1},
         Core(c, n, res, k), ~ c.draining, ~ c.threw, Sound(c, n),
         NEW m, IsPacket(m), ~ Ours(m),
         \/ Encodable(m)
         \/ c.connected /\ (c.notify => c.queue # <<>>)
  PROVE  Sound(schedule_message(c, m), n)
<1> DEFINE d == schedule_message(c, m)
<1>1. Onward(c, d, n, m)
  BY OthersFit, ScheduledMemory DEF Sound
<1> HIDE DEF d
<1>2. Sound(d, n)
  BY <1>1, SoundSame DEF Onward, Sound
<1> QED
  BY <1>2 DEF d

(* One that is ours may be sent under the identifier that it was given, if *)
(* two bytes can hold it.                                                  *)
LEMMA KeptSent ==
  ASSUME NEW c, NEW n, NEW res \in Results, NEW k \in {0, 1},
         Core(c, n, res, k), ~ c.draining, ~ c.threw, Sound(c, n), c.connected,
         NEW m, IsPacket(m), Encodable(m) \/ (c.notify => c.queue # <<>>),
         m.id \in DOMAIN c.sent, m.id \in Nat, Named(c.sent, m),
         Free(m.id, Wire(n, c.out))
  PROVE  LET d == schedule_message(c, m)
         IN  Memory(d) /\ (Fit(d.sent) => Sound(d, n))
<1> DEFINE d == schedule_message(c, m)
<1>1. /\ SameMemory(c, d)
      /\ Traffic(c, n) /\ Fits(c, n, m) => Onward(c, d, n, m)
  BY ScheduledMemory
<1> HIDE DEF d
<1>2. Fit(d.sent) => Fits(c, n, m)
  BY <1>1 DEF SameMemory, Fit, Fits
<1>3. Memory(d) /\ (Fit(d.sent) => Sound(d, n))
  BY <1>1, <1>2, SoundSame DEF Onward, Sound
<1> QED
  BY <1>3 DEF d

(* subscribe() and unsubscribe() begin an exchange.                        *)
LEMMA RequestMemory ==
  ASSUME NEW c, NEW n, NEW res \in Results, NEW k \in {0, 1},
         Core(c, n, res, k), c.connected, ~ c.draining, ~ c.threw,
         NEW type \in {"SUBSCRIBE", "UNSUBSCRIBE"},
         Oversized = {}, Sound(c, n)
  PROVE  LET d == Request(c, type)
         IN  Memory(d) /\ (Fit(d.sent) => Sound(d, n))
<1> DEFINE i == c.requests + 1
           timers == IF RequestTimeout THEN c.requestTimers \cup {i}
                                       ELSE c.requestTimers
           timed == [c EXCEPT !.requests = i, !.requestTimers = timers]
           kept == requires_ack(timed, type, i)
           d == schedule_message(kept, kept.wireMessage)
<1>1. ClientType(c) /\ Keeping(c)
  BY DEF Core, Right
<1>2. Request(c, type) = IF kept.threw THEN kept ELSE d
  BY DEF Request
<1> HIDE DEF i, timers
<1>3. /\ ClientType(timed) /\ SameButKept(c, timed)
      /\ timed.connected /\ ~ timed.draining
      /\ SameMemory(c, timed) /\ SameWire(c, timed)
  BY <1>1 DEF ClientType, SameButKept, SameLink, SamePingers, SameMemory,
              SameWire
<1> HIDE DEF timed
<1>4. Keeping(timed)
  BY <1>1, <1>3 DEF Keeping, SameMemory
<1>5. Core(timed, n, res, k) /\ Sound(timed, n)
  BY <1>3, <1>4, QuietlyKept, SoundSame
<1>6. /\ Core(kept, n, res, k) /\ kept.draining = timed.draining
      /\ ~ kept.threw => /\ IsPacket(kept.wireMessage)
                         /\ kept.wireMessage.type = type
  BY <1>5, Acknowledged
<1> DEFINE m == kept.wireMessage
<1>7. /\ Memory(kept) /\ Traffic(kept, n) /\ kept.connected
      /\ ~ kept.threw => /\ m.id \in DOMAIN kept.sent /\ m.id \in Nat
                         /\ Named(kept.sent, m)
                         /\ Free(m.id, Wire(n, kept.out))
  BY <1>3, <1>5, AcknowledgedMemory DEF Sound
<1> HIDE DEF kept, m
<1>8. CASE kept.threw
  BY <1>2, <1>7, <1>8 DEF Sound
<1>9. CASE ~ kept.threw
  <2> DEFINE e == schedule_message(kept, m)
  <2>1. IsPacket(m) /\ Encodable(m) /\ Sound(kept, n) /\ ~ kept.draining
    BY <1>3, <1>6, <1>7, <1>9 DEF Encodable, Sound, m
  <2>2. Memory(e) /\ (Fit(e.sent) => Sound(e, n))
    BY <1>6, <1>7, <1>9, <2>1, KeptSent
  <2> QED
    BY <1>2, <1>9, <2>2 DEF m
<1> QED
  BY <1>8, <1>9

(* send() begins one, unless the quality is 0.                             *)
LEMMA SendMemory ==
  ASSUME NEW c, NEW n, NEW res \in Results, Serene(c, n, res),
         NEW body \in Messages, Oversized = {}, Sound(c, n)
  PROVE  LET d == send(c, body)
         IN  Memory(d) /\ (Fit(d.sent) => Sound(d, n))
<1> DEFINE m == WireMessage("PUBLISH", 0, body)
           message == [c EXCEPT !.wireMessage = m]
           rep == Report(message, "onMessageDelivered", body)
           quiet == [rep EXCEPT !.notify = FALSE]
           acked == requires_ack(c, "PUBLISH", body)
           Sent(x) == IF x.threw THEN x ELSE schedule_message(x, x.wireMessage)
           Fine(d) == Memory(d) /\ (Fit(d.sent) => Sound(d, n))
           s == send(c, body)
<1>1. /\ ClientType(c) /\ Keeping(c) /\ c.connected /\ ~ c.threw
      /\ c.queue = <<>> /\ ~ c.notify /\ ~ c.draining /\ Core(c, n, res, 1)
  BY DEF Serene, Core, Right, Settled
<1> DEFINE k == 1
<1>2. k \in {0, 1} /\ Core(c, n, res, k)
  BY <1>1
<1>3. s = IF QoS[body] > 0 THEN Sent(acked)
          ELSE IF c.reaction.onMessageDelivered = "absent"
          THEN Sent(message) ELSE Sent(quiet)
  <2> DEFINE ready == IF QoS[body] > 0 THEN acked
                      ELSE IF c.reaction.onMessageDelivered = "absent"
                      THEN message ELSE quiet
  <2>1. s = Sent(ready)
    BY <1>1 DEF send
  <2> HIDE DEF acked, message, quiet, Sent
  <2> QED
    BY <2>1
<1>4. QoS[body] > 0 \/ QoS[body] = 0
  BY ClientAssumption
<1> HIDE DEF s, k
<1>5. IsPacket(m) /\ (QoS[body] = 0 => ~ Ours(m))
  BY DEF IsPacket, WireMessage, Sendable, Ours, Requests
<1> HIDE DEF m
<1>6. /\ ClientType(message) /\ SameButKept(c, message)
      /\ SameMemory(c, message) /\ SameWire(c, message)
      /\ message.threw = c.threw /\ message.wireMessage = m
  BY <1>1 DEF ClientType, SameButKept, SameLink, SamePingers, SameMemory,
              SameWire
<1> HIDE DEF message
<1>7. Serene(message, n, res) /\ Sound(message, n)
  <2>1. Keeping(message)
    BY <1>1, <1>6 DEF Keeping, SameMemory
  <2> QED
    BY <1>1, <1>6, <2>1, SereneKept, SoundSame
<1>8. ASSUME NEW x, Core(x, n, res, k), ~ x.draining, Sound(x, n),
             IsPacket(x.wireMessage), ~ Ours(x.wireMessage),
             \/ Encodable(x.wireMessage)
             \/ x.connected /\ (x.notify => x.queue # <<>>)
      PROVE  Fine(Sent(x))
  <2> DEFINE p == x.wireMessage
             d == schedule_message(x, p)
  <2>1. Fine(x)
    BY <1>8 DEF Sound
  <2>2. ASSUME ~ x.threw PROVE Fine(d)
    <3>1. /\ IsPacket(p) /\ ~ Ours(p)
          /\ \/ Encodable(p)
             \/ x.connected /\ (x.notify => x.queue # <<>>)
      BY <1>8
    <3> HIDE DEF p
    <3>2. Sound(d, n)
      BY <1>2, <1>8, <2>2, <3>1, OtherSent
    <3> QED
      BY <3>2 DEF Sound
  <2> HIDE DEF Fine
  <2> QED
    BY <2>1, <2>2
<1>9. ASSUME QoS[body] > 0 PROVE Fine(Sent(acked))
  <2> DEFINE type == "PUBLISH"
             x == requires_ack(c, type, body)
             p == x.wireMessage
             d == schedule_message(x, p)
  <2>1. /\ type \in {"PUBLISH", "SUBSCRIBE", "UNSUBSCRIBE"}
        /\ type = "PUBLISH" /\ FewMisspelt => body \notin Unencodable
    BY <1>9 DEF FewMisspelt
  <2> HIDE DEF type
  <2>2. /\ Core(x, n, res, k)
        /\ x.queue = c.queue /\ x.notify = c.notify /\ x.draining = c.draining
        /\ ~ x.threw => IsPacket(p)
    BY <1>2, <2>1, Acknowledged
  <2>3. /\ Memory(x) /\ Traffic(x, n) /\ x.connected
        /\ ~ x.threw => /\ p.id \in DOMAIN x.sent /\ p.id \in Nat
                        /\ Named(x.sent, p) /\ Free(p.id, Wire(n, x.out))
    BY <1>1, <1>2, <2>1, AcknowledgedMemory DEF Sound
  <2>4. acked = x
    BY DEF type
  <2> HIDE DEF x, p
  <2>5. Fine(x)
    BY <2>3 DEF Sound
  <2>6. ~ x.threw => Fine(d)
    BY <1>1, <1>2, <2>2, <2>3, KeptSent DEF Sound
  <2> HIDE DEF Fine
  <2> QED
    BY <2>4, <2>5, <2>6 DEF p
<1>10. ASSUME QoS[body] = 0 PROVE Fine(Sent(message))
  <2>1. /\ Core(message, n, res, k) /\ ~ message.draining
        /\ message.connected /\ ~ message.notify
    BY <1>7 DEF Serene, Settled, k
  <2> HIDE DEF Fine, Sent
  <2> QED
    BY <1>5, <1>6, <1>7, <1>8, <1>10, <2>1
<1>11. ASSUME QoS[body] = 0 PROVE Fine(Sent(quiet))
  <2> DEFINE cb == "onMessageDelivered"
             y == Report(message, cb, body)
             halt == Ack("DISCONNECT", 0)
  <2>1. cb \in {"onMessageArrived", "onMessageDelivered"} /\ y = rep
    OBVIOUS
  <2> HIDE DEF cb
  <2>2. /\ Core(y, n, res, 1) /\ Settled(y)
        /\ \/ y.connected /\ y.wireMessage = message.wireMessage
           \/ y.wireMessage = halt
    BY <1>7, <2>1, Reported
  <2>3. SameMemory(message, y) /\ Traffic(y, n) /\ ~ y.threw
    BY <1>7, <2>1, ReportMemory DEF Sound
  <2>4. Sound(y, n)
    BY <1>7, <2>3, SoundSame DEF Sound
  <2> HIDE DEF y, rep
  <2>5. ClientType(y) /\ AllSendable(y.queue) /\ Waiting(y.queue)
    BY <2>2 DEF Core, Right, QueueRight
  <2>6. quiet = [y EXCEPT !.notify = FALSE]
    BY <2>1
  <2> HIDE DEF quiet
  <2>7. /\ ClientType(quiet) /\ quiet.notify = FALSE
        /\ SameRest(y, quiet) /\ SamePingers(y, quiet)
        /\ quiet.draining = y.draining /\ quiet.wireMessage = y.wireMessage
        /\ SameMemory(y, quiet) /\ SameWire(y, quiet)
    BY <2>5, <2>6 DEF ClientType, SameRest, SamePingers, SameMemory, SameWire
  <2>8. EarlyRight(quiet, Heard(res, y.calls), 1)
    BY <2>7 DEF EarlyRight
  <2>9. Core(quiet, n, res, 1)
    BY <2>2, <2>5, <2>7, <2>8, Requeued DEF SameWire
  <2>10. IsPacket(halt) /\ Encodable(halt) /\ ~ Ours(halt)
    BY DEF IsPacket, Encodable, Ack, WireMessage, Sendable, Ours, Requests
  <2>11. /\ Core(quiet, n, res, k) /\ ~ quiet.draining /\ Sound(quiet, n)
         /\ quiet.connected = y.connected
    BY <2>2, <2>4, <2>7, <2>9, SoundSame DEF Settled, SameWire, k
  <2> HIDE DEF halt
  <2>12. /\ IsPacket(quiet.wireMessage) /\ ~ Ours(quiet.wireMessage)
         /\ \/ Encodable(quiet.wireMessage)
            \/ quiet.connected /\ (quiet.notify => quiet.queue # <<>>)
    BY <1>5, <1>6, <1>11, <2>2, <2>7, <2>10, <2>11
  <2> HIDE DEF Fine, Sent
  <2> QED
    BY <1>8, <2>11, <2>12
<1> HIDE DEF acked, quiet, Sent, Fine
<1>12. Fine(s)
  BY <1>3, <1>4, <1>9, <1>10, <1>11
<1> QED
  BY <1>12 DEF Fine, s

-----------------------------------------------------------------------------
(* What is received: a report changes nothing that is kept.                *)
LEMMA ReportSound ==
  ASSUME NEW c, NEW n, NEW res \in Results, Serene(c, n, res), Sound(c, n),
         NEW cb \in {"onMessageArrived", "onMessageDelivered"}, NEW body
  PROVE  Sound(Report(c, cb, body), n)
<1> DEFINE d == Report(c, cb, body)
<1>1. SameMemory(c, d) /\ Traffic(d, n)
  BY ReportMemory DEF Sound
<1> HIDE DEF d
<1>2. Sound(d, n)
  BY <1>1, SoundSame DEF Sound
<1> QED
  BY <1>2 DEF d

(* PUBLISH: with room for it, what is received is kept in both places.     *)
LEMMA PublishMemory ==
  ASSUME NEW c, NEW n, NEW res \in Results, Serene(c, n, res), NEW message,
         Oversized = {}, Sound(c, n)
  PROVE  Sound(receivePublish(c, message), n)
<1> DEFINE body == message.body
           ack == Ack("PUBACK", message.id)
           rec == Ack("PUBREC", message.id)
           cb == "onMessageArrived"
           acked == schedule_message(c, ack)
           copy == [c EXCEPT !.received = Put(@, message.id, message)]
           kept == [copy EXCEPT !.stored.received = Put(@, message.id, message)]
           p == receivePublish(c, message)
           p1 == Report(c, cb, body)
           p2 == Report(acked, cb, body)
           p3 == schedule_message(kept, rec)
           k == 1
<1>1. \/ p = p1
      \/ p = IF acked.threw THEN acked ELSE p2
      \/ p = IF kept.threw THEN kept ELSE p3
  BY DEF receivePublish, StoreReceived
<1>2. cb \in {"onMessageArrived", "onMessageDelivered"}
  OBVIOUS
<1>3. /\ ClientType(c) /\ Keeping(c) /\ ~ c.threw /\ ~ c.draining
      /\ Core(c, n, res, k) /\ k \in {0, 1}
  BY DEF Serene, Core, Right, Settled
<1>4. /\ IsPacket(ack) /\ Encodable(ack) /\ ~ Ours(ack)
      /\ IsPacket(rec) /\ Encodable(rec) /\ ~ Ours(rec)
  <2>1. IsPacket(ack) /\ Encodable(ack) /\ IsPacket(rec) /\ Encodable(rec)
    BY Acks DEF Sendable
  <2>2. ~ Ours(ack) /\ ~ Ours(rec)
    BY DEF Ack, WireMessage, Ours, Requests
  <2> QED
    BY <2>1, <2>2
<1> HIDE DEF ack, rec, cb, body, p, k
<1>5. Serene(acked, n, res)
  BY <1>4, Replied
<1>6. Sound(acked, n)
  BY <1>3, <1>4, OtherSent
<1> HIDE DEF acked
<1>7. ~ acked.threw
  BY <1>5 DEF Serene
<1>8. Sound(p1, n) /\ Sound(p2, n)
  BY <1>2, <1>5, <1>6, ReportSound
<1> DEFINE store == Put(c.stored.received, message.id, message)
           memory == Put(c.received, message.id, message)
<1>9. store = memory
  BY DEF Sound, Memory, Mirrored
<1> HIDE DEF store, memory
<1>10. kept = [c EXCEPT !.received = memory, !.stored.received = store]
  BY <1>3 DEF ClientType, store, memory
<1> HIDE DEF kept
<1>11. /\ ClientType(kept) /\ SameButKept(c, kept) /\ SameWire(c, kept)
       /\ kept.sent = c.sent /\ kept.stored.sent = c.stored.sent
       /\ kept.received = memory /\ kept.stored.received = store
       /\ kept.threw = c.threw
  BY <1>3, <1>10 DEF ClientType, SameButKept, SameLink, SamePingers, SameWire
<1>12. Serene(kept, n, res)
  <2>1. Keeping(kept)
    BY <1>3, <1>11 DEF Keeping
  <2> QED
    BY <1>3, <1>11, <2>1, SereneKept
<1>13. Sound(kept, n)
  <2>1. Memory(kept)
    BY <1>9, <1>11 DEF Sound, Memory, Mirrored
  <2>2. Traffic(kept, n)
    BY <1>11, SameTraffic DEF Sound
  <2> QED
    BY <2>1, <2>2 DEF Sound
<1>14. ~ kept.threw /\ ~ kept.draining /\ Core(kept, n, res, k)
  BY <1>12 DEF Serene, Settled, k
<1>15. Sound(p3, n)
  BY <1>3, <1>4, <1>13, <1>14, OtherSent
<1> HIDE DEF p1, p2, p3
<1>16. Sound(p, n)
  BY <1>1, <1>7, <1>8, <1>14, <1>15
<1> QED
  BY <1>16 DEF p

(* What is removed from memory is removed from the storage, if it was      *)
(* there.                                                                  *)
LEMMA DeletedMemory ==
  ASSUME NEW c, Memory(c), NEW id, NEW d,
         d.sent = Delete(c.sent, id), d.received = c.received,
         d.stored.received = c.stored.received,
         \/ d.stored.sent = Delete(c.stored.sent, id)
         \/ d.stored.sent = c.stored.sent /\ id \notin Publications(c.sent)
  PROVE  Memory(d)
<1> DEFINE P == Publications(c.sent)
           Q == Publications(d.sent)
<1>1. /\ Entries(c.sent) /\ c.stored.received = c.received
      /\ c.stored.sent = [i \in P |-> c.sent[i]]
  BY DEF Memory, Mirrored
<1>2. /\ DOMAIN d.sent = DOMAIN c.sent \ {id}
      /\ \A i \in DOMAIN c.sent \ {id} : d.sent[i] = c.sent[i]
  BY DEF Delete
<1>3. Entries(d.sent) /\ Q = P \ {id}
  BY <1>1, <1>2 DEF Entries, Publications
<1>4. \A i \in Q : i \in P /\ i # id /\ d.sent[i] = c.sent[i]
  BY <1>2, <1>3 DEF Publications
<1> HIDE DEF P, Q
<1>5. DOMAIN c.stored.sent = P /\ \A i \in P : c.stored.sent[i] = c.sent[i]
  BY <1>1
<1>6. d.stored.sent = [i \in Q |-> d.sent[i]]
  <2>1. CASE d.stored.sent = Delete(c.stored.sent, id)
    <3>1. d.stored.sent = [i \in P \ {id} |-> c.stored.sent[i]]
      BY <1>5, <2>1 DEF Delete
    <3>2. \A i \in Q : c.stored.sent[i] = d.sent[i]
      BY <1>4, <1>5
    <3> QED
      BY <1>3, <3>1, <3>2
  <2>2. CASE d.stored.sent = c.stored.sent /\ id \notin P
    <3>1. Q = P
      BY <1>3, <2>2
    <3> QED
      BY <1>1, <1>4, <2>2, <3>1
  <2> QED
    BY <2>1, <2>2 DEF P
<1> QED
  BY <1>1, <1>3, <1>6 DEF Memory, Mirrored, Q

(* The exchange that an acknowledgement ends is forgotten.                 *)
LEMMA ForgetMemory ==
  ASSUME NEW c, NEW n, ClientType(c), Sound(c, n), NEW id,
         Free(id, Wire(n, c.out)), c.connected, c.socket = "open"
  PROVE  Sound(Forget(c, id), n)
<1> DEFINE d == Forget(c, id)
<1>1. /\ d.sent = Delete(c.sent, id) /\ d.received = c.received
      /\ d.stored.received = c.stored.received
      /\ d.stored.sent = Delete(c.stored.sent, id)
      /\ SameWire(c, d)
  BY DEF ClientType, Forget, SameWire
<1> HIDE DEF d
<1>2. Memory(d)
  BY <1>1, DeletedMemory DEF Sound
<1>3. Exchanges(d.sent, Wire(n, c.out))
  BY <1>1, ExchangesDelete DEF Sound, Traffic, Linked
<1>4. Traffic(d, n)
  BY <1>1, <1>3 DEF Sound, Traffic, Linked, SameWire
<1> QED
  BY <1>2, <1>4 DEF Sound, d

LEMMA DeliveryMemory ==
  ASSUME NEW c, NEW n, NEW res \in Results, Serene(c, n, res), Sound(c, n),
         NEW id, Free(id, Wire(n, c.out)), NEW body
  PROVE  Sound(Report(Forget(c, id), "onMessageDelivered", body), n)
<1> DEFINE x == Forget(c, id)
           cb == "onMessageDelivered"
<1>1. Serene(x, n, res)
  BY Forgotten
<1>2. ClientType(c) /\ c.connected /\ c.socket = "open"
  BY DEF Serene, Core, Right, QueueRight
<1>3. Sound(x, n)
  BY <1>2, ForgetMemory
<1>4. cb \in {"onMessageArrived", "onMessageDelivered"}
  OBVIOUS
<1> HIDE DEF x, cb
<1>5. Sound(Report(x, cb, body), n)
  BY <1>1, <1>3, <1>4, ReportSound
<1> QED
  BY <1>5 DEF x, cb

(* PUBACK and PUBCOMP                                                      *)
LEMMA PubAckMemory ==
  ASSUME NEW c, NEW n, NEW res \in Results, Serene(c, n, res), Sound(c, n),
         NEW id, Free(id, Wire(n, c.out)), id \in DOMAIN c.sent
  PROVE  Sound(PubAck(c, id), n) /\ Sound(PubComp(c, id), n)
BY DeliveryMemory DEF PubAck, PubComp

(* SUBACK and UNSUBACK                                                     *)
LEMMA RequestAckMemory ==
  ASSUME NEW c, NEW n, NEW res \in Results, Serene(c, n, res), Sound(c, n),
         NEW id, Free(id, Wire(n, c.out)), id \in DOMAIN c.sent,
         c.sent[id].type \in Requests
  PROVE  Sound(RequestAck(c, id), n)
<1> DEFINE i == c.sent[id].body
           less == [c EXCEPT !.requestTimers = @ \ {i}, !.sent = Delete(@, id)]
           cb == "requestSuccess"
           d == Call(less, cb, i)
<1>1. RequestAck(c, id) = d
  BY DEF RequestAck
<1>2. ClientType(c) /\ c.connected /\ c.socket = "open"
  BY DEF Serene, Core, Right, QueueRight
<1> HIDE DEF i
<1>3. /\ ClientType(less) /\ SameWire(c, less)
      /\ less.sent = Delete(c.sent, id) /\ less.stored = c.stored
      /\ less.received = c.received
  BY <1>2 DEF ClientType, SameWire
<1> HIDE DEF less
<1>4. Memory(less)
  <2>1. id \notin Publications(c.sent)
    BY DEF Publications, Requests
  <2> QED
    BY <1>3, <2>1, DeletedMemory DEF Sound
<1>5. Exchanges(less.sent, Wire(n, c.out))
  BY <1>2, <1>3, ExchangesDelete DEF Sound, Traffic, Linked
<1>6. Sound(less, n)
  BY <1>3, <1>4, <1>5 DEF Sound, Traffic, Linked, SameWire
<1>7. SameMemory(less, d) /\ SameWire(less, d)
  BY <1>3, CallMemory DEF SameWire
<1> HIDE DEF d
<1>8. Sound(d, n)
  BY <1>6, <1>7, SoundSame
<1> QED
  BY <1>1, <1>8

(* PUBREC: the mark is kept in both places before PUBREL goes out.         *)
LEMMA PubRecMemory ==
  ASSUME NEW c, NEW n, NEW res \in Results, Serene(c, n, res), Sound(c, n),
         NEW id, Free(id, Wire(n, c.out)), id \in DOMAIN c.sent,
         c.sent[id].type = "PUBLISH", Oversized = {}
  PROVE  LET d == PubRec(c, id)
         IN  Memory(d) /\ (Fit(d.sent) => Sound(d, n))
<1> DEFINE m == c.sent[id]
           m1 == [m EXCEPT !.pubRec = TRUE]
           sent == Put(c.sent, id, m1)
           marked == [c EXCEPT !.sent = sent]
           kept == StoreSent(marked, id)
           rel == Ack("PUBREL", id)
           d == schedule_message(kept, rel)
           w == Wire(n, c.out)
           k == 1
<1>1. /\ ClientType(c) /\ Keeping(c) /\ c.connected /\ c.socket = "open"
      /\ ~ c.threw /\ Exchanges(c.sent, w) /\ Memory(c) /\ Calm(c.queue)
  BY DEF Serene, Core, Right, QueueRight, Sound, Traffic, Linked
<1>2. IsPacket(m) /\ Keepable(m) /\ m.id = id /\ Kept(c.sent) /\ id \in Nat
  BY <1>1 DEF Keeping, Kept, Keepable, Memory, Entries
<1>3. m1.type = "PUBLISH" /\ m1.id = id /\ Keepable(m1)
  <2>1. m.type = "PUBLISH"
    OBVIOUS
  <2> HIDE DEF m
  <2>2. IsPacket(m1) /\ m1.type = m.type /\ m1.id = m.id /\ m1.body = m.body
    BY <1>2 DEF IsPacket
  <2> HIDE DEF m1
  <2> QED
    BY <1>2, <2>1, <2>2 DEF Keepable, Encodable
<1>4. PubRec(c, id) = IF kept.threw THEN kept ELSE d
  <2>1. [c EXCEPT !.sent[id].pubRec = TRUE] = marked
    <3>1. [c.sent EXCEPT ![id].pubRec = TRUE] = sent
      BY DEF Put
    <3>2. [c EXCEPT !.sent[id].pubRec = TRUE]
              = [c EXCEPT !.sent = [c.sent EXCEPT ![id].pubRec = TRUE]]
      BY <1>1 DEF ClientType
    <3> QED
      BY <3>1, <3>2
  <2> HIDE DEF marked
  <2> QED
    BY <2>1 DEF PubRec
<1> HIDE DEF m1
<1>5. /\ DOMAIN sent = DOMAIN c.sent
      /\ \A i \in DOMAIN c.sent : sent[i] = IF i = id THEN m1 ELSE c.sent[i]
  BY DEF Put
<1>6. Kept(sent) /\ Exchanges(sent, w)
  BY <1>1, <1>2, <1>3, KeptPut, ExchangesPut DEF Requests
<1> HIDE DEF sent
<1>7. /\ ClientType(marked) /\ SameButKept(c, marked) /\ marked.sent = sent
      /\ marked.stored = c.stored /\ marked.received = c.received
      /\ marked.threw = c.threw
  BY <1>1 DEF ClientType, SameButKept, SameLink, SamePingers
<1> HIDE DEF marked
<1>8. /\ Keeping(marked) /\ id \in DOMAIN marked.sent
      /\ marked.sent[id].type = "PUBLISH"
  BY <1>1, <1>3, <1>5, <1>6, <1>7 DEF Keeping
<1>9. Following(marked, id)
  <2>1. Following(c, id)
    BY <1>1, MirroredFollows
  <2>2. Entries(sent) /\ Publications(sent) = Publications(c.sent)
    BY <1>3, <1>5, <2>1 DEF Entries, Publications, Following
  <2>3. \A i \in Publications(sent) \ {id} : sent[i] = c.sent[i]
    BY <1>5 DEF Publications
  <2> QED
    BY <1>7, <2>1, <2>2, <2>3 DEF Following
<1>10. /\ Memory(kept) /\ kept.threw = marked.threw
       /\ \E v : kept.sent = Put(marked.sent, id, v) /\ v.type = "PUBLISH"
  BY <1>7, <1>8, <1>9, StoredMemory
<1>11. /\ ClientType(kept) /\ Keeping(kept) /\ SameButKept(marked, kept)
       /\ id \in DOMAIN kept.sent
       /\ kept.sent[id].type = marked.sent[id].type
  BY <1>7, <1>8, Stored
<1> HIDE DEF kept
<1>12. Exchanges(kept.sent, w)
  BY <1>6, <1>7, <1>8, <1>10, ExchangesPut DEF Requests
<1>13. SameButKept(c, kept) /\ SameWire(c, kept) /\ ~ kept.threw
  BY <1>1, <1>7, <1>10, <1>11 DEF SameButKept, SameLink, SamePingers, SameWire
<1>14. Serene(kept, n, res)
  BY <1>11, <1>13, SereneKept
<1>15. Sound(kept, n)
  BY <1>1, <1>10, <1>12, <1>13 DEF Sound, Traffic, Linked, SameWire, w
<1>16. /\ IsPacket(rel) /\ Encodable(rel) /\ rel.id = id
       /\ Named(kept.sent, rel)
  <2>1. IsPacket(rel) /\ Encodable(rel)
    BY Acks DEF Sendable
  <2>2. rel.id = id /\ ~ OnRequest(rel)
    BY DEF Ack, WireMessage, OnRequest, Requests
  <2> HIDE DEF rel
  <2> QED
    BY <1>8, <1>11, <2>1, <2>2 DEF Named, Requests
<1> HIDE DEF rel
<1>17. Free(rel.id, Wire(n, kept.out)) /\ rel.id \in DOMAIN kept.sent
       /\ rel.id \in Nat
  BY <1>2, <1>11, <1>13, <1>16 DEF SameWire
<1>18. /\ k \in {0, 1} /\ Core(kept, n, res, k) /\ ~ kept.draining
       /\ kept.connected
  BY <1>14 DEF Serene, Settled
<1> HIDE DEF k
<1>19. Memory(d) /\ (Fit(d.sent) => Sound(d, n))
  BY <1>13, <1>15, <1>16, <1>17, <1>18, KeptSent
<1> HIDE DEF d
<1> QED
  BY <1>4, <1>13, <1>19

(* PUBREL: the stored copy goes before the report, the other after it.     *)
LEMMA PubRelMemory ==
  ASSUME NEW c, NEW n, NEW res \in Results, Serene(c, n, res), Sound(c, n),
         NEW id
  PROVE  Sound(PubRel(c, id), n)
<1> DEFINE less == Delete(c.stored.received, id)
           removed == [c EXCEPT !.stored.received = less]
           cb == "onMessageArrived"
           body == c.received[id].body
           rep == Report(removed, cb, body)
           told == IF id \in DOMAIN c.received THEN rep ELSE removed
           done == [told EXCEPT !.received = Delete(@, id)]
           comp == Ack("PUBCOMP", id)
           d == schedule_message(done, comp)
           k == 1
<1>1. ClientType(c) /\ Keeping(c) /\ ~ c.threw
  BY DEF Serene, Core, Right
<1>2. PubRel(c, id) = IF told.threw THEN told ELSE d
  BY DEF PubRel
<1>3. cb \in {"onMessageArrived", "onMessageDelivered"}
  OBVIOUS
<1> HIDE DEF less, cb, body
<1>4. /\ ClientType(removed) /\ SameButKept(c, removed) /\ SameWire(c, removed)
      /\ removed.threw = c.threw /\ removed.received = c.received
      /\ removed.sent = c.sent /\ removed.stored.sent = c.stored.sent
      /\ removed.stored.received = less
  BY <1>1 DEF ClientType, SameButKept, SameLink, SamePingers, SameWire
<1> HIDE DEF removed
<1>5. Keeping(removed) /\ Traffic(removed, n)
  BY <1>1, <1>4, SameTraffic DEF Keeping, Sound
<1>6. Serene(removed, n, res)
  BY <1>1, <1>4, <1>5, SereneKept
<1>7. /\ Core(rep, n, res, 1) /\ Settled(rep)
      /\ \/ rep.connected /\ rep.wireMessage = removed.wireMessage
         \/ rep.wireMessage = Ack("DISCONNECT", 0)
  BY <1>3, <1>6, Reported
<1>8. SameMemory(removed, rep) /\ Traffic(rep, n) /\ ~ rep.threw
  BY <1>3, <1>5, <1>6, ReportMemory
<1> HIDE DEF rep
<1>9. /\ Core(told, n, res, 1) /\ Settled(told) /\ ~ told.threw
      /\ SameMemory(removed, told) /\ Traffic(told, n)
  <2>1. /\ Core(removed, n, res, 1) /\ Settled(removed) /\ ~ removed.threw
        /\ SameMemory(removed, removed)
    BY <1>6 DEF Serene, SameMemory
  <2> QED
    BY <1>5, <1>7, <1>8, <2>1
<1> HIDE DEF told
<1> DEFINE left == Delete(told.received, id)
<1>10. ClientType(told) /\ Keeping(told)
  BY <1>9 DEF Core, Right
<1>11. left = less
  BY <1>4, <1>9 DEF SameMemory, Sound, Memory, Mirrored, less
<1>12. /\ ClientType(done) /\ SameButKept(told, done) /\ SameWire(told, done)
       /\ done.threw = told.threw /\ done.received = left
       /\ done.sent = told.sent /\ done.stored = told.stored
  BY <1>10 DEF ClientType, SameButKept, SameLink, SamePingers, SameWire
<1> HIDE DEF done, left
<1>13. Keeping(done)
  BY <1>10, <1>12 DEF Keeping
<1>14. Core(done, n, res, k) /\ ~ done.draining /\ k \in {0, 1}
  BY <1>9, <1>12, <1>13, QuietlyKept DEF Settled, SameButKept
<1> HIDE DEF k
<1>15. Sound(done, n)
  <2>1. Memory(done)
    BY <1>4, <1>9, <1>11, <1>12 DEF SameMemory, Sound, Memory, Mirrored
  <2>2. Traffic(done, n)
    BY <1>9, <1>12, SameTraffic
  <2> QED
    BY <2>1, <2>2 DEF Sound
<1>16. IsPacket(comp) /\ Encodable(comp) /\ ~ Ours(comp)
  <2>1. IsPacket(comp) /\ Encodable(comp)
    BY Acks DEF Sendable
  <2>2. ~ Ours(comp)
    BY DEF Ack, WireMessage, Ours, Requests
  <2> QED
    BY <2>1, <2>2
<1> HIDE DEF comp
<1>17. Sound(d, n)
  BY <1>9, <1>12, <1>14, <1>15, <1>16, OtherSent
<1> HIDE DEF d
<1> QED
  BY <1>2, <1>9, <1>17

(* A packet is taken from the connection: an answer was the only one of    *)
(* its identifier.                                                         *)
LEMMA TakenExchanges ==
  ASSUME NEW w, NetType(w), w.toClient # <<>>
  PROVE  LET v == Taken(w)
             p == Head(w.toClient)
         IN  /\ \A sent : Exchanges(sent, w) =>
                    /\ Exchanges(sent, v)
                    /\ Theirs(p) => Named(sent, p) /\ Free(p.id, v)
             /\ NoExchange(w) => NoExchange(v) /\ ~ Theirs(p)
<1> DEFINE v == Taken(w)
           p == Head(w.toClient)
           s == w.toClient
           t == v.toClient
           l == Len(s)
<1>1. v.toBroker = w.toBroker /\ v.toClient = Tail(s)
  BY DEF NetType, Taken
<1>2. /\ l \in Nat /\ l >= 1 /\ DOMAIN s = 1 .. l /\ DOMAIN t = 1 .. l - 1
      /\ \A i \in 1 .. l - 1 : t[i] = s[i + 1]
      /\ p = s[1]
  BY <1>1, Tailed DEF NetType
<1> HIDE DEF v, p, l
<1>3. \A i \in DOMAIN t : /\ i + 1 \in DOMAIN s /\ t[i] = s[i + 1] /\ i + 1 # 1
                          /\ \A j \in DOMAIN t : i + 1 = j + 1 => i = j
  BY <1>2
<1>4. 1 \in DOMAIN s
  BY <1>2
<1>5. ASSUME NEW sent, Exchanges(sent, w) PROVE Exchanges(sent, v)
  <2>1. ASSUME NEW i \in DOMAIN v.toBroker, Ours(v.toBroker[i])
        PROVE  /\ Named(sent, v.toBroker[i])
               /\ \A j \in DOMAIN v.toBroker :
                      /\ Ours(v.toBroker[j])
                      /\ v.toBroker[j].id = v.toBroker[i].id
                      => i = j
               /\ \A j \in DOMAIN t : Theirs(t[j]) => t[j].id # v.toBroker[i].id
    BY <1>1, <1>3, <1>5, <2>1 DEF Exchanges
  <2>2. ASSUME NEW i \in DOMAIN t, Theirs(t[i])
        PROVE  /\ Named(sent, t[i])
               /\ \A j \in DOMAIN t : Theirs(t[j]) /\ t[j].id = t[i].id => i = j
    BY <1>3, <1>5, <2>2 DEF Exchanges
  <2> QED
    BY <2>1, <2>2 DEF Exchanges
<1>6. ASSUME NEW sent, Exchanges(sent, w), Theirs(p)
      PROVE  Named(sent, p) /\ Free(p.id, v)
  BY <1>1, <1>2, <1>3, <1>4, <1>6 DEF Exchanges, Free
<1>7. NoExchange(w) => NoExchange(v) /\ ~ Theirs(p)
  BY <1>1, <1>2, <1>3, <1>4 DEF NoExchange
<1> QED
  BY <1>5, <1>6, <1>7 DEF v, p

(* What a turn leaves, if the identifiers fit                              *)
Lasting(d, n) == Fit(d.sent) => Sound(d, n)

(* Every packet but CONNACK                                                *)
LEMMA PacketMemory ==
  ASSUME NEW cl, NEW n, NEW res \in Results, NEW packet,
         packet.type # "CONNACK", Oversized = {},
         NEW c, c = [cl EXCEPT !.receivePinger = reset(@)],
         Serene(c, n, res), Sound(c, n),
         Theirs(packet) => /\ Named(c.sent, packet)
                           /\ Free(packet.id, Wire(n, c.out))
  PROVE  Lasting(on_socket_message(cl, packet), n)
<1> DEFINE d == on_socket_message(cl, packet)
           id == packet.id
           d1 == receivePublish(c, packet)
           d2 == PubAck(c, id)
           d3 == PubRec(c, id)
           d4 == PubRel(c, id)
           d5 == PubComp(c, id)
           d6 == RequestAck(c, id)
           p == reset(c.sendPinger)
           d7 == [c EXCEPT !.sendPinger = p]
           d8 == disconnected(c)
           type == packet.type
           acks == {"PUBACK", "PUBREC", "PUBCOMP", "SUBACK", "UNSUBACK"}
<1>1. /\ type = "PUBLISH" => d = d1
      /\ type = "PUBACK" => d = d2
      /\ type = "PUBREC" => d = d3
      /\ type = "PUBREL" => d = d4
      /\ type = "PUBCOMP" => d = d5
      /\ type \in {"SUBACK", "UNSUBACK"} => d = d6
      /\ type = "PINGRESP" => d = d7
      /\ type \notin acks \cup {"PUBLISH", "PUBREL", "PINGRESP"} => d = d8
  BY DEF on_socket_message
<1>2. ClientType(c) /\ Memory(c)
  BY DEF Serene, Core, Right, Sound
<1>3. type \in acks => /\ Named(c.sent, packet) /\ Free(id, Wire(n, c.out))
                       /\ id \in DOMAIN c.sent
  BY DEF Theirs, Named
<1>4. type \in {"SUBACK", "UNSUBACK"} => c.sent[id].type \in Requests
  BY <1>3 DEF Named, OnRequest
<1>5. type = "PUBREC" => c.sent[id].type = "PUBLISH"
  BY <1>2, <1>3 DEF Named, OnRequest, Requests, Memory, Entries
<1> SUFFICES Lasting(d, n)
  OBVIOUS
<1> HIDE DEF d
<1>6. \A x : Sound(x, n) => Lasting(x, n)
  BY DEF Sound, Lasting
<1>7. CASE type = "PUBLISH"
  BY <1>1, <1>6, <1>7, PublishMemory
<1>8. CASE type \in {"PUBACK", "PUBCOMP"}
  <2>1. Sound(d2, n) /\ Sound(d5, n)
    BY <1>3, <1>8, PubAckMemory
  <2> QED
    BY <1>1, <1>6, <1>8, <2>1
<1>9. CASE type = "PUBREC"
  <2>1. Memory(d3) /\ (Fit(d3.sent) => Sound(d3, n))
    BY <1>3, <1>5, <1>9, PubRecMemory
  <2> QED
    BY <1>1, <1>9, <2>1 DEF Lasting
<1>10. CASE type = "PUBREL"
  BY <1>1, <1>6, <1>10, PubRelMemory
<1>11. CASE type \in {"SUBACK", "UNSUBACK"}
  <2>1. Sound(d6, n)
    BY <1>3, <1>4, <1>11, RequestAckMemory
  <2> QED
    BY <1>1, <1>6, <1>11, <2>1
<1>12. CASE type = "PINGRESP"
  <2> HIDE DEF p
  <2>1. SameMemory(c, d7) /\ SameWire(c, d7)
    BY <1>2 DEF ClientType, SameMemory, SameWire
  <2>2. Sound(d7, n)
    BY <2>1, SoundSame
  <2> QED
    BY <1>1, <1>6, <1>12, <2>2
<1>13. CASE type \notin acks \cup {"PUBLISH", "PUBREL", "PINGRESP"}
  <2>1. SameMemory(c, d8) /\ Traffic(d8, n)
    BY <1>2, LostTraffic
  <2>2. Sound(d8, n)
    BY <1>2, <2>1, SoundSame DEF Sound
  <2> QED
    BY <1>1, <1>6, <1>13, <2>2
<1> QED
  BY <1>7, <1>8, <1>9, <1>10, <1>11, <1>12, <1>13

-----------------------------------------------------------------------------
(* The CONNACK handler: clearing empties memory and storage together.      *)
LEMMA ClearedMemory ==
  ASSUME NEW c, ClientType(c), Memory(c)
  PROVE  Memory(Cleared(c))
<1> DEFINE timed == [c EXCEPT !.connectTimer = FALSE]
           cleared == ClearState(timed)
<1>1. Cleared(c) = IF c.clean THEN cleared ELSE timed
  BY DEF Cleared
<1>2. ClientType(timed) /\ SameMemory(c, timed)
  BY DEF ClientType, SameMemory
<1> HIDE DEF timed
<1>3. Memory(timed)
  BY <1>2, SoundSame
<1> DEFINE left == [id \in DOMAIN timed.stored.sent \ DOMAIN timed.sent
                        |-> timed.stored.sent[id]]
           rest == [id \in DOMAIN timed.stored.received
                            \ DOMAIN timed.received
                        |-> timed.stored.received[id]]
<1>4. cleared = [timed EXCEPT !.sent = EmptyMap, !.received = EmptyMap,
                              !.stored = [sent |-> left, received |-> rest]]
  BY DEF ClearState
<1>5. /\ DOMAIN timed.stored.sent \subseteq DOMAIN timed.sent
      /\ DOMAIN timed.stored.received = DOMAIN timed.received
  BY <1>3 DEF Memory, Mirrored, Publications
<1>6. left = EmptyMap /\ rest = EmptyMap
  <2>1. /\ DOMAIN timed.stored.sent \ DOMAIN timed.sent = {}
        /\ DOMAIN timed.stored.received \ DOMAIN timed.received = {}
    BY <1>5
  <2>2. left = [id \in {} |-> timed.stored.sent[id]]
        /\ rest = [id \in {} |-> timed.stored.received[id]]
    BY <2>1
  <2> QED
    BY <2>2 DEF EmptyMap
<1> HIDE DEF left, rest, cleared
<1>7. /\ cleared.sent = EmptyMap /\ cleared.received = EmptyMap
      /\ cleared.stored.sent = EmptyMap /\ cleared.stored.received = EmptyMap
  BY <1>2, <1>4, <1>6 DEF ClientType
<1>8. Entries(EmptyMap) /\ Publications(EmptyMap) = {}
  BY DEF EmptyMap, Entries, Publications
<1>9. EmptyMap = [id \in Publications(EmptyMap) |-> EmptyMap[id]]
  BY <1>8 DEF EmptyMap
<1>10. Memory(cleared)
  BY <1>7, <1>8, <1>9 DEF Memory, Mirrored
<1> QED
  BY <1>1, <1>3, <1>10

(* One message is sent again, under an identifier that is free.            *)
LEMMA ResentMemory ==
  ASSUME NEW x, NEW n, NEW res \in Results, NEW i \in Nat,
         Resending(x, n, res, i), NEW message, Keepable(message)
  PROVE  LET y == Resend(x, message)
         IN  /\ SameMemory(x, y)
             /\ /\ Traffic(x, n)
                /\ message.id \in Nat /\ message.id < IdSpace
                /\ Named(x.sent, message)
                /\ x.connected => Free(message.id, Wire(n, x.out))
                => /\ Traffic(y, n)
                   /\ y.connected =>
                          /\ x.connected
                          /\ \A id : /\ Free(id, Wire(n, x.out))
                                     /\ id # message.id
                                     => Free(id, Wire(n, y.out))
<1> DEFINE rel == Ack("PUBREL", message.id)
           m == IF message.type = "PUBLISH" /\ message.pubRec
                THEN rel ELSE message
           d == schedule_message(x, m)
           k == 0
<1>1. CASE x.threw
  <2>1. Resend(x, message) = x
    BY <1>1 DEF Resend
  <2> QED
    BY <2>1 DEF SameMemory
<1>2. CASE ~ x.threw
  <2>1. Resend(x, message) = d
    BY <1>2 DEF Resend
  <2>2. IsPacket(m) /\ (FewMisspelt => Encodable(m)) /\ m.id = message.id
    <3>1. IsPacket(rel) /\ Encodable(rel) /\ rel.id = message.id
      BY Acks DEF Sendable, Ack, WireMessage
    <3> QED
      BY <3>1 DEF Keepable
  <2>3. Named(x.sent, message) => Named(x.sent, m)
    <3>1. ~ OnRequest(rel) /\ rel.id = message.id
      BY DEF Ack, WireMessage, OnRequest, Requests
    <3>2. message.type = "PUBLISH" => ~ OnRequest(message)
      BY DEF OnRequest, Requests
    <3> HIDE DEF rel
    <3> QED
      BY <3>1, <3>2 DEF Named
  <2> HIDE DEF m
  <2>4. /\ Core(x, n, res, k) /\ ~ x.draining /\ x.connected /\ k \in {0, 1}
        /\ (x.notify => x.queue # <<>>)
    BY <1>2 DEF Resending
  <2> HIDE DEF k
  <2>5. /\ SameMemory(x, d)
        /\ Traffic(x, n) /\ Fits(x, n, m) => Onward(x, d, n, m)
    BY <1>2, <2>2, <2>4, ScheduledMemory
  <2> HIDE DEF d
  <2> QED
    BY <2>1, <2>2, <2>3, <2>4, <2>5 DEF Onward, Fits
<1> QED
  BY <1>1, <1>2

(* All of them are, each once.                                             *)
LEMMA AllResentMemory ==
  ASSUME NEW up, NEW n, NEW res \in Results, Core(up, n, res, 0),
         up.connected, ~ up.draining, ~ up.threw,
         up.notify => up.queue # <<>>,
         Sound(up, n), \A id : Free(id, Wire(n, up.out))
  PROVE  Lasting(FoldLeft(Resend, up, SequencedMessages(up.sent)), n)
<1> DEFINE seq == SequencedMessages(up.sent)
           e == FoldLeft(Resend, up, seq)
           l == Len(seq)
           fit == Fit(up.sent)
<1>1. Kept(up.sent) /\ Entries(up.sent)
  BY DEF Core, Right, Keeping, Sound, Memory
<1>2. /\ IsSequence(seq) /\ l \in Nat /\ DOMAIN seq = 1 .. l
      /\ \A i \in DOMAIN seq : /\ Keepable(seq[i])
                               /\ seq[i].id \in DOMAIN up.sent
                               /\ seq[i] = up.sent[seq[i].id]
      /\ Distinct(seq)
  BY <1>1, SequencedKept DEF Entries
<1> HIDE DEF seq
<1>3. PICK f : Resends(f, up, n, res, seq)
  BY <1>2, ResendSteps
<1>4. /\ f[0] = up /\ e = f[l]
      /\ \A k \in 1 .. l : f[k] = Resend(f[k - 1], seq[k])
      /\ \A k \in 0 .. l : Resending(f[k], n, res, k)
  BY <1>2, <1>3 DEF Resends
<1> HIDE DEF e, l
<1> DEFINE Left(x, k) == x.connected => \A j \in k + 1 .. l :
                             Free(seq[j].id, Wire(n, x.out))
           Walked(x, k) == /\ SameMemory(up, x)
                           /\ fit => Traffic(x, n) /\ Left(x, k)
           T == {k \in 0 .. l : Walked(f[k], k)}
<1>5. 0 \in T
  <2>1. Walked(up, 0)
    BY DEF SameMemory, Sound
  <2> HIDE DEF Walked
  <2> QED
    BY <1>2, <1>4, <2>1
<1>6. ASSUME NEW k \in 0 .. l - 1, k \in T PROVE k + 1 \in T
  <2>1. /\ k + 1 \in 1 .. l /\ (k + 1) - 1 = k /\ k + 1 \in 0 .. l
        /\ k \in Nat /\ k + 1 \in k + 1 .. l
        /\ \A j \in (k + 1) + 1 .. l : j \in k + 1 .. l /\ j \in 1 .. l /\ j # k + 1
    BY <1>2
  <2> DEFINE x == f[k]
             m == seq[k + 1]
             y == Resend(x, m)
  <2>2. f[k + 1] = y
    BY <1>4, <2>1
  <2>3. Walked(x, k)
    <3> HIDE DEF Walked
    <3> QED
      BY <1>6
  <2>4. /\ Keepable(m) /\ m.id \in DOMAIN up.sent /\ m = up.sent[m.id]
        /\ \A j \in (k + 1) + 1 .. l : seq[j].id # m.id
    BY <1>2, <2>1 DEF Distinct
  <2>5. Resending(x, n, res, k) /\ m = seq[k + 1]
    <3>1. k \in 0 .. l
      BY <1>2, <2>1
    <3>2. Resending(f[k], n, res, k)
      BY <1>4, <3>1
    <3> QED
      BY <3>2
  <2> HIDE DEF x, m
  <2>6. m.id \in Nat /\ (fit => m.id < IdSpace)
    BY <1>1, <2>4 DEF Kept, Fit
  <2>7. Named(up.sent, m)
    <3>1. m.type \in Requests \cup {"PUBLISH"}
      BY <1>1, <2>4 DEF Entries
    <3> QED
      BY <2>4, <3>1 DEF Named, OnRequest, Requests
  <2>8. fit => /\ Traffic(x, n) /\ Named(x.sent, m)
               /\ x.connected => Free(m.id, Wire(n, x.out))
    BY <2>1, <2>3, <2>5, <2>7 DEF SameMemory
  <2>9. /\ SameMemory(x, y)
        /\ /\ Traffic(x, n)
           /\ m.id \in Nat /\ m.id < IdSpace
           /\ Named(x.sent, m)
           /\ x.connected => Free(m.id, Wire(n, x.out))
           => /\ Traffic(y, n)
              /\ y.connected =>
                     /\ x.connected
                     /\ \A id : /\ Free(id, Wire(n, x.out))
                                /\ id # m.id
                                => Free(id, Wire(n, y.out))
    BY <2>1, <2>4, <2>5, ResentMemory
  <2> HIDE DEF y, fit
  <2>10. SameMemory(up, y)
    BY <2>3, <2>9 DEF SameMemory
  <2>11. ASSUME fit PROVE Traffic(y, n) /\ Left(y, k + 1)
    <3>1. /\ Traffic(y, n)
          /\ y.connected =>
                 /\ x.connected
                 /\ \A id : /\ Free(id, Wire(n, x.out))
                            /\ id # m.id
                            => Free(id, Wire(n, y.out))
      BY <2>6, <2>8, <2>9, <2>11
    <3>2. Left(x, k)
      BY <2>3, <2>11
    <3> QED
      BY <2>1, <2>4, <3>1, <3>2
  <2>12. Walked(y, k + 1)
    <3> HIDE DEF Left
    <3> QED
      BY <2>10, <2>11
  <2> HIDE DEF Walked
  <2> QED
    BY <2>1, <2>2, <2>12
<1>7. l \in T
  <2>1. T \in SUBSET (0 .. l)
    OBVIOUS
  <2> HIDE DEF T
  <2>2. T = 0 .. l
    BY <1>2, <1>5, <1>6, <2>1, Induction
  <2> QED
    BY <1>2, <2>2
<1>8. Walked(e, l)
  <2> HIDE DEF Walked
  <2> QED
    BY <1>4, <1>7
<1>9. Lasting(e, n)
  BY <1>8, SoundSame DEF Sound, Lasting, SameMemory
<1> QED
  BY <1>9 DEF e, seq

(* A request takes no identifier away.                                     *)
LEMMA RequestKeeps ==
  ASSUME NEW c, NEW n, NEW res \in Results, NEW k \in {0, 1},
         Core(c, n, res, k), c.connected, ~ c.draining, ~ c.threw,
         NEW type \in {"SUBSCRIBE", "UNSUBSCRIBE"}
  PROVE  DOMAIN c.sent \subseteq DOMAIN Request(c, type).sent
<1> DEFINE i == c.requests + 1
           timers == IF RequestTimeout THEN c.requestTimers \cup {i}
                                       ELSE c.requestTimers
           timed == [c EXCEPT !.requests = i, !.requestTimers = timers]
           kept == requires_ack(timed, type, i)
           m == kept.wireMessage
           d == schedule_message(kept, m)
<1>1. ClientType(c) /\ Keeping(c)
  BY DEF Core, Right
<1>2. Request(c, type) = IF kept.threw THEN kept ELSE d
  BY DEF Request
<1> HIDE DEF i, timers
<1>3. /\ ClientType(timed) /\ SameButKept(c, timed)
      /\ timed.connected /\ ~ timed.draining /\ SameMemory(c, timed)
  BY <1>1 DEF ClientType, SameButKept, SameLink, SamePingers, SameMemory
<1> HIDE DEF timed
<1>4. Keeping(timed)
  BY <1>1, <1>3 DEF Keeping, SameMemory
<1>5. Core(timed, n, res, k)
  BY <1>3, <1>4, QuietlyKept
<1>6. /\ Core(kept, n, res, k) /\ kept.draining = timed.draining
      /\ ~ kept.threw => /\ IsPacket(kept.wireMessage)
                         /\ kept.wireMessage.type = type
  BY <1>5, Acknowledged
<1>7. DOMAIN timed.sent \subseteq DOMAIN kept.sent
  <2> DEFINE id == UnusedIdentifier(timed)
             map == Put(timed.sent, id, WireMessage(type, id, i))
             more == [timed EXCEPT !.messageIdentifier = id, !.sent = map]
             named == [more EXCEPT !.wireMessage = more.sent[id]]
  <2>1. kept = Throw(timed) \/ kept = named
    BY DEF requires_ack
  <2>2. DOMAIN timed.sent \subseteq DOMAIN map
    BY DEF Put
  <2> HIDE DEF kept, map
  <2>3. named.sent = map /\ Throw(timed).sent = timed.sent
    BY <1>3 DEF ClientType, Throw
  <2> HIDE DEF named
  <2> QED
    BY <2>1, <2>2, <2>3
<1> HIDE DEF kept
<1>8. ~ kept.threw => SameMemory(kept, d)
  <2> SUFFICES ASSUME ~ kept.threw PROVE SameMemory(kept, d)
    OBVIOUS
  <2>1. IsPacket(m) /\ Encodable(m) /\ ~ kept.draining
    BY <1>3, <1>6 DEF Encodable
  <2> QED
    BY <1>6, <2>1, ScheduledMemory
<1> HIDE DEF d
<1> QED
  BY <1>2, <1>3, <1>7, <1>8 DEF SameMemory

(* onSuccess may subscribe at once.                                        *)
LEMMA SuccessMemory ==
  ASSUME NEW c, NEW n, NEW res \in Results, Core(c, n, res, 0),
         c.connected, ~ c.draining, ~ c.threw,
         Oversized = {}, Lasting(c, n)
  PROVE  Lasting(onSuccess(c), n)
<1> DEFINE told == Call(c, "onSuccess", c.attempt)
           type == "SUBSCRIBE"
           sub == Request(told, type)
           k == 1
<1>1. onSuccess(c) = c \/ onSuccess(c) = told \/ onSuccess(c) = sub
  BY DEF onSuccess
<1>2. /\ Core(told, n, res, k) /\ SameTurn(c, told)
      /\ told.threw = c.threw
  BY Greeted
<1>3. SameMemory(c, told) /\ SameWire(c, told)
  <2>1. ClientType(c)
    BY DEF Core, Right
  <2> DEFINE cb == "onSuccess"
             arg == c.attempt
             e == Call(c, cb, arg)
  <2> HIDE DEF cb, arg
  <2>2. SameMemory(c, e) /\ SameWire(c, e)
    BY <2>1, CallMemory DEF SameWire
  <2> QED
    BY <2>2 DEF cb, arg
<1> HIDE DEF told
<1>4. told.connected /\ ~ told.draining /\ ~ told.threw
  BY <1>2 DEF SameTurn
<1>5. Lasting(told, n)
  BY <1>3, SoundSame DEF Lasting, SameMemory
<1>6. k \in {0, 1} /\ type \in {"SUBSCRIBE", "UNSUBSCRIBE"}
  OBVIOUS
<1> HIDE DEF k, type
<1>7. Lasting(sub, n)
  <2>1. DOMAIN told.sent \subseteq DOMAIN sub.sent
    BY <1>2, <1>4, <1>6, RequestKeeps
  <2>2. Sound(told, n) => Lasting(sub, n)
    BY <1>2, <1>4, <1>6, RequestMemory DEF Lasting
  <2> QED
    BY <1>5, <2>1, <2>2 DEF Lasting, Fit
<1> QED
  BY <1>1, <1>5, <1>7

(* What was queued meanwhile began no exchange.                            *)
LEMMA QueueMemory ==
  ASSUME NEW c, NEW n, NEW res \in Results, Welcome(c, n, res), ~ c.threw,
         Lasting(c, n)
  PROVE  Lasting(process_queue(c), n)
<1> DEFINE seq == c.queue
           d == process_queue(c)
<1>1. /\ ClientType(c) /\ IsSequence(seq) /\ AllSendable(seq) /\ Waiting(seq)
      /\ Core(c, n, res, 1) /\ ~ c.draining
      /\ c.connected => c.socket = "open"
  BY DEF Welcome, Core, Right, ClientType, QueueRight
<1>2. CASE c.connected
  <2>1. c = [c EXCEPT !.queue = seq]
    BY <1>1 DEF ClientType
  <2>2. \A i \in DOMAIN seq : \/ Encodable(seq[i])
                              \/ i = Len(seq) /\ (c.notify => i > 1)
    BY <1>1 DEF Waiting
  <2>3. Sound(c, n) => Ready(c, n, seq)
    <3> SUFFICES ASSUME Sound(c, n) PROVE Ready(c, n, seq)
      OBVIOUS
    <3>1. Exchanges(c.sent, Wire(n, c.out)) /\ Calm(seq)
      BY <1>1, <1>2 DEF Sound, Traffic, Linked
    <3>2. seq # <<>> => Len(seq) \in DOMAIN seq
      BY <1>1, Appended
    <3>3. seq # <<>> => Fits(c, n, seq[Len(seq)])
      BY <3>1, <3>2, OthersFit DEF Calm
    <3> QED
      BY <3>1, <3>3 DEF Ready, Calm
  <2> HIDE DEF seq
  <2> DEFINE k == 1
  <2>4. k \in {0, 1} /\ Core(c, n, res, k)
    BY <1>1
  <2> HIDE DEF k
  <2>5. d.queue = <<>> /\ (d.connected \/ Down(d))
    BY <1>1, <1>2, <2>1, <2>2, <2>4, Processed
  <2>6. /\ SameMemory(c, d)
        /\ Ready(c, n, seq) /\ d.connected => Exchanges(d.sent, Wire(n, d.out))
    BY <1>1, <1>2, <2>1, <2>2, <2>4, ProcessedMemory
  <2> HIDE DEF d
  <2>7. Ready(c, n, seq) => Traffic(d, n)
    BY <2>5, <2>6 DEF Traffic, Calm, Linked, Down
  <2>8. Lasting(d, n)
    BY <2>3, <2>6, <2>7, SoundSame DEF Lasting, Sound, SameMemory
  <2> QED
    BY <2>8 DEF d
<1>3. CASE ~ c.connected
  <2>1. c.queue = <<>> /\ Settled(c) /\ ~ c.notify
    BY <1>3 DEF Welcome
  <2> DEFINE base == [c EXCEPT !.queue = <<>>, !.draining = TRUE]
  <2>2. d = [FoldLeft(SendNext, base, <<>>) EXCEPT !.draining = FALSE]
    BY <2>1 DEF process_queue
  <2>3. FoldLeft(SendNext, base, <<>>) = base
    <3> HIDE DEF base
    <3>1. DOMAIN <<>> = {}
      OBVIOUS
    <3> QED
      BY <3>1 DEF FoldLeft, MapThenFoldSet
  <2> HIDE DEF d
  <2>4. d = [base EXCEPT !.draining = FALSE]
    BY <2>2, <2>3
  <2>5. d = c
    BY <1>1, <2>1, <2>4 DEF ClientType
  <2> QED
    BY <2>5 DEF d
<1> QED
  BY <1>2, <1>3

(* The whole of the handler: before it, no exchange has begun.             *)
LEMMA ConnAckMemory ==
  ASSUME NEW cl, NEW w, NEW res \in Results, Right(cl, w, res, 1),
         Settled(cl), Between(cl), cl.socket = "open", ~ cl.connected,
         Answered(w), NEW code, Oversized = {}, Sound(cl, w)
  PROVE  Lasting(ConnAck(Stirred(cl), code), Taken(w))
<1> DEFINE c == Stirred(cl)
           n == Taken(w)
           ready == Cleared(c)
           up == Raised(c)
           resent == FoldLeft(Resend, up, SequencedMessages(up.sent))
           told == IF resent.threw THEN resent ELSE onSuccess(resent)
           lost == disconnected(ready)
           done == process_queue(told)
           d == ConnAck(c, code)
<1>1. d = IF code # 0 THEN lost ELSE IF told.threw THEN told ELSE done
  BY DEF ConnAck, Cleared, Raised
<1>2. /\ ClientType(ready)
      /\ Core(up, n, res, 0) /\ up.connected /\ ~ up.draining
      /\ ~ up.threw /\ (up.notify => up.queue # <<>>)
      /\ up.queue = cl.queue /\ up.out = <<>>
      /\ up.sent = ready.sent /\ up.stored = ready.stored
      /\ up.received = ready.received
  BY Raising
<1>3. /\ ClientType(cl) /\ NetType(w) /\ w.toClient # <<>> /\ cl.out = <<>>
      /\ cl.calls = <<>>
  BY DEF Right, Answered, Between
<1>4. ClientType(c) /\ Memory(c)
  <2> DEFINE p == reset(cl.receivePinger)
             e == [cl EXCEPT !.receivePinger = p]
  <2>1. ClientType(c)
    BY <1>3, PingerStirred
  <2>2. c = e
    BY DEF Stirred
  <2> HIDE DEF p
  <2>3. SameMemory(cl, e)
    BY <1>3 DEF ClientType, SameMemory
  <2> HIDE DEF c, e
  <2> QED
    BY <2>1, <2>2, <2>3, SoundSame DEF Sound
<1>5. NoExchange(w) /\ Calm(cl.queue)
  <2>1. Wire(w, cl.out) = w
    BY <1>3, NothingSent
  <2> QED
    BY <2>1 DEF Sound, Traffic, Linked
<1>6. NoExchange(n)
  BY <1>3, <1>5, TakenExchanges
<1> HIDE DEF c, n
<1>7. Memory(ready)
  BY <1>4, ClearedMemory
<1> HIDE DEF ready, up
<1>8. Sound(up, n) /\ \A id : Free(id, Wire(n, up.out))
  <2>1. Memory(up)
    BY <1>2, <1>7 DEF Memory, Mirrored
  <2>2. Wire(n, up.out) = n
    BY <1>2, NothingSent
  <2>3. Exchanges(up.sent, n) /\ \A id : Free(id, n)
    BY <1>6, NoneBegun
  <2>4. Traffic(up, n)
    BY <1>2, <1>5, <2>2, <2>3 DEF Traffic, Linked
  <2> QED
    BY <2>1, <2>2, <2>3, <2>4 DEF Sound
<1> HIDE DEF resent, told, lost, done, d
<1>9. Lasting(lost, n)
  <2>1. SameMemory(ready, lost) /\ Traffic(lost, n)
    BY <1>2, LostTraffic DEF lost
  <2> QED
    BY <1>7, <2>1, SoundSame DEF Lasting, Sound
<1>10. /\ Resending(resent, n, res, 0)
       /\ ~ resent.threw => resent.queue = <<>> \/ DOMAIN resent.sent = {}
  BY <1>2, Resent DEF resent
<1>11. Lasting(resent, n)
  BY <1>2, <1>8, AllResentMemory DEF resent
<1>12. Lasting(told, n) /\ (~ told.threw => Welcome(told, n, res))
  <2>1. CASE resent.threw
    BY <1>11, <2>1 DEF told
  <2>2. CASE ~ resent.threw
    <3>1. /\ Core(resent, n, res, 0) /\ resent.connected /\ ~ resent.draining
          /\ (resent.notify => resent.queue # <<>>)
          /\ resent.queue = <<>> \/ DOMAIN resent.sent = {}
      BY <1>10, <2>2 DEF Resending
    <3>2. told = onSuccess(resent)
      BY <2>2 DEF told
    <3>3. Welcome(onSuccess(resent), n, res)
      BY <2>2, <3>1, Welcomed
    <3>4. Lasting(onSuccess(resent), n)
      BY <1>11, <2>2, <3>1, SuccessMemory
    <3> QED
      BY <3>2, <3>3, <3>4
  <2> QED
    BY <2>1, <2>2
<1>13. ~ told.threw => Lasting(done, n)
  BY <1>12, QueueMemory DEF done
<1>14. Lasting(d, n)
  BY <1>1, <1>9, <1>12, <1>13
<1> QED
  BY <1>14 DEF d, c, n

-----------------------------------------------------------------------------
(* The turns of the client, each from its beginning to the next            *)
LEMMA TurnSound ==
  ASSUME NEW after, ClientType(after), NEW n, Turn(after, n),
         Lasting(after, n), Fit(client'.sent)
  PROVE  Sound(client', net')
<1> DEFINE w == Wire(n, after.out)
           c == [after EXCEPT !.out = <<>>, !.calls = <<>>, !.threw = FALSE,
                              !.wireMessage = Ack(None, 0)]
<1>1. client' = c /\ net' = w
  BY DEF Turn, Wire
<1> HIDE DEF w
<1>2. /\ SameMemory(after, c) /\ c.connected = after.connected
      /\ c.socket = after.socket /\ c.queue = after.queue /\ c.out = <<>>
  BY DEF ClientType, SameMemory
<1> HIDE DEF c
<1>3. Sound(after, n)
  BY <1>1, <1>2 DEF Lasting, SameMemory
<1>4. Wire(w, c.out) = w
  BY <1>2, NothingSent
<1>5. Traffic(c, w)
  BY <1>2, <1>3, <1>4 DEF Sound, Traffic, Linked, SameMemory, w
<1>6. Memory(c)
  BY <1>2, <1>3, SoundSame DEF Sound
<1> QED
  BY <1>1, <1>5, <1>6 DEF Sound

(* connect()                                                               *)
LEMMA AppConnectSound ==
  ASSUME IInv, Sound(client, net), AppConnect, Fit(client'.sent)
  PROVE  Sound(client', net')
<1>1. PICK clean \in CleanChoices, hosts \in HostChoices :
          Turn(connect(client, clean, hosts), net)
  BY DEF AppConnect
<1> DEFINE count == client.attempt + 1
           opts == [client EXCEPT !.clean = clean, !.hosts = hosts,
                                  !.hostIndex = 0, !.attempt = count]
           d == doConnect(opts)
<1>2. clean \in BOOLEAN /\ hosts \in Nat
  BY SystemAssumption
<1>3. /\ ClientType(client) /\ ~ client.connected /\ client.socket = "none"
  BY Starting DEF AppConnect, MayConnect, Right, QueueRight
<1>4. connect(client, clean, hosts) = d
  BY <1>3 DEF connect
<1>5. ClientType(opts) /\ SameMemory(client, opts) /\ opts.queue = client.queue
  <2>1. count \in Nat
    BY <1>3 DEF ClientType
  <2> HIDE DEF count
  <2> QED
    BY <1>2, <1>3, <2>1 DEF ClientType, SameMemory
<1> HIDE DEF opts
<1>6. ClientType(d)
  <2> DEFINE out == Append(opts.out, Ack("dial", 0))
             e == [opts EXCEPT !.connected = FALSE, !.socket = "connecting",
                               !.sendPinger = NewPinger,
                               !.receivePinger = NewPinger,
                               !.connectTimer = TRUE, !.out = out]
  <2>1. IsSequence(out) /\ NewPinger \in PingerType
    BY <1>5, Appended DEF ClientType, NewPinger, PingerType
  <2>2. d = e
    BY DEF doConnect
  <2> HIDE DEF out, d
  <2>3. ClientType(e)
    BY <1>5, <2>1 DEF ClientType
  <2> QED
    BY <2>2, <2>3
<1>7. /\ SameMemory(opts, d) /\ d.socket = "connecting"
      /\ d.queue = opts.queue
  BY <1>5, DialMemory
<1> HIDE DEF d
<1>8. Sound(d, net)
  BY <1>5, <1>7 DEF Sound, Memory, Mirrored, SameMemory, Traffic, Linked
<1> QED
  BY <1>1, <1>4, <1>6, <1>8, TurnSound DEF Lasting

(* send()                                                                  *)
LEMMA AppSendSound ==
  ASSUME IInv, Sound(client, net), AppSend, Oversized = {},
         Fit(client'.sent)
  PROVE  Sound(client', net')
<1>1. PICK i \in DOMAIN Outbound : Turn(send(client, Outbound[i]), net)
  BY DEF AppSend
<1> DEFINE m == Outbound[i]
           d == send(client, m)
<1>2. m \in Messages
  BY SystemAssumption
<1> HIDE DEF m
<1>3. Serene(client, net, results) /\ results \in Results
  BY Starting DEF AppSend
<1>4. ClientType(d)
  BY <1>2, <1>3, SendCalled DEF Core, Right
<1>5. Lasting(d, net)
  BY <1>2, <1>3, SendMemory DEF Lasting
<1> HIDE DEF d
<1> QED
  BY <1>1, <1>4, <1>5, TurnSound DEF d, m

(* subscribe() and unsubscribe()                                           *)
LEMMA AppRequestSound ==
  ASSUME IInv, Sound(client, net), AppRequest, Oversized = {},
         Fit(client'.sent)
  PROVE  Sound(client', net')
<1>1. PICK type \in {"SUBSCRIBE", "UNSUBSCRIBE"} :
          Turn(Request(client, type), net)
  BY DEF AppRequest
<1> DEFINE d == Request(client, type)
           k == 1
<1>2. /\ Core(client, net, results, k) /\ client.connected
      /\ ~ client.draining /\ ~ client.threw
      /\ (client.notify => client.queue # <<>>) /\ client.queue = <<>>
      /\ results \in Results /\ k \in {0, 1}
  BY Starting DEF AppRequest, Settled
<1> HIDE DEF k
<1>3. ClientType(d)
  BY <1>2, Requested DEF Core, Right
<1>4. Lasting(d, net)
  BY <1>2, RequestMemory DEF Lasting
<1> HIDE DEF d
<1> QED
  BY <1>1, <1>3, <1>4, TurnSound DEF d

(* disconnect()                                                            *)
LEMMA AppDisconnectSound ==
  ASSUME IInv, Sound(client, net), AppDisconnect, Fit(client'.sent)
  PROVE  Sound(client', net')
<1> DEFINE early == Call(client, "early", client.attempt)
           c == IF client.connected THEN client ELSE early
           d == disconnect(c)
<1>1. Turn(d, net) /\ client.socket # "none"
  BY DEF AppDisconnect
<1>2. ~ client.connected =>
          /\ Core(early, net, results, 1) /\ ~ early.draining /\ ~ early.threw
          /\ early.socket # "none"
          /\ Counted(early, Heard(results, early.calls))
  BY <1>1, EarlyCalled
<1>3. SameMemory(client, early) /\ SameWire(client, early)
  <2> DEFINE cb == "early"
             arg == client.attempt
             e == Call(client, cb, arg)
  <2>1. ClientType(client)
    BY Starting
  <2> HIDE DEF cb, arg
  <2>2. SameMemory(client, e) /\ SameWire(client, e)
    BY <2>1, CallMemory DEF SameWire
  <2> QED
    BY <2>2 DEF cb, arg
<1> HIDE DEF early
<1>4. /\ Core(client, net, results, 1) /\ ~ client.draining /\ ~ client.threw
      /\ results \in Results
  BY Starting DEF Settled
<1> DEFINE k == 1
<1>5. /\ Core(c, net, results, k) /\ ~ c.draining /\ ~ c.threw
      /\ c.socket # "none" /\ k \in {0, 1}
      /\ \/ c.connected /\ k = 1
         \/ Counted(c, Heard(results, c.calls))
  BY <1>1, <1>2, <1>4
<1>6. Sound(c, net)
  BY <1>3, SoundSame
<1> HIDE DEF c, k
<1>7. ClientType(d)
  BY <1>4, <1>5, DisconnectCalled DEF Core, Right
<1>8. SameMemory(c, d) /\ Traffic(d, net)
  BY <1>4, <1>5, <1>6, DisconnectMemory DEF Sound
<1> HIDE DEF d
<1>9. Sound(d, net)
  BY <1>6, <1>8, SoundSame DEF Sound
<1> QED
  BY <1>1, <1>7, <1>9, TurnSound DEF Lasting

(* A reload finds in the storage what was in memory, but for the requests. *)
LEMMA ReloadSound ==
  ASSUME IInv, Sound(client, net), Reload
  PROVE  Sound(client', net')
<1> DEFINE c == ClientImpl(client.stored, client.attempt, client.reaction)
           kept == Publications(client.sent)
           sent == client.stored.sent
<1>1. client' = c
  BY DEF Reload
<1>2. /\ c.socket = "none" /\ c.queue = <<>> /\ c.sent = sent
      /\ c.received = client.stored.received /\ c.stored = client.stored
  BY DEF ClientImpl
<1> HIDE DEF c
<1>3. Entries(client.sent) /\ sent = [id \in kept |-> client.sent[id]]
  BY DEF Sound, Memory, Mirrored
<1> HIDE DEF sent
<1>4. DOMAIN sent = kept /\ \A id \in kept : sent[id] = client.sent[id]
  BY <1>3
<1>5. Entries(sent) /\ Publications(sent) = kept
  BY <1>3, <1>4 DEF Entries, Publications
<1>6. sent = [id \in kept |-> sent[id]]
  BY <1>3, <1>4
<1>7. Memory(c)
  BY <1>2, <1>5, <1>6 DEF Memory, Mirrored, sent
<1>8. Traffic(c, net')
  BY <1>2 DEF Traffic, Calm, Linked
<1> QED
  BY <1>1, <1>7, <1>8 DEF Sound

(* The socket opens: CONNECT begins no exchange.                           *)
LEMMA OpenSound ==
  ASSUME IInv, Sound(client, net), Open, Fit(client'.sent)
  PROVE  Sound(client', net')
<1> DEFINE n == [net EXCEPT !.state = "up"]
           d == on_socket_open(client)
           p == reset(client.sendPinger)
           id == 0 % IdSpace
           m == [WireMessage("CONNECT", 0, client.clean) EXCEPT !.id = id]
           out == Append(client.out, m)
           c == [client EXCEPT !.socket = "open"]
           e == [c EXCEPT !.out = out, !.sendPinger = p]
<1>1. Turn(d, n) /\ client.socket = "connecting"
  BY DEF Open, Dialing
<1>2. /\ ClientType(client) /\ Fresh(net) /\ NetType(net)
      /\ ~ client.connected /\ client.out = <<>> /\ IsSequence(client.out)
  BY <1>1, Starting DEF Right, NetRight, QueueRight, ClientType
<1>3. d = e
  <2>1. c.socket = "open" /\ c.sendPinger = client.sendPinger
        /\ c.out = client.out /\ c.clean = client.clean
    BY <1>2 DEF ClientType
  <2>2. Encodable(WireMessage("CONNECT", 0, client.clean))
    BY DEF Encodable, WireMessage
  <2> QED
    BY <2>1, <2>2 DEF on_socket_open, socket_send, WireMessage
<1>4. m.type = "CONNECT" /\ ~ Ours(m)
  BY DEF WireMessage, Ours, Requests
<1> HIDE DEF m, d
<1>5. p \in PingerType /\ IsSequence(out)
  BY <1>2, PingerReset, SentOneMore
<1>6. NoExchange(Wire(n, out))
  <2>1. Wire(n, out) = SocketStep(Wire(n, client.out), m)
    BY <1>2, SentOneMore
  <2>2. Wire(n, client.out) = n
    BY <1>2, NothingSent
  <2>3. NetType(n) /\ n.toBroker = <<>> /\ n.toClient = <<>>
    BY <1>2 DEF NetType, Fresh
  <2> HIDE DEF n
  <2>4. NoExchange(n)
    <3>1. DOMAIN <<>> = {}
      OBVIOUS
    <3> QED
      BY <2>3, <3>1 DEF NoExchange
  <2>5. m.type \notin {"dial", "close"}
    BY <1>4
  <2>6. NoExchange(SocketStep(n, m))
    BY <1>4, <2>3, <2>4, <2>5, SentOn
  <2> QED
    BY <2>1, <2>2, <2>6
<1> HIDE DEF p, out
<1>7. /\ ClientType(e) /\ e.out = out /\ e.queue = client.queue
      /\ ~ e.connected /\ SameMemory(client, e)
  BY <1>2, <1>5 DEF ClientType, SameMemory
<1> HIDE DEF e, n
<1>8. Memory(e) /\ Traffic(e, n)
  BY <1>6, <1>7, SoundSame DEF Sound, Traffic, Linked
<1> QED
  BY <1>1, <1>3, <1>7, <1>8, TurnSound DEF Lasting, Sound

(* A turn in which the connection is lost                                  *)
LEMMA LossSound ==
  ASSUME IInv, Sound(client, net), client.socket # "none",
         NEW e, ClientType(e), SameStake(client, e), e.socket # "none",
         SameMemory(client, e),
         NEW n, NetType(n), Turn(disconnected(e), n), Fit(client'.sent)
  PROVE  Sound(client', net')
<1> DEFINE d == disconnected(e)
<1>1. Core(client, net, results, 1) /\ results \in Results
      /\ client.out = <<>>
  BY Starting
<1>2. NetType(Wire(n, e.out))
  BY <1>1, NothingSent DEF SameStake
<1>3. ClientType(d)
  BY <1>1, <1>2, Broken DEF Core, Right
<1>4. SameMemory(e, d) /\ Traffic(d, n)
  BY LostTraffic
<1> HIDE DEF d
<1>5. Memory(d)
  BY <1>4, SoundSame DEF Sound
<1> QED
  BY <1>3, <1>4, <1>5, TurnSound DEF Lasting, Sound, d

LEMMA DialFailsSound ==
  ASSUME IInv, Sound(client, net), DialFails, Fit(client'.sent)
  PROVE  Sound(client', net')
<1> DEFINE e == [client EXCEPT !.socket = "closed"]
           n == [net EXCEPT !.state = "down"]
<1>1. Turn(disconnected(e), n) /\ client.socket # "none"
  BY DEF DialFails, Dialing, on_socket_error
<1>2. ClientType(client) /\ NetType(net)
  BY Starting
<1>3. NetType(n) /\ SameMemory(client, e)
  BY <1>2 DEF NetType, ClientType, SameMemory
<1>4. ClientType(e) /\ SameStake(client, e) /\ e.socket # "none"
  BY <1>2, SocketLost
<1> HIDE DEF e, n
<1> QED
  BY <1>1, <1>3, <1>4, LossSound

(* The socket closes.                                                      *)
LEMMA CloseSound ==
  ASSUME IInv, Sound(client, net), client.socket = "open",
         Turn(on_socket_close(client), Hangup(net)), Fit(client'.sent)
  PROVE  Sound(client', net')
<1> DEFINE e == [client EXCEPT !.socket = "closed"]
           n == Hangup(net)
<1>1. Turn(disconnected(e), n) /\ client.socket # "none"
  BY DEF on_socket_close
<1>2. ClientType(client) /\ NetType(net)
  BY Starting
<1>3. NetType(n)
  BY <1>2, HungUp
<1>4. SameMemory(client, e)
  BY <1>2 DEF ClientType, SameMemory
<1>5. ClientType(e) /\ SameStake(client, e) /\ e.socket # "none"
  BY <1>2, SocketLost
<1> HIDE DEF e, n
<1> QED
  BY <1>1, <1>3, <1>4, <1>5, LossSound

(* The timer of connect() fires.                                           *)
LEMMA ConnectTimerSound ==
  ASSUME IInv, Sound(client, net), ConnectTimerFires, Fit(client'.sent)
  PROVE  Sound(client', net')
<1> DEFINE e == [client EXCEPT !.connectTimer = FALSE]
<1>1. Turn(disconnected(e), net) /\ client.connectTimer
  BY DEF ConnectTimerFires, ConnectTimeout
<1>2. /\ Right(client, net, results, 1) /\ ClientType(client) /\ NetType(net)
  BY Starting
<1>3. client.socket # "none"
  BY <1>1, <1>2 DEF Right, TimersRight
<1>4. /\ ClientType(e) /\ SameStake(client, e) /\ e.socket # "none"
      /\ SameMemory(client, e)
  BY <1>2, <1>3 DEF ClientType, SameStake, SameMemory
<1> HIDE DEF e
<1> QED
  BY <1>1, <1>2, <1>3, <1>4, LossSound

(* The timer of a subscribe() or unsubscribe() fires.                      *)
LEMMA RequestTimerSound ==
  ASSUME IInv, Sound(client, net), RequestTimerFires, Fit(client'.sent)
  PROVE  Sound(client', net')
<1>1. PICK i \in client.requestTimers : Turn(RequestTimesOut(client, i), net)
  BY DEF RequestTimerFires
<1> DEFINE timers == client.requestTimers \ {i}
           c == [client EXCEPT !.requestTimers = timers]
           cb == "requestFailure"
           d == Call(c, cb, i)
<1>2. Turn(d, net)
  BY <1>1 DEF RequestTimesOut
<1>3. ClientType(client)
  BY Starting
<1> HIDE DEF timers, cb
<1>4. ClientType(c) /\ SameMemory(client, c) /\ SameWire(client, c)
  BY <1>3 DEF ClientType, SameMemory, SameWire
<1> HIDE DEF c
<1>5. ClientType(d) /\ SameMemory(c, d) /\ SameWire(c, d)
  BY <1>4, CallMemory DEF SameWire
<1> HIDE DEF d
<1>6. Sound(d, net)
  BY <1>4, <1>5, SoundSame
<1> QED
  BY <1>2, <1>5, <1>6, TurnSound DEF Lasting

(* A pinger sends PINGREQ, which begins no exchange, or gives up.          *)
LEMMA PingerSound ==
  ASSUME IInv, Sound(client, net), PingerFires, Fit(client'.sent)
  PROVE  Sound(client', net')
<1>1. PICK which \in {"sendPinger", "receivePinger"} :
          client[which].armed /\ Turn(doPing(client, which), net)
  BY DEF PingerFires
<1>2. client.socket = "open"
  BY <1>1, Pinging
<1> DEFINE m == Ack("PINGREQ", 0)
           q == [isReset |-> FALSE, armed |-> TRUE]
           out == Append(client.out, m)
           d == [client EXCEPT ![which] = q, !.out = out]
           p == cancel(client[which])
           e == [client EXCEPT ![which] = p]
<1>3. ClientType(client) /\ NetType(net) /\ Wire(net, client.out) = net
      /\ IsSequence(client.out)
  BY Starting DEF ClientType
<1>4. CASE client[which].isReset
  <2>1. Turn(d, net)
    BY <1>1, <1>4 DEF doPing
  <2>2. ClientType(d)
    BY <1>2, PingSent DEF Core, Right
  <2>3. ~ Ours(m) /\ m.type \notin {"dial", "close"}
    BY DEF Ack, WireMessage, Ours, Requests
  <2> HIDE DEF m, q
  <2>4. Wire(net, out) = SocketStep(net, m)
    BY <1>3, SentOneMore
  <2> HIDE DEF out
  <2>5. /\ SameMemory(client, d) /\ d.connected = client.connected
        /\ d.socket = client.socket /\ d.queue = client.queue /\ d.out = out
    <3>1. CASE which = "sendPinger"
      BY <1>3, <3>1 DEF ClientType, SameMemory
    <3>2. CASE which = "receivePinger"
      BY <1>3, <3>2 DEF ClientType, SameMemory
    <3> QED
      BY <3>1, <3>2
  <2> HIDE DEF d
  <2> DEFINE w == SocketStep(net, m)
  <2>6. /\ \A sent : Exchanges(sent, net) => Exchanges(sent, w)
        /\ NoExchange(net) => NoExchange(w)
    BY <1>3, <2>3, SentOn
  <2> HIDE DEF w
  <2>7. Traffic(d, net)
    BY <1>3, <2>4, <2>5, <2>6 DEF Sound, Traffic, Linked, SameMemory, w
  <2>8. Memory(d)
    BY <2>5, SoundSame DEF Sound
  <2> QED
    BY <2>1, <2>2, <2>7, <2>8, TurnSound DEF Lasting, Sound
<1>5. CASE ~ client[which].isReset
  <2>1. Turn(disconnected(e), net)
    BY <1>1, <1>5 DEF doPing
  <2>2. p \in PingerType
    BY <1>3 DEF ClientType, PingerType, cancel
  <2> HIDE DEF p
  <2>3. /\ ClientType(e) /\ SameStake(client, e) /\ e.socket # "none"
        /\ SameMemory(client, e)
    <3>1. CASE which = "sendPinger"
      BY <1>2, <1>3, <2>2, <3>1 DEF ClientType, SameStake, SameMemory
    <3>2. CASE which = "receivePinger"
      BY <1>2, <1>3, <2>2, <3>2 DEF ClientType, SameStake, SameMemory
    <3> QED
      BY <3>1, <3>2
  <2> HIDE DEF e
  <2> QED
    BY <1>2, <1>3, <2>1, <2>3, LossSound
<1> QED
  BY <1>4, <1>5

(* A packet is delivered.                                                  *)
LEMMA DeliverSound ==
  ASSUME IInv, Sound(client, net), Deliver, Oversized = {},
         Fit(client'.sent)
  PROVE  Sound(client', net')
<1> DEFINE packet == Head(net.toClient)
           n == Taken(net)
           c == Stirred(client)
           d == on_socket_message(client, packet)
<1>1. Turn(d, n) /\ client.socket = "open" /\ net.toClient # <<>>
  BY DEF Deliver, Arriving, Taken
<1>2. /\ Right(client, net, results, 1) /\ Settled(client) /\ Between(client)
      /\ results \in Results /\ ClientType(client) /\ NetType(net)
      /\ client.out = <<>> /\ Wire(net, client.out) = net
  BY Starting DEF IInv
<1>3. /\ client.connected => packet.type # "CONNACK" /\ Serene(c, n, results)
      /\ ~ client.connected => packet.type = "CONNACK" /\ Answered(net)
  BY <1>1, Delivering
<1>4. /\ \A sent : Exchanges(sent, net) =>
             /\ Exchanges(sent, n)
             /\ Theirs(packet) => Named(sent, packet) /\ Free(packet.id, n)
  BY <1>1, <1>2, TakenExchanges
<1> HIDE DEF n, packet
<1>5. CASE client.connected
  <2>1. Serene([client EXCEPT !.receivePinger = reset(@)], n, results)
    BY <1>3, <1>5 DEF Stirred
  <2>2. ClientType(d)
    BY <1>2, <1>3, <1>5, <2>1, PacketReceived DEF Core, Right
  <2>3. SameMemory(client, c) /\ SameWire(client, c)
    <3> DEFINE p == reset(client.receivePinger)
               e == [client EXCEPT !.receivePinger = p]
    <3>1. c = e
      BY DEF Stirred
    <3> HIDE DEF p
    <3>2. SameMemory(client, e) /\ SameWire(client, e)
      BY <1>2 DEF ClientType, SameMemory, SameWire
    <3> HIDE DEF c, e
    <3> QED
      BY <3>1, <3>2
  <2>4. c = [client EXCEPT !.receivePinger = reset(@)]
    BY DEF Stirred
  <2> HIDE DEF c
  <2>5. Wire(n, c.out) = n
    BY <1>2, <2>3, NothingSent DEF SameWire
  <2>6. Exchanges(client.sent, net)
    BY <1>1, <1>2, <1>5 DEF Sound, Traffic, Linked
  <2>7. Sound(c, n)
    BY <1>4, <1>5, <2>3, <2>5, <2>6, SoundSame
    DEF Sound, Traffic, Linked, SameWire, SameMemory
  <2>8. Theirs(packet) => /\ Named(c.sent, packet)
                          /\ Free(packet.id, Wire(n, c.out))
    BY <1>4, <2>3, <2>5, <2>6 DEF SameMemory
  <2>9. Lasting(d, n)
    BY <1>2, <1>3, <1>5, <2>4, <2>7, <2>8, PacketMemory
  <2> HIDE DEF d
  <2> QED
    BY <1>1, <2>2, <2>9, TurnSound
<1>6. CASE ~ client.connected
  <2> DEFINE code == packet.body
             e == ConnAck(c, code)
  <2>1. d = e
    BY <1>3, <1>6 DEF on_socket_message, Stirred
  <2> HIDE DEF code, d, c
  <2>2. ClientType(e)
    BY <1>1, <1>2, <1>3, <1>6, ConnAckReceived DEF c, Core, Right
  <2>3. Lasting(e, Taken(net))
    BY <1>1, <1>2, <1>3, <1>6, ConnAckMemory DEF c
  <2> HIDE DEF e
  <2> QED
    BY <1>1, <2>1, <2>2, <2>3, TurnSound DEF n
<1> QED
  BY <1>5, <1>6

-----------------------------------------------------------------------------
(* The steps of the broker                                                 *)
Foreign(s) == \A i \in DOMAIN s : ~ Theirs(s[i])

(* What answers nothing begins and ends no exchange.                       *)
LEMMA ForeignAnswer ==
  ASSUME NEW n, NetType(n), NoExchange(n), NEW live \in BOOLEAN,
         NEW t, IsSequence(t), Foreign(t)
  PROVE  NoExchange(Answer(n, live, t))
<1> DEFINE s == n.toClient
           u == s \o t
           m == [n EXCEPT !.toClient = u]
           k == Len(s)
           l == Len(t)
<1>1. Answer(n, live, t) = IF live THEN m ELSE n
  BY DEF Answer
<1>2. /\ k \in Nat /\ l \in Nat
      /\ DOMAIN s = 1 .. k /\ DOMAIN t = 1 .. l /\ DOMAIN u = 1 .. k + l
      /\ \A i \in 1 .. k : u[i] = s[i]
      /\ \A i \in 1 .. l : u[k + i] = t[i]
  BY Joined DEF NetType
<1> HIDE DEF u, k, l
<1>3. m.toBroker = n.toBroker /\ m.toClient = u
  BY DEF NetType
<1> HIDE DEF m
<1>4. ASSUME NEW i \in DOMAIN u PROVE ~ Theirs(u[i])
  <2>1. CASE i \in 1 .. k
    BY <1>2, <2>1 DEF NoExchange
  <2>2. CASE i \notin 1 .. k
    <3> DEFINE j == i - k
    <3>1. j \in 1 .. l /\ k + j = i
      BY <1>2, <1>4, <2>2
    <3> HIDE DEF j
    <3>2. u[k + j] = t[j] /\ ~ Theirs(t[j])
      BY <1>2, <3>1 DEF Foreign
    <3> QED
      BY <3>1, <3>2
  <2> QED
    BY <2>1, <2>2
<1> QED
  BY <1>1, <1>3, <1>4 DEF NoExchange

(* One packet to the client: an answer needs an identifier that is free.   *)
LEMMA AnswerExchanges ==
  ASSUME NEW n, NetType(n), NEW live \in BOOLEAN, NEW x
  PROVE  LET m == Answer(n, live, <<x>>)
         IN  /\ ~ Theirs(x) => /\ \A sent : Exchanges(sent, n) => Exchanges(sent, m)
                               /\ NoExchange(n) => NoExchange(m)
             /\ Free(x.id, n) =>
                    \A sent : Exchanges(sent, n) /\ Named(sent, x)
                                  => Exchanges(sent, m)
<1> DEFINE s == n.toClient
           t == <<x>>
           u == s \o t
           y == [n EXCEPT !.toClient = u]
           m == Answer(n, live, t)
           l == Len(s)
<1>1. m = y \/ m = n
  BY DEF Answer
<1>2. IsSequence(t) /\ t[1] = x
  BY OnePacket
<1>0. Len(t) = 1
  OBVIOUS
<1> HIDE DEF t
<1>3. /\ l \in Nat /\ DOMAIN s = 1 .. l /\ DOMAIN u = 1 .. l + 1
      /\ \A i \in 1 .. l : u[i] = s[i]
      /\ u[l + 1] = x
  <2>1. IsSequence(s)
    BY DEF NetType
  <2> DEFINE k == Len(t)
  <2>2. /\ l \in Nat /\ k \in Nat
        /\ DOMAIN s = 1 .. l /\ DOMAIN t = 1 .. k /\ DOMAIN u = 1 .. l + k
        /\ \A i \in 1 .. l : u[i] = s[i]
        /\ \A i \in 1 .. k : u[l + i] = t[i]
    BY <1>2, <2>1, Joined
  <2> HIDE DEF l, u, k
  <2>3. k = 1
    BY <1>0 DEF k
  <2> QED
    BY <1>2, <2>2, <2>3
<1> HIDE DEF l, u
<1>4. y.toBroker = n.toBroker /\ y.toClient = u
  BY DEF NetType
<1> HIDE DEF y
<1>5. \A i \in DOMAIN u : i \in DOMAIN s \/ i = l + 1
  BY <1>3
<1>6. \A i \in DOMAIN s : u[i] = s[i] /\ i # l + 1
  BY <1>3
<1> DEFINE Follows1(z) ==
               /\ ~ Theirs(x) => /\ \A sent : Exchanges(sent, n) => Exchanges(sent, z)
                                 /\ NoExchange(n) => NoExchange(z)
               /\ Free(x.id, n) =>
                      \A sent : Exchanges(sent, n) /\ Named(sent, x)
                                    => Exchanges(sent, z)
<1>7. Follows1(y)
  <2>1. ASSUME ~ Theirs(x), NEW sent, Exchanges(sent, n)
        PROVE  Exchanges(sent, y)
    BY <1>3, <1>4, <1>5, <1>6, <2>1 DEF Exchanges
  <2>2. ~ Theirs(x) /\ NoExchange(n) => NoExchange(y)
    BY <1>3, <1>4, <1>5, <1>6 DEF NoExchange
  <2>3. ASSUME Free(x.id, n), NEW sent, Exchanges(sent, n), Named(sent, x)
        PROVE  Exchanges(sent, y)
    BY <1>3, <1>4, <1>5, <1>6, <2>3 DEF Exchanges, Free
  <2> QED
    BY <2>1, <2>2, <2>3
<1>8. Follows1(n)
  OBVIOUS
<1> HIDE DEF m, Follows1
<1>9. Follows1(m)
  BY <1>1, <1>7, <1>8
<1> QED
  BY <1>9 DEF Follows1, m, t

(* The broker reads a packet: it was the only one of its exchange.         *)
LEMMA ReadExchanges ==
  ASSUME NEW w, NetType(w), w.toBroker # <<>>, NEW rest,
         NEW n, n = [w EXCEPT !.toBroker = Tail(@), !.residual = rest]
  PROVE  LET p == Head(w.toBroker)
         IN  /\ \A sent : Exchanges(sent, w) =>
                    /\ Exchanges(sent, n)
                    /\ Ours(p) => Named(sent, p) /\ Free(p.id, n)
             /\ NoExchange(w) => NoExchange(n) /\ ~ Ours(p)
<1> DEFINE p == Head(w.toBroker)
           s == w.toBroker
           t == n.toBroker
           l == Len(s)
<1>1. n.toClient = w.toClient /\ n.toBroker = Tail(s)
  BY DEF NetType
<1>2. /\ l \in Nat /\ l >= 1 /\ DOMAIN s = 1 .. l /\ DOMAIN t = 1 .. l - 1
      /\ \A i \in 1 .. l - 1 : t[i] = s[i + 1]
      /\ p = s[1]
  BY <1>1, Tailed DEF NetType
<1> HIDE DEF p, l
<1>3. \A i \in DOMAIN t : /\ i + 1 \in DOMAIN s /\ t[i] = s[i + 1] /\ i + 1 # 1
                          /\ \A j \in DOMAIN t : i + 1 = j + 1 => i = j
  BY <1>2
<1>4. 1 \in DOMAIN s
  BY <1>2
<1>5. ASSUME NEW sent, Exchanges(sent, w) PROVE Exchanges(sent, n)
  BY <1>1, <1>3, <1>5 DEF Exchanges
<1>6. ASSUME NEW sent, Exchanges(sent, w), Ours(p)
      PROVE  Named(sent, p) /\ Free(p.id, n)
  BY <1>1, <1>2, <1>3, <1>4, <1>6 DEF Exchanges, Free
<1>7. NoExchange(w) => NoExchange(n) /\ ~ Ours(p)
  BY <1>1, <1>2, <1>3, <1>4 DEF NoExchange
<1> QED
  BY <1>5, <1>6, <1>7 DEF p

(* An answer belongs to the exchange that the packet began.                *)
Answers(x, packet) ==
    Theirs(x) => /\ Ours(packet) /\ x.id = packet.id
                 /\ OnRequest(x) <=> OnRequest(packet)

Reacts(n, live, m, packet) ==
    \/ m.toBroker = n.toBroker /\ m.toClient = n.toClient
    \/ \E x : m = Answer(n, live, <<x>>) /\ Answers(x, packet)

LEMMA TakingReacts ==
  ASSUME NEW n, NetType(n), NEW live \in BOOLEAN, live, NEW packet,
         packet.type # "CONNECT", Take(n, live, packet)
  PROVE  Reacts(n, live, net', packet)
<1>0. packet.type = "PUBLISH" =>
         \/ net' = n
         \/ /\ QoS[packet.body] # 0
            /\ \/ net' = Answer(n, live, <<Ack("PUBACK", packet.id)>>)
               \/ net' = Answer(n, live, <<Ack("PUBREC", packet.id)>>)
  <2> DEFINE a == Answer(n, live, <<Ack("PUBACK", packet.id)>>)
             b == Answer(n, live, <<Ack("PUBREC", packet.id)>>)
  <2> SUFFICES ASSUME packet.type = "PUBLISH"
               PROVE  net' = n \/ (QoS[packet.body] # 0 /\ net' \in {a, b})
    OBVIOUS
  <2>1. TakePublish(n, live, packet)
    BY DEF Take
  <2> DEFINE q == QoS[packet.body]
  <2>2. net' = CASE q = 0 -> n [] q = 1 -> a [] OTHER -> b
    BY <2>1 DEF TakePublish
  <2> HIDE DEF a, b, q
  <2>3. net' = n \/ net' = a \/ net' = b
    BY <2>2
  <2>4. q = 0 => net' = n
    BY <2>2
  <2> QED
    BY <2>3, <2>4 DEF q
<1> DEFINE Sends(type, id) == Answer(n, live, <<Ack(type, id)>>)
           id == packet.id
<1>1. Reacts(n, live, n, packet)
  BY DEF Reacts
<1>2. ASSUME NEW type, NEW i, Answers(Ack(type, i), packet)
      PROVE  Reacts(n, live, Sends(type, i), packet)
  BY <1>2 DEF Reacts
<1>3. /\ \A type, i : Ack(type, i).type = type /\ Ack(type, i).id = i
  BY DEF Ack, WireMessage
<1>4. CASE packet.type = "PUBLISH"
  <2>2. \/ net' = n
        \/ /\ QoS[packet.body] # 0
           /\ net' \in {Sends("PUBACK", id), Sends("PUBREC", id)}
    BY <1>0, <1>4
  <2>3. QoS[packet.body] # 0 => /\ Answers(Ack("PUBACK", id), packet)
                                /\ Answers(Ack("PUBREC", id), packet)
    BY <1>3, <1>4 DEF Answers, Ours, OnRequest, Requests
  <2> HIDE DEF Sends
  <2> QED
    BY <1>1, <1>2, <2>2, <2>3
<1>5. CASE packet.type \in {"PUBACK", "PUBCOMP"}
  <2>1. TakeConfirmation(n, packet)
    BY <1>5 DEF Take
  <2> QED
    BY <1>1, <2>1 DEF TakeConfirmation
<1>6. CASE packet.type = "PUBREC"
  <2>1. TakePubRec(n, live, packet)
    BY <1>6 DEF Take
  <2>2. net' = Sends("PUBREL", id)
    BY <2>1 DEF TakePubRec
  <2>3. Answers(Ack("PUBREL", id), packet)
    BY <1>3 DEF Answers, Theirs
  <2> HIDE DEF Sends
  <2> QED
    BY <1>2, <2>2, <2>3
<1>7. CASE packet.type \in {"PUBREL", "SUBSCRIBE", "UNSUBSCRIBE", "PINGREQ"}
  <2>1. \/ packet.type = "PUBREL" /\ net' = Sends("PUBCOMP", id)
        \/ packet.type = "SUBSCRIBE" /\ net' = Sends("SUBACK", id)
        \/ packet.type = "UNSUBSCRIBE" /\ net' = Sends("UNSUBACK", id)
        \/ packet.type = "PINGREQ" /\ net' = Sends("PINGRESP", 0)
    BY <1>7 DEF Take, Reply
  <2>2. /\ packet.type = "PUBREL" => Answers(Ack("PUBCOMP", id), packet)
        /\ packet.type = "SUBSCRIBE" => Answers(Ack("SUBACK", id), packet)
        /\ packet.type = "UNSUBSCRIBE" => Answers(Ack("UNSUBACK", id), packet)
        /\ Answers(Ack("PINGRESP", 0), packet)
    BY <1>3 DEF Answers, Theirs, Ours, OnRequest, Requests
  <2> HIDE DEF Sends
  <2> QED
    BY <1>2, <2>1, <2>2
<1>8. CASE packet.type \notin {"CONNECT", "PUBLISH", "PUBACK", "PUBCOMP",
                               "PUBREC", "PUBREL", "SUBSCRIBE", "UNSUBSCRIBE",
                               "PINGREQ"}
  <2>1. TakeDisconnect(n, live)
    BY <1>8 DEF Take
  <2>2. net' = [n EXCEPT !.closed = TRUE]
    BY <2>1 DEF TakeDisconnect
  <2> QED
    BY <2>2 DEF NetType, Reacts
<1> QED
  BY <1>4, <1>5, <1>6, <1>7, <1>8

(* A step that the client has no part in                                   *)
LEMMA NetSound ==
  ASSUME IInv, Sound(client, net), client' = client,
         client.socket = "open" =>
             IF client.connected
             THEN Exchanges(client.sent, net) => Exchanges(client.sent, net')
             ELSE NoExchange(net) => NoExchange(net')
  PROVE  Sound(client', net')
<1>1. client.out = <<>>
  BY Starting
<1>2. Wire(net, client.out) = net /\ Wire(net', client.out) = net'
  BY <1>1, NothingSent
<1>3. Traffic(client, net')
  BY <1>2 DEF Sound, Traffic, Linked
<1> QED
  BY <1>3 DEF Sound

LEMMA BrokerReadsSound ==
  ASSUME IInv, Sound(client, net), BrokerReads
  PROVE  Sound(client', net')
<1> DEFINE packet == Head(net.toBroker)
           rest == IF packet.type = "CONNECT" THEN <<>> ELSE net.residual
           n == [net EXCEPT !.toBroker = Tail(@), !.residual = rest]
           live == TRUE
<1>1. /\ Take(n, live, packet) /\ net.toBroker # <<>> /\ client' = client
  BY DEF BrokerReads, Unread
<1>2. /\ NetType(net) /\ NetRight(client, net) /\ IsSequence(net.toBroker)
      /\ IsFiniteSet(DOMAIN session.inflight)
  BY DEF IInv, Right, NetType, SessionType
<1>3. packet = net.toBroker[1] /\ 1 \in DOMAIN net.toBroker
      /\ IsSequence(Tail(net.toBroker))
  BY <1>1, <1>2, Tailed
<1> HIDE DEF packet, rest
<1>4. /\ \A sent : Exchanges(sent, net) =>
             /\ Exchanges(sent, n)
             /\ Ours(packet) => Named(sent, packet) /\ Free(packet.id, n)
      /\ NoExchange(net) => NoExchange(n) /\ ~ Ours(packet)
  BY <1>1, <1>2, ReadExchanges DEF packet
<1>5. NetType(n)
  <2> DEFINE t == Tail(net.toBroker)
  <2>1. IsSequence(t)
    BY <1>3
  <2> HIDE DEF t
  <2>2. NetType([net EXCEPT !.toBroker = t, !.residual = rest])
    BY <1>2, <2>1 DEF NetType
  <2> QED
    BY <2>2 DEF t
<1>8. live \in BOOLEAN /\ live
  OBVIOUS
<1> HIDE DEF n, live
<1>6. CASE packet.type = "CONNECT"
  <2>1. client.socket = "open" => ~ client.connected
    BY <1>2, <1>3, <1>6 DEF NetRight, Serving, No
  <2>2. NoExchange(net) => NoExchange(net')
    <3> SUFFICES ASSUME NoExchange(n) PROVE NoExchange(net')
      BY <1>4
    <3> DEFINE up == WireMessage("CONNACK", 0, 0)
               bad == WireMessage("CONNACK", 0, 3)
    <3>1. Accept(n, live, packet.body) \/ Refuse(n, live)
      BY <1>1, <1>6 DEF Take
    <3>2. ~ Theirs(up) /\ ~ Theirs(bad)
      BY DEF Theirs, WireMessage
    <3> HIDE DEF up, bad
    <3>3. CASE Accept(n, live, packet.body)
      <4> DEFINE s == IF packet.body THEN NoSession ELSE session
                 more == Unacknowledged(s)
                 packets == <<up>> \o more
                 m == Answer(n, live, packets)
      <4>1. net' = [m EXCEPT !.accepted = live]
        BY <3>3 DEF Accept, up
      <4>2. IsFiniteSet(DOMAIN s.inflight)
        BY <1>2, FS_EmptySet DEF NoSession, EmptyMap
      <4> HIDE DEF s
      <4>3. IsSequence(more) /\ Foreign(more)
        BY <4>2, InflightSent DEF Foreign, Theirs
      <4> HIDE DEF more
      <4>4. IsSequence(packets) /\ Foreign(packets)
        <5> DEFINE a == <<up>>
                   b == a \o more
                   l == Len(more)
        <5>0. Len(a) = 1
          OBVIOUS
        <5>1. IsSequence(a) /\ a[1] = up
          BY OnePacket
        <5> HIDE DEF a
        <5> DEFINE k == Len(a)
        <5>2. /\ k \in Nat /\ l \in Nat
              /\ DOMAIN a = 1 .. k /\ DOMAIN more = 1 .. l
              /\ DOMAIN b = 1 .. k + l
              /\ \A i \in 1 .. k : b[i] = a[i]
              /\ \A i \in 1 .. l : b[k + i] = more[i]
          BY <4>3, <5>1, Joined
        <5>3. k = 1 /\ IsSequence(b)
          BY <4>3, <5>0, <5>1, Joined
        <5> HIDE DEF b, l, k
        <5>4. ASSUME NEW i \in 1 .. 1 + l PROVE ~ Theirs(b[i])
          <6>1. CASE i = 1
            BY <3>2, <5>1, <5>2, <5>3, <6>1
          <6>2. CASE i # 1
            <7> DEFINE j == i - 1
            <7>1. j \in 1 .. l /\ 1 + j = i
              BY <5>2, <5>4, <6>2
            <7> HIDE DEF j
            <7> QED
              BY <4>3, <5>2, <5>3, <7>1 DEF Foreign
          <6> QED
            BY <6>1, <6>2
        <5>5. Foreign(b)
          BY <5>2, <5>3, <5>4 DEF Foreign
        <5> QED
          BY <5>3, <5>5 DEF a, b
      <4> HIDE DEF packets
      <4>5. NoExchange(m)
        BY <1>5, <1>8, <4>4, ForeignAnswer
      <4>6. net'.toBroker = m.toBroker /\ net'.toClient = m.toClient
        BY <1>5, <4>1 DEF Answer, NetType
      <4> HIDE DEF m
      <4> QED
        BY <4>5, <4>6, SameWay
    <3>4. CASE Refuse(n, live)
      <4> DEFINE t == <<bad>>
                 m == Answer(n, live, t)
      <4>1. net' = [m EXCEPT !.closed = TRUE]
        BY <3>4 DEF Refuse, bad
      <4>2. IsSequence(t) /\ Foreign(t)
        <5>1. IsSequence(t) /\ DOMAIN t = {1} /\ t[1] = bad
          BY OnePacket
        <5> HIDE DEF t
        <5> QED
          BY <3>2, <5>1 DEF Foreign
      <4> HIDE DEF t
      <4>3. NoExchange(m)
        BY <1>5, <1>8, <4>2, ForeignAnswer
      <4>4. net'.toBroker = m.toBroker /\ net'.toClient = m.toClient
        BY <1>5, <4>1 DEF Answer, NetType
      <4> HIDE DEF m
      <4> QED
        BY <4>3, <4>4, SameWay
    <3> QED
      BY <3>1, <3>3, <3>4
  <2> QED
    BY <1>1, <2>1, <2>2, NetSound
<1>7. CASE packet.type # "CONNECT"
  <2>1. Reacts(n, live, net', packet)
    BY <1>1, <1>5, <1>7, <1>8, TakingReacts
  <2>2. CASE net'.toBroker = n.toBroker /\ net'.toClient = n.toClient
    <3>1. /\ \A sent : Exchanges(sent, n) => Exchanges(sent, net')
          /\ NoExchange(n) => NoExchange(net')
      BY <2>2, SameWay
    <3> QED
      BY <1>1, <1>4, <3>1, NetSound
  <2>3. ASSUME NEW x, net' = Answer(n, live, <<x>>), Answers(x, packet)
        PROVE  Sound(client', net')
    <3> DEFINE m == Answer(n, live, <<x>>)
    <3>1. net' = m
      BY <2>3
    <3>2. /\ ~ Theirs(x) => /\ \A sent : Exchanges(sent, n) => Exchanges(sent, m)
                            /\ NoExchange(n) => NoExchange(m)
          /\ Free(x.id, n) =>
                 \A sent : Exchanges(sent, n) /\ Named(sent, x)
                               => Exchanges(sent, m)
      BY <1>5, <1>8, AnswerExchanges
    <3> HIDE DEF m
    <3>3. NoExchange(net) => NoExchange(m)
      BY <1>4, <2>3, <3>2 DEF Answers
    <3>4. ASSUME NEW sent, Exchanges(sent, net) PROVE Exchanges(sent, m)
      <4>1. Exchanges(sent, n)
            /\ (Ours(packet) => Named(sent, packet) /\ Free(packet.id, n))
        BY <1>4, <3>4
      <4>2. Theirs(x) => Named(sent, x) /\ Free(x.id, n)
        BY <2>3, <4>1 DEF Answers, Named
      <4> QED
        BY <3>2, <4>1, <4>2
    <3> QED
      BY <1>1, <3>1, <3>3, <3>4, NetSound
  <2> QED
    BY <2>1, <2>2, <2>3 DEF Reacts
<1> QED
  BY <1>6, <1>7

(* What old connections carry is no concern of the current one.            *)
LEMMA BrokerReadsOldSound ==
  ASSUME IInv, Sound(client, net), BrokerReadsOld
  PROVE  Sound(client', net')
<1> DEFINE packet == Head(net.residual)
           t == Tail(net.residual)
           n == [net EXCEPT !.residual = t]
           live == FALSE
<1>1. /\ Take(n, live, packet) /\ client' = client
  BY DEF BrokerReadsOld
<1>2. NetType(net) /\ SessionType
  BY DEF IInv, Right
<1> HIDE DEF packet, t
<1>3. /\ NetType(n) /\ n.toBroker = net.toBroker /\ n.toClient = net.toClient
  BY <1>2 DEF NetType
<1>4. live \in BOOLEAN /\ ~ live
  OBVIOUS
<1> HIDE DEF n, live
<1>5. net'.toBroker = n.toBroker /\ net'.toClient = n.toClient
  BY <1>1, <1>2, <1>3, <1>4, ConnectTaken, Taking
<1>6. /\ \A sent : Exchanges(sent, net) => Exchanges(sent, net')
      /\ NoExchange(net) => NoExchange(net')
  BY <1>3, <1>5, SameWay
<1> QED
  BY <1>1, <1>6, NetSound

LEMMA LoseOldSound ==
  ASSUME IInv, Sound(client, net), LoseOld
  PROVE  Sound(client', net')
<1>1. net' = [net EXCEPT !.residual = <<>>] /\ client' = client
  BY DEF LoseOld
<1>2. NetType(net)
  BY DEF IInv, Right
<1>3. net'.toBroker = net.toBroker /\ net'.toClient = net.toClient
  BY <1>1, <1>2 DEF NetType
<1>4. /\ \A sent : Exchanges(sent, net) => Exchanges(sent, net')
      /\ NoExchange(net) => NoExchange(net')
  BY <1>3, SameWay
<1> QED
  BY <1>1, <1>4, NetSound

(* What the broker sends of its own accord answers nothing.                *)
LEMMA UnaskedSound ==
  ASSUME IInv, Sound(client, net), client' = client,
         NEW live \in BOOLEAN, NEW x, ~ Theirs(x),
         net' = Answer(net, live, <<x>>)
  PROVE  Sound(client', net')
<1>1. NetType(net)
  BY DEF IInv, Right
<1>2. /\ \A sent : Exchanges(sent, net) => Exchanges(sent, net')
      /\ NoExchange(net) => NoExchange(net')
  BY <1>1, AnswerExchanges
<1> QED
  BY <1>2, NetSound

LEMMA BrokerPublishesSound ==
  ASSUME IInv, Sound(client, net), BrokerPublishes
  PROVE  Sound(client', net')
<1> DEFINE live == net.accepted /\ ~ net.closed
<1>1. PICK x : /\ x.type = "PUBLISH" /\ net' = Answer(net, live, <<x>>)
               /\ client' = client
  <2>1. PICK m, id : /\ net' = Answer(net, live, <<WireMessage("PUBLISH", id, m)>>)
                     /\ client' = client
    BY DEF BrokerPublishes
  <2> QED
    BY <2>1 DEF WireMessage
<1>2. live \in BOOLEAN
  OBVIOUS
<1>3. ~ Theirs(x)
  BY <1>1 DEF Theirs
<1> HIDE DEF live
<1> QED
  BY <1>1, <1>2, <1>3, UnaskedSound

LEMMA BrokerErrsSound ==
  ASSUME IInv, Sound(client, net), BrokerErrs
  PROVE  Sound(client', net')
<1>1. PICK type \in {"malformed", "DISCONNECT"} :
          net' = Answer(net, TRUE, <<Ack(type, 0)>>)
  BY DEF BrokerErrs
<1> DEFINE x == Ack(type, 0)
           live == TRUE
<1>2. client' = client
  BY DEF BrokerErrs
<1>3. ~ Theirs(x)
  BY DEF Theirs, Ack, WireMessage
<1>4. net' = Answer(net, live, <<x>>) /\ live \in BOOLEAN
  BY <1>1
<1> HIDE DEF x, live
<1> QED
  BY <1>2, <1>3, <1>4, UnaskedSound

-----------------------------------------------------------------------------
(* The theorem                                                             *)
IdentifiersFit == Fit(client.sent)

LEMMA InitSound == ASSUME Init PROVE Sound(client, net)
<1>1. /\ client.socket = "none" /\ client.queue = <<>>
      /\ client.sent = EmptyMap /\ client.stored.sent = EmptyMap
      /\ client.stored.received = client.received
  BY DEF Init, ClientImpl
<1>2. /\ Entries(EmptyMap) /\ Publications(EmptyMap) = {}
  BY DEF EmptyMap, Entries, Publications
<1>3. EmptyMap = [id \in Publications(EmptyMap) |-> EmptyMap[id]]
  BY <1>2 DEF EmptyMap
<1> QED
  BY <1>1, <1>2, <1>3 DEF Sound, Memory, Mirrored, Traffic, Calm, Linked

LEMMA NextSound ==
  ASSUME IInv, Sound(client, net), [Next]_vars, Oversized = {},
         Fit(client'.sent)
  PROVE  Sound(client', net')
<1>1. CASE UNCHANGED vars
  BY <1>1, NetSound DEF vars
<1>2. CASE Application
  BY <1>2, AppConnectSound, AppSendSound, AppRequestSound, AppDisconnectSound,
     ReloadSound DEF Application
<1>3. CASE Environment
  <2>1. CASE Break
    BY <2>1, CloseSound DEF Break
  <2>2. CASE Closed
    BY <2>2, CloseSound DEF Closed, Closing
  <2> QED
    BY <1>3, <2>1, <2>2, OpenSound, DialFailsSound, DeliverSound,
       ConnectTimerSound, RequestTimerSound, PingerSound DEF Environment
<1>4. CASE Broker
  BY <1>4, BrokerReadsSound, BrokerReadsOldSound, LoseOldSound,
     BrokerPublishesSound, BrokerErrsSound DEF Broker
<1> QED
  BY <1>1, <1>2, <1>3, <1>4 DEF Next

(* The storage holds what is in memory after every turn, as long as it has *)
(* room for every message and two bytes for every identifier: one that     *)
(* does not fit may return to the client as another, whose message is then *)
(* forgotten in memory and not in the storage.                             *)
THEOREM StoredIsKept ==
  ASSUME Oversized = {}
  PROVE  Spec /\ []IdentifiersFit => []StorageMirrorsMemory
<1>1. Init => Sound(client, net)
  BY InitSound
<1>2. /\ IInv /\ Sound(client, net) /\ IdentifiersFit' /\ [Next]_vars
      => Sound(client, net)'
  BY NextSound DEF IdentifiersFit
<1>3. Sound(client, net) => StorageMirrorsMemory
  BY DEF Sound, Memory, Mirrored, Publications, StorageMirrorsMemory
<1> QED
  BY <1>1, <1>2, <1>3, Invariance, PTL DEF Spec
=============================================================================
