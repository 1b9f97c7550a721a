------------------------------ MODULE AppleProofs ------------------------------
(***************************************************************************)
(* Proofs about the operations on Apple hosts (AppleOperations), for every *)
(* value of the constants.                                                 *)
(***************************************************************************)
EXTENDS MCApple, SequenceTheorems, TLAPS

-----------------------------------------------------------------------------
(* The inductive invariant *)

Works == {"enqueue", "choose", "inspect", "route", "decide", "lookup", "probe", "send", "complete"}
Rests == {"idle", "reset", "ended", "down"}

\* The state is a record with the fields of a host.
IsHost(h) ==
    h \in [enabled : {h.enabled}, lanes : {h.lanes}, companion : {h.companion},
           defaults : {h.defaults}, found : SUBSET Facility, id : {h.id}]

Pcs == Works \cup Rests \cup {"cancel"}
IsThread(e) ==
    e \in [pc : Pcs, op : AppleOp \cup {0}, left : {e.left}, best : {e.best}, outcome : Status]

\* A thread with an operation is at work on it or cancels it; the hosts it has
\* yet to inspect are copies of different hosts.
Sensible(pc, op, left, best, outcome) ==
    /\ op = 0 <=> pc \in Rests
    /\ \A h \in left : IsHost(h) /\ h.id \in HostKey
    /\ \A a, b \in left : a.id = b.id => a = b
    /\ best = Absent \/ (IsHost(best) /\ best.id \in HostKey)
    /\ pc \in {"decide", "lookup"} => best # Absent
    /\ pc = "complete" => outcome \in Terminal

IsRecords(records) ==
    /\ records \in Seq([op : AppleOp, status : Status]) /\ Len(records) <= RecentLimit
    /\ \A i, j \in DOMAIN records : records[i].op = records[j].op => i = j

IsRequest(r) == r.tool \in RemoteTools /\ r.keys \in Requests(r.tool) /\ r.preferred \in HostKey

\* The operations in a list without repetition.
In(q, op) == \E i \in DOMAIN q : q[i] = op
OnceEach(q) == \A i, j \in DOMAIN q : q[i] = q[j] => i = j

AreThreads(f) == f = [t \in Thread |-> f[t]] /\ \A t \in Thread : IsThread(f[t])

ThreadsTyped ==
    /\ AreThreads(exec)
    /\ \A t \in Thread : Sensible(exec[t].pc, exec[t].op, exec[t].left, exec[t].best, exec[t].outcome)

HostsTyped ==
    /\ hosts = [id \in HostKey |-> hosts[id]]
    /\ \A id \in HostKey : IsHost(hosts[id]) /\ (hosts[id] = Absent \/ hosts[id].id = id)

RequestsTyped ==
    /\ request = [op \in AppleOp |-> request[op]]
    /\ \A op \in Used : IsRequest(request[op])

AppleTypes ==
    /\ HostsTyped /\ ThreadsTyped /\ RequestsTyped
    /\ IsRecords(recent) /\ IsRecords(history)
    /\ queue \in Seq(AppleOp) /\ OnceEach(queue)
    /\ runningOp \in AppleOp \cup {0} /\ stopping \in BOOLEAN /\ lives \in 1 .. MaxLives
    /\ sent \in [AppleOp -> {0, 1}] /\ withdrawn \subseteq AppleOp

Queued(op) == In(queue, op)
Holds(t, op) == exec[t].op = op /\ exec[t].pc \in Works
Statuses(op) == StatusIn(recent, op) \cup StatusIn(history, op)

OneHolder ==
    /\ \A op \in AppleOp, t, u \in Thread : Holds(t, op) /\ Holds(u, op) => t = u
    /\ \A op \in AppleOp, t \in Thread : Queued(op) => ~Holds(t, op)
UnusedUnknown ==
    \A op \in AppleOp : op \notin Used =>
       /\ ~Queued(op) /\ \A t \in Thread : exec[t].op # op
       /\ Statuses(op) = {} /\ sent[op] = 0 /\ op \notin withdrawn
SentOnce ==
    \A op \in AppleOp : sent[op] = 1 =>
        ~Queued(op) /\ \A t \in Thread : Holds(t, op) => exec[t].pc = "complete"
WithdrawnRest ==
    \A op \in withdrawn :
        /\ sent[op] = 0 /\ ~Queued(op) /\ \A t \in Thread : ~Holds(t, op)
        /\ Statuses(op) \subseteq {"queued", "canceled", "blocked"}
NotBegun ==
    \A op \in AppleOp :
        Queued(op) \/ (\E t \in Thread : Holds(t, op) /\ exec[t].pc = "enqueue")
            => Statuses(op) \subseteq {"queued", "canceled"}
Backed ==
    Up => \A op \in AppleOp :
        Statuses(op) \cap {"queued", "running"} # {} => Queued(op) \/ \E t \in Thread : exec[t].op = op
Ending ==
    /\ ~Up => queue = << >>
    /\ stopping => \A c \in AppleCaller : exec[c].pc = "idle"
    /\ exec["worker"].pc = "ended" => stopping /\ queue = << >>

Safe == OneHolder /\ UnusedUnknown /\ SentOnce /\ WithdrawnRest /\ NotBegun /\ Backed /\ Ending
AppleInv == AppleTypes /\ Safe

-----------------------------------------------------------------------------
(* The list of records *)

LEMMA LimitIsPositive == RecentLimit \in Nat \ {0}
  BY AppleAssumption

Record == [op : AppleOp, status : Status]

LEMMA PlaceProperties ==
    ASSUME NEW records, IsRecords(records), NEW op
    PROVE  LET place == Place(records, op)
           IN  /\ place \in 1 .. Len(records) + 1
               /\ place <= Len(records) => records[place].op = op
               /\ \A i \in 1 .. Len(records) : records[i].op = op => i = place
<1>1. records \in Seq(Record) /\ Len(records) \in Nat /\ DOMAIN records = 1 .. Len(records)
  BY LenProperties DEF IsRecords, Record
<1>2. CASE \E i \in DOMAIN records : records[i].op = op
  <2>1. Place(records, op) \in DOMAIN records /\ records[Place(records, op)].op = op
    BY <1>2 DEF Place
  <2> QED
    BY <1>1, <2>1 DEF IsRecords
<1>3. CASE ~ \E i \in DOMAIN records : records[i].op = op
  BY <1>1, <1>3 DEF Place
<1> QED
  BY <1>2, <1>3

\* A list with the record of op at the front and the others behind it.
LEMMA PutElements ==
    ASSUME NEW records, IsRecords(records), NEW op \in AppleOp, NEW status \in Status
    PROVE  /\ Put(records, op, status) \in Seq(Record)
           /\ Len(Put(records, op, status)) \in 1 .. RecentLimit
           /\ Put(records, op, status)[1] = [op |-> op, status |-> status]
           /\ \A i \in 2 .. Len(Put(records, op, status)) :
                 \E k \in DOMAIN records :
                    /\ Put(records, op, status)[i] = records[k] /\ records[k].op # op
                    /\ k = IF i <= Place(records, op) THEN i - 1 ELSE i
<1> DEFINE place == Place(records, op)
           length == IF place > Len(records) THEN place ELSE Len(records)
           n == IF length > RecentLimit THEN RecentLimit ELSE length
           f == [i \in 1 .. n |->
                   IF i = 1 THEN [op |-> op, status |-> status]
                   ELSE IF i <= place THEN records[i - 1] ELSE records[i]]
<1>1. /\ records \in Seq(Record) /\ Len(records) \in Nat /\ DOMAIN records = 1 .. Len(records)
      /\ \A i \in 1 .. Len(records) : records[i] \in Record
  BY LenProperties, ElementOfSeq DEF IsRecords, Record
<1>2. /\ place \in 1 .. Len(records) + 1
      /\ \A i \in 1 .. Len(records) : records[i].op = op => i = place
  BY PlaceProperties
<1>3. Put(records, op, status) = f
  BY DEF Put
<1>4. RecentLimit \in Nat \ {0}
  BY LimitIsPositive
<1> HIDE DEF place
<1>5. n \in 1 .. RecentLimit /\ n \in Nat /\ n <= Len(records) + 1
      /\ (n = Len(records) + 1 => place = Len(records) + 1)
  BY <1>1, <1>2, <1>4
<1> HIDE DEF n
<1>6. f[1] = [op |-> op, status |-> status]
  BY <1>5
<1>7. ASSUME NEW i \in 2 .. n
      PROVE  \E k \in DOMAIN records :
                /\ f[i] = records[k] /\ records[k].op # op
                /\ k = IF i <= place THEN i - 1 ELSE i
  <2> DEFINE k == IF i <= place THEN i - 1 ELSE i
  <2>1. k \in 1 .. Len(records) /\ k # place
    BY <1>1, <1>2, <1>5
  <2>2. f[i] = records[k]
    BY <1>5
  <2>3. k \in DOMAIN records /\ records[k].op # op
    BY <1>1, <1>2, <2>1
  <2> QED
    BY <2>2, <2>3
<1>8. f \in [1 .. n -> Record]
  <2>1. \A i \in 1 .. n : f[i] \in Record
    BY <1>1, <1>5, <1>6, <1>7 DEF Record
  <2> QED
    BY <2>1
<1>9. f \in Seq(Record) /\ Len(f) = n
  BY <1>5, <1>8
<1> QED
  BY <1>3, <1>5, <1>6, <1>7, <1>9 DEF place

LEMMA PutTyped ==
    ASSUME NEW records, IsRecords(records), NEW op \in AppleOp, NEW status \in Status
    PROVE  IsRecords(Put(records, op, status))
<1> DEFINE put == Put(records, op, status)
<1>1. /\ put \in Seq(Record) /\ Len(put) \in 1 .. RecentLimit
      /\ put[1] = [op |-> op, status |-> status]
      /\ \A i \in 2 .. Len(put) :
            \E k \in DOMAIN records :
               /\ put[i] = records[k] /\ records[k].op # op
               /\ k = IF i <= Place(records, op) THEN i - 1 ELSE i
  BY PutElements
<1>2. Place(records, op) \in Nat /\ RecentLimit \in Nat
  <2>1. Len(records) \in Nat
    BY LenProperties DEF IsRecords
  <2> QED
    BY <2>1, PlaceProperties, LimitIsPositive
<1> HIDE DEF put
<1>3. DOMAIN put = 1 .. Len(put) /\ Len(put) \in Nat
  BY <1>1, LenProperties
<1>4. ASSUME NEW i \in DOMAIN put, NEW j \in DOMAIN put, put[i].op = put[j].op
      PROVE  i = j
  <2>1. CASE i = 1 \/ j = 1
    BY <1>1, <1>3, <1>4, <2>1
  <2>2. CASE i # 1 /\ j # 1
    <3>1. PICK k \in DOMAIN records :
             put[i] = records[k] /\ k = IF i <= Place(records, op) THEN i - 1 ELSE i
      BY <1>1, <1>3, <2>2
    <3>2. PICK m \in DOMAIN records :
             put[j] = records[m] /\ m = IF j <= Place(records, op) THEN j - 1 ELSE j
      BY <1>1, <1>3, <2>2
    <3>3. k = m
      BY <1>4, <3>1, <3>2 DEF IsRecords
    <3> QED
      BY <1>2, <1>3, <3>1, <3>2, <3>3
  <2> QED
    BY <2>1, <2>2
<1> QED
  BY <1>1, <1>2, <1>4 DEF IsRecords, Record, put

LEMMA PutStatuses ==
    ASSUME NEW records, IsRecords(records), NEW op \in AppleOp, NEW status \in Status
    PROVE  /\ StatusIn(Put(records, op, status), op) = {status}
           /\ \A o : o # op => StatusIn(Put(records, op, status), o) \subseteq StatusIn(records, o)
<1> DEFINE put == Put(records, op, status)
<1>1. /\ put \in Seq(Record) /\ Len(put) \in 1 .. RecentLimit
      /\ put[1] = [op |-> op, status |-> status]
      /\ \A i \in 2 .. Len(put) : \E k \in DOMAIN records : put[i] = records[k] /\ records[k].op # op
  BY PutElements
<1> HIDE DEF put
<1>2. DOMAIN put = 1 .. Len(put) /\ Len(put) \in Nat /\ 1 \in DOMAIN put
  BY <1>1, LenProperties
<1>3. \A i \in DOMAIN put : i = 1 \/ \E k \in DOMAIN records : put[i] = records[k] /\ records[k].op # op
  BY <1>1, <1>2
<1>4. StatusIn(put, op) = {status}
  BY <1>1, <1>2, <1>3 DEF StatusIn
<1>5. ASSUME NEW o, o # op PROVE StatusIn(put, o) \subseteq StatusIn(records, o)
  BY <1>1, <1>3, <1>5 DEF StatusIn
<1> QED
  BY <1>4, <1>5 DEF put

\* The reconciled record keeps an end, and has no other status than blocked.
Settled(now, before) == now \subseteq (before \cap Terminal) \cup {"blocked"} /\ (before = {} => now = {})

LEMMA ReconciledRecords ==
    ASSUME NEW records, IsRecords(records)
    PROVE  /\ IsRecords(Reconciled(records))
           /\ \A o : Settled(StatusIn(Reconciled(records), o), StatusIn(records, o))
<1> DEFINE r == Reconciled(records)
<1>1. /\ records \in Seq(Record) /\ Len(records) \in Nat /\ DOMAIN records = 1 .. Len(records)
      /\ \A i \in 1 .. Len(records) : records[i] \in Record
  BY LenProperties, ElementOfSeq DEF IsRecords, Record
<1>2. /\ DOMAIN r = DOMAIN records
      /\ \A i \in DOMAIN records :
            /\ r[i] \in Record /\ r[i].op = records[i].op
            /\ \/ r[i].status = records[i].status /\ records[i].status \in Terminal
               \/ r[i].status = "blocked"
  BY <1>1 DEF Reconciled, Record, Status
<1>3. r \in [1 .. Len(records) -> Record]
  BY <1>1, <1>2 DEF Reconciled
<1> HIDE DEF r
<1>4. r \in Seq(Record) /\ Len(r) = Len(records)
  BY <1>1, <1>3
<1>5. IsRecords(r)
  BY <1>2, <1>4 DEF IsRecords, Record
<1>6. ASSUME NEW o
      PROVE  Settled(StatusIn(r, o), StatusIn(records, o))
  BY <1>2 DEF StatusIn, Settled
<1> QED
  BY <1>5, <1>6 DEF r

\* Writing a record changes what is known of this operation alone.
LEMMA PersistProperties ==
    ASSUME AppleTypes, NEW op \in AppleOp, NEW status \in Status, Persist(op, status)
    PROVE  /\ IsRecords(recent') /\ IsRecords(history')
           /\ Statuses(op)' = {status}
           /\ \A o : o # op => Statuses(o)' \subseteq Statuses(o)
<1>1. recent' = Put(recent, op, status) /\ history' = Put(recent, op, status) /\ IsRecords(recent)
  BY DEF Persist, AppleTypes
<1>2. IsRecords(Put(recent, op, status))
  BY <1>1, PutTyped
<1>3. /\ StatusIn(Put(recent, op, status), op) = {status}
      /\ \A o : o # op => StatusIn(Put(recent, op, status), o) \subseteq StatusIn(recent, o)
  BY <1>1, PutStatuses
<1> QED
  BY <1>1, <1>2, <1>3 DEF Statuses

-----------------------------------------------------------------------------
(* The queue *)

LEMMA QueueAppend ==
    ASSUME NEW q \in Seq(AppleOp), OnceEach(q), NEW op \in AppleOp, ~In(q, op)
    PROVE  /\ Append(q, op) \in Seq(AppleOp) /\ OnceEach(Append(q, op))
           /\ \A o : In(Append(q, op), o) <=> (o = op \/ In(q, o))
<1> DEFINE r == Append(q, op)
<1>1. Len(q) \in Nat /\ DOMAIN q = 1 .. Len(q)
  BY LenProperties
<1>2. /\ r \in Seq(AppleOp) /\ Len(r) = Len(q) + 1 /\ r[Len(q) + 1] = op
      /\ \A i \in 1 .. Len(q) : r[i] = q[i]
  BY AppendProperties
<1>3. DOMAIN r = 1 .. Len(q) + 1
  BY <1>2, LenProperties
<1> HIDE DEF r
<1>4. \A i \in DOMAIN r : (i \in DOMAIN q /\ r[i] = q[i]) \/ (i = Len(q) + 1 /\ r[i] = op)
  BY <1>1, <1>2, <1>3
<1>5. DOMAIN q \subseteq DOMAIN r /\ Len(q) + 1 \in DOMAIN r
  BY <1>1, <1>3
<1>6. OnceEach(r)
  BY <1>4 DEF OnceEach, In
<1>7. \A o : In(r, o) <=> (o = op \/ In(q, o))
  BY <1>1, <1>2, <1>4, <1>5 DEF In
<1> QED
  BY <1>2, <1>6, <1>7 DEF r

LEMMA QueueTail ==
    ASSUME NEW q \in Seq(AppleOp), OnceEach(q), q # << >>
    PROVE  /\ Head(q) \in AppleOp /\ In(q, Head(q)) /\ Tail(q) \in Seq(AppleOp) /\ OnceEach(Tail(q))
           /\ \A o : In(Tail(q), o) <=> (o # Head(q) /\ In(q, o))
<1> DEFINE r == Tail(q)
<1>1. Len(q) \in Nat \ {0} /\ DOMAIN q = 1 .. Len(q)
  BY LenProperties, EmptySeq
<1>2. /\ Head(q) \in AppleOp /\ r \in Seq(AppleOp) /\ Len(r) = Len(q) - 1
      /\ \A i \in 1 .. Len(r) : r[i] = q[i + 1]
  BY HeadTailProperties
<1>3. Head(q) = q[1]
  BY <1>1
<1>4. DOMAIN r = 1 .. Len(q) - 1
  BY <1>2, LenProperties
<1> HIDE DEF r
<1>5. \A i \in DOMAIN r : i + 1 \in DOMAIN q /\ r[i] = q[i + 1] /\ i + 1 # 1
  BY <1>1, <1>2, <1>4
<1>6. \A i \in DOMAIN q : i = 1 \/ (i - 1 \in DOMAIN r /\ r[i - 1] = q[i])
  BY <1>1, <1>2, <1>4
<1>7. OnceEach(r)
  BY <1>1, <1>4, <1>5 DEF OnceEach
<1>8. ASSUME NEW o PROVE In(r, o) <=> (o # q[1] /\ In(q, o))
  BY <1>1, <1>5, <1>6 DEF OnceEach, In
<1>9. In(q, q[1])
  BY <1>1 DEF In
<1> QED
  BY <1>2, <1>3, <1>7, <1>8, <1>9 DEF r

LEMMA QueueRemove ==
    ASSUME NEW q \in Seq(AppleOp), OnceEach(q), NEW op, In(q, op)
    PROVE  LET r == RemoveAt(q, CHOOSE i \in DOMAIN q : q[i] = op)
           IN  /\ r \in Seq(AppleOp) /\ OnceEach(r)
               /\ \A o : In(r, o) <=> (o # op /\ In(q, o))
<1> DEFINE k == CHOOSE i \in DOMAIN q : q[i] = op
           a == SubSeq(q, 1, k - 1)
           b == SubSeq(q, k + 1, Len(q))
           r == a \o b
<1>1. Len(q) \in Nat /\ DOMAIN q = 1 .. Len(q) /\ \A i \in DOMAIN q : q[i] \in AppleOp
  BY LenProperties, ElementOfSeq
<1>2. k \in 1 .. Len(q) /\ q[k] = op
  BY <1>1 DEF In
<1>3. RemoveAt(q, k) = r
  BY DEF RemoveAt
<1> HIDE DEF k
<1>4. /\ a \in Seq(AppleOp) /\ Len(a) = k - 1
      /\ \A i \in 1 .. k - 1 : a[i] = q[i]
  <2>1. /\ a \in Seq(AppleOp) /\ Len(a) = IF 1 <= k - 1 THEN (k - 1) - 1 + 1 ELSE 0
        /\ \A i \in 1 .. (k - 1) - 1 + 1 : a[i] = q[1 + i - 1]
    BY <1>1, <1>2, SubSeqProperties
  <2> HIDE DEF a
  <2> QED
    BY <1>2, <2>1
<1>5. /\ b \in Seq(AppleOp) /\ Len(b) = Len(q) - k
      /\ \A i \in 1 .. Len(q) - k : b[i] = q[k + i]
  <2>1. /\ b \in Seq(AppleOp) /\ Len(b) = IF k + 1 <= Len(q) THEN Len(q) - (k + 1) + 1 ELSE 0
        /\ \A i \in 1 .. Len(q) - (k + 1) + 1 : b[i] = q[(k + 1) + i - 1]
    BY <1>1, <1>2, SubSeqProperties
  <2> HIDE DEF b
  <2>2. Len(b) = Len(q) - k
    <3>1. Len(q) \in Nat /\ k \in 1 .. Len(q)
      BY <1>1, <1>2
    <3>2. Len(b) = IF k + 1 <= Len(q) THEN Len(q) - (k + 1) + 1 ELSE 0
      BY <2>1
    <3>3. CASE k + 1 <= Len(q)
      BY <3>1, <3>2, <3>3
    <3>4. CASE ~(k + 1 <= Len(q))
      BY <3>1, <3>2, <3>4
    <3> QED
      BY <3>3, <3>4
  <2>3. \A i \in 1 .. Len(q) - k : i \in 1 .. Len(q) - (k + 1) + 1 /\ (k + 1) + i - 1 = k + i
    BY <1>1, <1>2
  <2> QED
    BY <2>1, <2>2, <2>3
<1> HIDE DEF a, b
<1>6. /\ r \in Seq(AppleOp) /\ Len(r) = Len(a) + Len(b)
      /\ \A i \in 1 .. Len(a) + Len(b) : r[i] = IF i <= Len(a) THEN a[i] ELSE b[i - Len(a)]
  BY <1>4, <1>5, ConcatProperties
<1>7. DOMAIN r = 1 .. Len(q) - 1
  <2>1. Len(r) = Len(q) - 1
    BY <1>1, <1>2, <1>4, <1>5, <1>6
  <2> QED
    BY <1>6, <2>1, LenProperties
<1> HIDE DEF r
<1>8. ASSUME NEW i \in 1 .. Len(q) - 1
      PROVE  r[i] = IF i < k THEN q[i] ELSE q[i + 1]
  <2>1. CASE i < k
    <3>1. i \in 1 .. k - 1 /\ i \in 1 .. Len(a) + Len(b) /\ i <= Len(a)
      BY <1>1, <1>2, <1>4, <1>5, <2>1
    <3> QED
      BY <1>4, <1>6, <2>1, <3>1
  <2>2. CASE ~(i < k)
    <3>1. /\ i \in 1 .. Len(a) + Len(b) /\ ~(i <= Len(a))
          /\ i - Len(a) \in 1 .. Len(q) - k /\ k + (i - Len(a)) = i + 1
      BY <1>1, <1>2, <1>4, <1>5, <2>2
    <3> QED
      BY <1>5, <1>6, <2>2, <3>1
  <2> QED
    BY <2>1, <2>2
<1>9. OnceEach(r)
  <2>1. \A i \in DOMAIN r :
           \E j \in DOMAIN q : r[i] = q[j] /\ j # k /\ i = IF j < k THEN j ELSE j - 1
    <3> SUFFICES ASSUME NEW i \in DOMAIN r
                 PROVE  \E j \in DOMAIN q : r[i] = q[j] /\ j # k /\ i = IF j < k THEN j ELSE j - 1
      OBVIOUS
    <3>1. i \in 1 .. Len(q) - 1 /\ r[i] = IF i < k THEN q[i] ELSE q[i + 1]
      BY <1>7, <1>8
    <3>2. CASE i < k
      <4>1. i \in DOMAIN q /\ r[i] = q[i] /\ i # k
        BY <1>1, <1>2, <3>1, <3>2
      <4> QED
        BY <3>2, <4>1
    <3>3. CASE ~(i < k)
      <4>1. i + 1 \in DOMAIN q /\ r[i] = q[i + 1] /\ i + 1 # k /\ ~(i + 1 < k) /\ i = (i + 1) - 1
        BY <1>1, <1>2, <3>1, <3>3
      <4> QED
        BY <4>1
    <3> QED
      BY <3>2, <3>3
  <2> QED
    BY <2>1 DEF OnceEach
<1>10. ASSUME NEW o PROVE In(r, o) <=> (o # op /\ In(q, o))
  <2>1. ASSUME NEW i \in DOMAIN r PROVE r[i] # op /\ In(q, r[i])
    BY <1>1, <1>2, <1>7, <1>8 DEF OnceEach, In
  <2>2. ASSUME NEW i \in DOMAIN q, i # k PROVE In(r, q[i])
    <3>1. CASE i < k
      BY <1>1, <1>2, <1>7, <1>8, <3>1 DEF In
    <3>2. CASE i > k
      <4>1. i - 1 \in DOMAIN r /\ r[i - 1] = q[i]
        BY <1>1, <1>2, <1>7, <1>8, <3>2
      <4> QED
        BY <4>1 DEF In
    <3> QED
      BY <1>1, <1>2, <2>2, <3>1, <3>2
  <2> QED
    BY <1>2, <2>1, <2>2 DEF In
<1> QED
  BY <1>3, <1>6, <1>9, <1>10 DEF k

-----------------------------------------------------------------------------
(* Threads and hosts *)

LEMMA Numbers == MaxOperations \in Nat /\ MaxLives \in Nat \ {0} /\ 0 \notin AppleOp
<1>1. MaxOperations \in Nat /\ MaxLives \in Nat \ {0}
  BY AppleAssumption, Zenon
<1> QED
  BY <1>1 DEF AppleOp

LEMMA HostConstants == EditedHosts \subseteq AppleHostId /\ Probes \subseteq SUBSET Facility
  BY AppleAssumption

LEMMA Threads == "worker" \in Thread /\ \A c \in AppleCaller : c \in Thread /\ c # "worker"
  BY AppleAssumption DEF Thread

\* g is f but for thread t.
Edits(g, f, t, pc, op, left, best, outcome) ==
    /\ AreThreads(g) /\ \A u \in Thread : u # t => g[u] = f[u]
    /\ g[t].pc = pc /\ g[t].op = op /\ g[t].left = left /\ g[t].best = best /\ g[t].outcome = outcome

LEMMA EditPc ==
    ASSUME NEW f, AreThreads(f), NEW t \in Thread, NEW pc \in Pcs
    PROVE  Edits([f EXCEPT ![t].pc = pc], f, t, pc, f[t].op, f[t].left, f[t].best, f[t].outcome)
  BY DEF AreThreads, IsThread, Edits

LEMMA EditOp ==
    ASSUME NEW f, AreThreads(f), NEW t \in Thread, NEW op \in AppleOp \cup {0}
    PROVE  Edits([f EXCEPT ![t].op = op], f, t, f[t].pc, op, f[t].left, f[t].best, f[t].outcome)
  BY DEF AreThreads, IsThread, Edits

LEMMA EditLeft ==
    ASSUME NEW f, AreThreads(f), NEW t \in Thread, NEW left
    PROVE  Edits([f EXCEPT ![t].left = left], f, t, f[t].pc, f[t].op, left, f[t].best, f[t].outcome)
  BY DEF AreThreads, IsThread, Edits

LEMMA EditBest ==
    ASSUME NEW f, AreThreads(f), NEW t \in Thread, NEW best
    PROVE  Edits([f EXCEPT ![t].best = best], f, t, f[t].pc, f[t].op, f[t].left, best, f[t].outcome)
  BY DEF AreThreads, IsThread, Edits

LEMMA EditOutcome ==
    ASSUME NEW f, AreThreads(f), NEW t \in Thread, NEW outcome \in Status
    PROVE  Edits([f EXCEPT ![t].outcome = outcome], f, t, f[t].pc, f[t].op, f[t].left, f[t].best, outcome)
  BY DEF AreThreads, IsThread, Edits

LEMMA EditAll ==
    ASSUME NEW f, AreThreads(f), NEW t \in Thread, NEW e, IsThread(e)
    PROVE  Edits([f EXCEPT ![t] = e], f, t, e.pc, e.op, e.left, e.best, e.outcome)
  BY DEF AreThreads, Edits

LEMMA EditedTyped ==
    ASSUME ThreadsTyped, NEW t \in Thread, NEW pc, NEW op, NEW left, NEW best, NEW outcome,
           Edits(exec', exec, t, pc, op, left, best, outcome), Sensible(pc, op, left, best, outcome)
    PROVE  ThreadsTyped'
  BY DEF ThreadsTyped, Edits

LEMMA FreeTyped ==
    \A pc \in {"idle", "reset", "down"} :
       LET e == [FreeThread EXCEPT !.pc = pc]
       IN  /\ IsThread(e) /\ e.pc = pc /\ e.op = 0 /\ Sensible(e.pc, e.op, e.left, e.best, e.outcome)
  BY DEF IsThread, FreeThread, Pcs, Rests, Works, Status, Sensible

\* A step in which thread t goes on to pc with operation op, and nothing else
\* of a thread changes that the invariant is about.
Goes(t, pc, op) ==
    /\ ThreadsTyped' /\ exec'[t].pc = pc /\ exec'[t].op = op
    /\ \A u \in Thread : u # t => exec'[u] = exec[u]

\* Execute, a cancellation and Take give an idle thread an operation.
LEMMA Assigned ==
    ASSUME ThreadsTyped, NEW t \in Thread, NEW op \in AppleOp, NEW pc \in {"enqueue", "choose", "cancel"},
           exec' = [exec EXCEPT ![t].op = op, ![t].pc = pc]
    PROVE  Goes(t, pc, op)
<1> DEFINE mid == [exec EXCEPT ![t].op = op]
<1>1. exec' = [mid EXCEPT ![t].pc = pc]
  OBVIOUS
<1>2. Edits(mid, exec, t, exec[t].pc, op, exec[t].left, exec[t].best, exec[t].outcome)
  BY EditOp DEF ThreadsTyped
<1> HIDE DEF mid
<1>3. Edits(exec', mid, t, pc, mid[t].op, mid[t].left, mid[t].best, mid[t].outcome)
  <2>1. AreThreads(mid) /\ pc \in Pcs
    BY <1>2 DEF Edits, Pcs, Works
  <2>2. Edits([mid EXCEPT ![t].pc = pc], mid, t, pc, mid[t].op, mid[t].left, mid[t].best, mid[t].outcome)
    BY <2>1, EditPc
  <2> QED
    BY <1>1, <2>2
<1>4. Edits(exec', exec, t, pc, op, exec[t].left, exec[t].best, exec[t].outcome)
  BY <1>2, <1>3 DEF Edits
<1>5. Sensible(pc, op, exec[t].left, exec[t].best, exec[t].outcome)
  BY Numbers DEF ThreadsTyped, Sensible, Rests
<1> QED
  BY <1>4, <1>5, EditedTyped DEF Goes, Edits

LEMMA Released ==
    ASSUME ThreadsTyped, NEW t \in Thread, NEW pc \in {"idle", "reset"},
           exec' = [exec EXCEPT ![t] = [FreeThread EXCEPT !.pc = pc]]
    PROVE  Goes(t, pc, 0)
<1> DEFINE e == [FreeThread EXCEPT !.pc = pc]
<1>1. IsThread(e) /\ e.pc = pc /\ e.op = 0 /\ Sensible(e.pc, e.op, e.left, e.best, e.outcome)
  BY FreeTyped
<1> HIDE DEF e
<1>2. Edits(exec', exec, t, e.pc, e.op, e.left, e.best, e.outcome)
  BY <1>1, EditAll DEF ThreadsTyped, e
<1> QED
  BY <1>1, <1>2, EditedTyped DEF Goes, Edits

\* The end of a tool, with a result.
LEMMA Ended ==
    ASSUME ThreadsTyped, NEW t \in Thread, exec[t].op # 0, NEW status \in Terminal,
           exec' = Outcome(t, status)
    PROVE  Goes(t, "complete", exec[t].op)
<1> DEFINE mid == [exec EXCEPT ![t].pc = "complete"]
<1>1. exec' = [mid EXCEPT ![t].outcome = status]
  BY DEF Outcome
<1>2. Edits(mid, exec, t, "complete", exec[t].op, exec[t].left, exec[t].best, exec[t].outcome)
  BY EditPc DEF ThreadsTyped, Pcs, Works
<1> HIDE DEF mid
<1>3. Edits(exec', mid, t, mid[t].pc, mid[t].op, mid[t].left, mid[t].best, status)
  <2>1. AreThreads(mid) /\ status \in Status
    BY <1>2 DEF Edits, Terminal
  <2>2. Edits([mid EXCEPT ![t].outcome = status], mid, t, mid[t].pc, mid[t].op, mid[t].left, mid[t].best, status)
    BY <2>1, EditOutcome
  <2> QED
    BY <1>1, <2>2
<1>4. Edits(exec', exec, t, "complete", exec[t].op, exec[t].left, exec[t].best, status)
  BY <1>2, <1>3 DEF Edits
<1>5. Sensible("complete", exec[t].op, exec[t].left, exec[t].best, status)
  BY DEF ThreadsTyped, Sensible, Rests
<1> QED
  BY <1>4, <1>5, EditedTyped DEF Goes, Edits

\* Hosts to inspect, the best one so far, and where the thread goes on.
LEMMA Prepared ==
    ASSUME ThreadsTyped, NEW t \in Thread, NEW pc \in Pcs, NEW left, NEW best,
           exec' = [exec EXCEPT ![t].pc = pc, ![t].left = left, ![t].best = best],
           Sensible(pc, exec[t].op, left, best, exec[t].outcome)
    PROVE  Goes(t, pc, exec[t].op)
<1> DEFINE f == [exec EXCEPT ![t].pc = pc]
           g == [f EXCEPT ![t].left = left]
           h == [g EXCEPT ![t].best = best]
<1>1. exec' = h
  OBVIOUS
<1>2. Edits(f, exec, t, pc, exec[t].op, exec[t].left, exec[t].best, exec[t].outcome)
  BY EditPc DEF ThreadsTyped
<1> HIDE DEF f
<1>3. Edits(g, f, t, f[t].pc, f[t].op, left, f[t].best, f[t].outcome)
  <2>1. AreThreads(f)
    BY <1>2 DEF Edits
  <2> QED
    BY <2>1, EditLeft
<1> HIDE DEF g
<1>4. Edits(h, g, t, g[t].pc, g[t].op, g[t].left, best, g[t].outcome)
  <2>1. AreThreads(g)
    BY <1>3 DEF Edits
  <2> QED
    BY <2>1, EditBest
<1> HIDE DEF h
<1>5. Edits(h, exec, t, pc, exec[t].op, left, best, exec[t].outcome)
  BY <1>2, <1>3, <1>4 DEF Edits
<1>6. Edits(exec', exec, t, pc, exec[t].op, left, best, exec[t].outcome)
  BY <1>1, <1>5
<1> QED
  BY <1>6, EditedTyped DEF Goes, Edits

LEMMA Looks ==
    ASSUME ThreadsTyped, NEW t \in Thread, NEW pc \in Pcs, NEW left,
           exec' = [exec EXCEPT ![t].pc = pc, ![t].left = left],
           Sensible(pc, exec[t].op, left, exec[t].best, exec[t].outcome)
    PROVE  Goes(t, pc, exec[t].op)
<1> DEFINE f == [exec EXCEPT ![t].pc = pc]
           g == [f EXCEPT ![t].left = left]
<1>1. exec' = g
  OBVIOUS
<1>2. Edits(f, exec, t, pc, exec[t].op, exec[t].left, exec[t].best, exec[t].outcome)
  BY EditPc DEF ThreadsTyped
<1> HIDE DEF f
<1>3. Edits(g, f, t, f[t].pc, f[t].op, left, f[t].best, f[t].outcome)
  <2>1. AreThreads(f)
    BY <1>2 DEF Edits
  <2> QED
    BY <2>1, EditLeft
<1> HIDE DEF g
<1>4. Edits(g, exec, t, pc, exec[t].op, left, exec[t].best, exec[t].outcome)
  BY <1>2, <1>3 DEF Edits
<1>5. Edits(exec', exec, t, pc, exec[t].op, left, exec[t].best, exec[t].outcome)
  BY <1>1, <1>4
<1> QED
  BY <1>5, EditedTyped DEF Goes, Edits

LEMMA Moves ==
    ASSUME ThreadsTyped, NEW t \in Thread, NEW pc \in Pcs, exec' = [exec EXCEPT ![t].pc = pc],
           Sensible(pc, exec[t].op, exec[t].left, exec[t].best, exec[t].outcome)
    PROVE  Goes(t, pc, exec[t].op)
<1>1. Edits([exec EXCEPT ![t].pc = pc], exec, t, pc, exec[t].op, exec[t].left, exec[t].best, exec[t].outcome)
  BY EditPc DEF ThreadsTyped
<1>2. Edits(exec', exec, t, pc, exec[t].op, exec[t].left, exec[t].best, exec[t].outcome)
  BY <1>1
<1> QED
  BY <1>2, EditedTyped DEF Goes, Edits

\* Whatever an inspection finds, the host keeps its id or has none.
LEMMA InspectedHost ==
    ASSUME NEW host, IsHost(host), host.id \in HostKey, NEW inspected \in Inspections(host)
    PROVE  IsHost(inspected) /\ inspected.id \in HostKey
<1>1. CASE inspected = host
  BY <1>1
<1>2. CASE \E facilities \in Probes : inspected = [host EXCEPT !.found = facilities]
  BY <1>2, HostConstants DEF IsHost
<1>3. CASE inspected = [host EXCEPT !.found = @ \ {"reachable"}]
  BY <1>3 DEF IsHost
<1>4. CASE inspected = Blank(host)
  <2>1. inspected = [host EXCEPT !.id = "", !.lanes = {}, !.defaults = {}, !.found = @ \ {"reachable"}]
    BY <1>4 DEF Blank
  <2> QED
    BY <2>1 DEF IsHost, HostKey
<1> QED
  BY <1>1, <1>2, <1>3, <1>4 DEF Inspections

LEMMA PersistHost ==
    ASSUME HostsTyped, NEW h, IsHost(h), h.id \in HostKey, persistHost(h)
    PROVE  HostsTyped'
  BY DEF HostsTyped, persistHost

-----------------------------------------------------------------------------
(* The steps of a tool *)

\* A thread at work goes on with its operation; the hosts stay well typed.
Proceeds(t) == HostsTyped' /\ \E pc \in Works \ {"enqueue"} : Goes(t, pc, exec[t].op)

LEMMA WorkingThread ==
    ASSUME ThreadsTyped, NEW t \in Thread, exec[t].pc \in Works
    PROVE  exec[t].op # 0 /\ exec[t].op \in AppleOp
  BY DEF ThreadsTyped, AreThreads, IsThread, Sensible, Works, Rests

LEMMA EndedProceeds ==
    ASSUME ThreadsTyped, NEW t \in Thread, exec[t].pc \in Works, HostsTyped', NEW status \in Terminal,
           exec' = Outcome(t, status)
    PROVE  Proceeds(t)
  BY WorkingThread, Ended DEF Proceeds, Works

LEMMA ChooseHostProceeds ==
    ASSUME AppleTypes, NEW t \in Thread, ChooseHost(t), exec[t].op \in Used
    PROVE  Proceeds(t)
<1> DEFINE ids == IF Req(t).preferred # "" THEN {id \in {Req(t).preferred} : hosts[id] # Absent}
                  ELSE Candidates(LaneAt(t))
           left == {hosts[id] : id \in ids}
<1>1. HostsTyped' /\ exec[t].pc = "choose" /\ exec[t].pc \in Works /\ ThreadsTyped
  BY DEF ChooseHost, Stands, AppleTypes, HostsTyped, Works
<1>2. \A id \in ids : id \in HostKey /\ IsHost(hosts[id]) /\ hosts[id].id = id
  <2>1. \A id \in HostKey : /\ IsHost(hosts[id])
                            /\ hosts[id] # Absent => hosts[id].id = id
    BY DEF AppleTypes, HostsTyped
  <2>2. Req(t).preferred \in HostKey
    BY DEF AppleTypes, RequestsTyped, IsRequest, Req
  <2>3. \A id \in Candidates(LaneAt(t)) : id \in HostKey /\ hosts[id] # Absent
    BY DEF Candidates, Absent
  <2> QED
    BY <2>1, <2>2, <2>3
<1>3. exec' = IF ids = {} THEN Outcome(t, "blocked")
              ELSE [exec EXCEPT ![t].pc = "inspect", ![t].left = left, ![t].best = Absent]
  BY DEF ChooseHost
<1> HIDE DEF ids
<1>4. CASE ids = {}
  BY <1>1, <1>3, <1>4, EndedProceeds DEF Terminal, Status
<1>5. CASE ids # {}
  <2>1. \A h \in left : IsHost(h) /\ h.id \in HostKey
    BY <1>2
  <2>2. \A a, b \in left : a.id = b.id => a = b
    BY <1>2
  <2>3. exec[t].op # 0
    BY <1>1, WorkingThread
  <2> HIDE DEF left
  <2>4. Sensible("inspect", exec[t].op, left, Absent, exec[t].outcome)
    BY <2>1, <2>2, <2>3 DEF Sensible, Rests
  <2>5. exec' = [exec EXCEPT ![t].pc = "inspect", ![t].left = left, ![t].best = Absent]
    BY <1>3, <1>5
  <2>6. Goes(t, "inspect", exec[t].op)
    BY <1>1, <2>4, <2>5, Prepared DEF Pcs, Works
  <2> QED
    BY <1>1, <2>6 DEF Proceeds, Works
<1> QED
  BY <1>4, <1>5

LEMMA InspectHostProceeds ==
    ASSUME AppleTypes, NEW t \in Thread, InspectHost(t)
    PROVE  Proceeds(t)
<1>1. exec[t].pc = "inspect" /\ exec[t].pc \in Works /\ ThreadsTyped /\ HostsTyped /\ exec[t].op # 0
  BY WorkingThread DEF InspectHost, Stands, AppleTypes, Works
<1>2. Sensible(exec[t].pc, exec[t].op, exec[t].left, exec[t].best, exec[t].outcome)
  BY <1>1 DEF ThreadsTyped
<1>3. PICK host, inspected :
        /\ host \in exec[t].left /\ inspected \in Inspections(host) /\ persistHost(inspected)
        /\ exec' = [exec EXCEPT
              ![t].pc = IF exec[t].left = {host} THEN "route" ELSE "inspect",
              ![t].left = exec[t].left \ {host},
              ![t].best = IF Better(inspected, exec[t].best, LaneAt(t)) THEN inspected ELSE exec[t].best]
  BY DEF InspectHost
<1> DEFINE pc == IF exec[t].left = {host} THEN "route" ELSE "inspect"
           left == exec[t].left \ {host}
           best == IF Better(inspected, exec[t].best, LaneAt(t)) THEN inspected ELSE exec[t].best
<1>4. IsHost(inspected) /\ inspected.id \in HostKey
  BY <1>2, <1>3, InspectedHost DEF Sensible
<1>5. HostsTyped'
  BY <1>1, <1>3, <1>4, PersistHost
<1>6. best = Absent \/ (IsHost(best) /\ best.id \in HostKey)
  BY <1>2, <1>4 DEF Sensible
<1>7. pc \in {"route", "inspect"}
  OBVIOUS
<1>8. exec' = [exec EXCEPT ![t].pc = pc, ![t].left = left, ![t].best = best]
  BY <1>3
<1> HIDE DEF pc, best
<1>9. Sensible(pc, exec[t].op, left, best, exec[t].outcome)
  BY <1>1, <1>2, <1>6, <1>7 DEF Sensible, Rests
<1> HIDE DEF left
<1>10. Goes(t, pc, exec[t].op)
  BY <1>1, <1>7, <1>8, <1>9, Prepared DEF Pcs, Works
<1> QED
  BY <1>5, <1>7, <1>10 DEF Proceeds, Works

LEMMA DecideToolProceeds ==
    ASSUME AppleTypes, NEW t \in Thread, DecideTool(t)
    PROVE  Proceeds(t)
<1>1. exec[t].pc = "decide" /\ exec[t].pc \in Works /\ ThreadsTyped /\ HostsTyped' /\ exec[t].op # 0
  BY WorkingThread DEF DecideTool, Stands, AppleTypes, Works, HostsTyped
<1>2. Sensible(exec[t].pc, exec[t].op, exec[t].left, exec[t].best, exec[t].outcome)
  BY <1>1 DEF ThreadsTyped
<1>3. \/ exec' = Outcome(t, "succeeded") \/ exec' = Outcome(t, "blocked")
      \/ exec' = [exec EXCEPT ![t].pc = "lookup"]
  BY DEF DecideTool
<1>4. CASE exec' = [exec EXCEPT ![t].pc = "lookup"]
  <2>1. Sensible("lookup", exec[t].op, exec[t].left, exec[t].best, exec[t].outcome)
    BY <1>1, <1>2 DEF Sensible, Rests
  <2> QED
    BY <1>1, <1>4, <2>1, Moves DEF Proceeds, Pcs, Works
<1> QED
  BY <1>1, <1>3, <1>4, EndedProceeds DEF Terminal, Status

LEMMA LookUpHostProceeds ==
    ASSUME AppleTypes, NEW t \in Thread, LookUpHost(t)
    PROVE  Proceeds(t)
<1>1. exec[t].pc = "lookup" /\ exec[t].pc \in Works /\ ThreadsTyped /\ HostsTyped' /\ exec[t].op # 0
  BY WorkingThread DEF LookUpHost, Stands, AppleTypes, Works, HostsTyped
<1>2. Sensible(exec[t].pc, exec[t].op, exec[t].left, exec[t].best, exec[t].outcome)
  BY <1>1 DEF ThreadsTyped
<1> DEFINE host == hosts[exec[t].best.id]
<1>3. IsHost(host) /\ (host # Absent => host.id \in HostKey)
  BY <1>1, <1>2 DEF Sensible, AppleTypes, HostsTyped
<1>4. IF host = Absent THEN exec' = Outcome(t, "failed")
      ELSE exec' = [exec EXCEPT ![t].pc = "probe", ![t].left = {host}]
  BY DEF LookUpHost
<1> HIDE DEF host
<1>5. CASE host = Absent
  BY <1>1, <1>4, <1>5, EndedProceeds DEF Terminal, Status
<1>6. CASE host # Absent
  <2>1. Sensible("probe", exec[t].op, {host}, exec[t].best, exec[t].outcome)
    BY <1>1, <1>2, <1>3, <1>6 DEF Sensible, Rests
  <2>2. Goes(t, "probe", exec[t].op)
    BY <1>1, <1>4, <1>6, <2>1, Looks DEF Pcs, Works
  <2> QED
    BY <1>1, <2>2 DEF Proceeds, Works
<1> QED
  BY <1>5, <1>6

LEMMA ProbeHostProceeds ==
    ASSUME AppleTypes, NEW t \in Thread, ProbeHost(t)
    PROVE  Proceeds(t)
<1>1. exec[t].pc = "probe" /\ exec[t].pc \in Works /\ ThreadsTyped /\ HostsTyped /\ exec[t].op # 0
  BY WorkingThread DEF ProbeHost, Stands, AppleTypes, Works
<1>2. Sensible(exec[t].pc, exec[t].op, exec[t].left, exec[t].best, exec[t].outcome)
  BY <1>1 DEF ThreadsTyped
<1>3. PICK host, inspected :
        /\ host \in exec[t].left /\ inspected \in Inspections(host) /\ persistHost(inspected)
        /\ \/ exec' = [exec EXCEPT ![t].pc = "send", ![t].left = {}]
           \/ exec' = [Outcome(t, "failed") EXCEPT ![t].left = {}]
  BY DEF ProbeHost
<1>4. HostsTyped'
  <2>1. IsHost(inspected) /\ inspected.id \in HostKey
    BY <1>2, <1>3, InspectedHost DEF Sensible
  <2> QED
    BY <1>1, <1>3, <2>1, PersistHost
<1>5. CASE exec' = [exec EXCEPT ![t].pc = "send", ![t].left = {}]
  <2>1. Sensible("send", exec[t].op, {}, exec[t].best, exec[t].outcome)
    BY <1>1, <1>2 DEF Sensible, Rests
  <2>2. Goes(t, "send", exec[t].op)
    BY <1>1, <1>5, <2>1, Looks DEF Pcs, Works
  <2> QED
    BY <1>4, <2>2 DEF Proceeds, Works
<1>6. CASE exec' = [Outcome(t, "failed") EXCEPT ![t].left = {}]
  <2> DEFINE f == [exec EXCEPT ![t].pc = "complete"]
             g == [f EXCEPT ![t].outcome = "failed"]
             h == [g EXCEPT ![t].left = {}]
  <2>1. exec' = h
    BY <1>6 DEF Outcome
  <2>2. Edits(f, exec, t, "complete", exec[t].op, exec[t].left, exec[t].best, exec[t].outcome)
    BY <1>1, EditPc DEF ThreadsTyped, Pcs, Works
  <2> HIDE DEF f
  <2>3. Edits(g, f, t, f[t].pc, f[t].op, f[t].left, f[t].best, "failed")
    <3>1. AreThreads(f) /\ "failed" \in Status
      BY <2>2 DEF Edits, Status
    <3> QED
      BY <3>1, EditOutcome
  <2> HIDE DEF g
  <2>4. Edits(h, g, t, g[t].pc, g[t].op, {}, g[t].best, g[t].outcome)
    <3>1. AreThreads(g)
      BY <2>3 DEF Edits
    <3> QED
      BY <3>1, EditLeft
  <2> HIDE DEF h
  <2>5. Edits(h, exec, t, "complete", exec[t].op, {}, exec[t].best, "failed")
    BY <2>2, <2>3, <2>4 DEF Edits
  <2>6. Edits(exec', exec, t, "complete", exec[t].op, {}, exec[t].best, "failed")
    BY <2>1, <2>5
  <2>7. Sensible("complete", exec[t].op, {}, exec[t].best, "failed")
    BY <1>1, <1>2 DEF Sensible, Rests, Terminal, Status
  <2>8. Goes(t, "complete", exec[t].op)
    BY <1>1, <2>6, <2>7, EditedTyped DEF Goes, Edits
  <2> QED
    BY <1>4, <2>8 DEF Proceeds, Works
<1> QED
  BY <1>3, <1>5, <1>6

-----------------------------------------------------------------------------
(* The steps keep the invariant *)

\* A thread at work on op goes on with it.  It may write the record of op, and
\* send its command on the way to the end.
LEMMA WorkGoesOn ==
    ASSUME AppleInv, NEW t \in Thread, exec[t].pc \in Works \ {"complete"},
           NEW op, op = exec[t].op, NEW pc \in Works \ {"enqueue"}, Goes(t, pc, op), HostsTyped',
           IsRecords(recent'), IsRecords(history'),
           \A o : o # op => Statuses(o)' \subseteq Statuses(o),
           sent' \in [AppleOp -> {0, 1}], \A o \in AppleOp : o # op => sent'[o] = sent[o],
           sent'[op] = sent[op] \/ pc = "complete",
           UNCHANGED << request, processVars, withdrawn >>
    PROVE  AppleInv'
<1>1. /\ op \in AppleOp /\ op # 0 /\ op \in Used /\ Holds(t, op) /\ ~Queued(op) /\ op \notin withdrawn
      /\ sent[op] = 0
  <2>1. op \in AppleOp /\ op # 0
    BY WorkingThread DEF AppleInv, AppleTypes
  <2>2. Holds(t, op)
    BY DEF Holds
  <2>3. op \in Used /\ ~Queued(op) /\ op \notin withdrawn
    BY <2>1, <2>2 DEF AppleInv, Safe, UnusedUnknown, OneHolder, WithdrawnRest
  <2>4. sent[op] # 1 /\ sent[op] \in {0, 1}
    BY <2>1, <2>2 DEF AppleInv, Safe, SentOnce, AppleTypes
  <2> QED
    BY <2>1, <2>2, <2>3, <2>4
<1>2. /\ request' = request /\ queue' = queue /\ runningOp' = runningOp /\ stopping' = stopping
      /\ lives' = lives /\ withdrawn' = withdrawn
  BY DEF processVars
<1>3. /\ ThreadsTyped' /\ exec'[t].pc = pc /\ exec'[t].op = op
      /\ \A u \in Thread : u # t => exec'[u] = exec[u]
  BY DEF Goes
<1>4. AppleTypes'
  BY <1>2, <1>3 DEF AppleInv, AppleTypes, RequestsTyped, Used
<1>5. /\ \A o : Queued(o)' <=> Queued(o)
      /\ \A u \in Thread : \A o : Holds(u, o)' <=> Holds(u, o)
      /\ Used' = Used
  BY <1>2, <1>3 DEF Queued, Holds, Used, Works
<1>6. OneHolder'
  BY <1>5 DEF AppleInv, Safe, OneHolder
<1>7. UnusedUnknown'
  <2> SUFFICES ASSUME NEW o \in AppleOp, o \notin Used
               PROVE  /\ ~Queued(o)' /\ \A u \in Thread : exec'[u].op # o
                      /\ Statuses(o)' = {} /\ sent'[o] = 0 /\ o \notin withdrawn'
    BY <1>5 DEF UnusedUnknown
  <2>1. o # op
    BY <1>1
  <2> QED
    BY <1>2, <1>3, <1>5, <2>1 DEF AppleInv, Safe, UnusedUnknown
<1>8. SentOnce'
  <2> SUFFICES ASSUME NEW o \in AppleOp, sent'[o] = 1
               PROVE  ~Queued(o)' /\ \A u \in Thread : Holds(u, o)' => exec'[u].pc = "complete"
    BY DEF SentOnce
  <2>1. CASE o = op
    BY <1>1, <1>3, <1>5, <2>1 DEF AppleInv, Safe, OneHolder
  <2>2. CASE o # op
    <3>1. sent[o] = 1
      BY <2>2
    <3>2. ~Holds(t, o)
      BY <2>2 DEF Holds
    <3> QED
      BY <1>3, <1>5, <3>1, <3>2 DEF AppleInv, Safe, SentOnce
  <2> QED
    BY <2>1, <2>2
<1>9. WithdrawnRest'
  <2> SUFFICES ASSUME NEW o \in withdrawn
               PROVE  /\ sent'[o] = 0 /\ ~Queued(o)' /\ \A u \in Thread : ~Holds(u, o)'
                      /\ Statuses(o)' \subseteq {"queued", "canceled", "blocked"}
    BY <1>2 DEF WithdrawnRest
  <2>1. o # op /\ o \in AppleOp
    BY <1>1 DEF AppleInv, AppleTypes
  <2> QED
    BY <1>5, <2>1 DEF AppleInv, Safe, WithdrawnRest
<1>10. NotBegun'
  <2> SUFFICES ASSUME NEW o \in AppleOp,
                      Queued(o)' \/ \E u \in Thread : Holds(u, o)' /\ exec'[u].pc = "enqueue"
               PROVE  Statuses(o)' \subseteq {"queued", "canceled"}
    BY DEF NotBegun
  <2>1. Queued(o) \/ \E u \in Thread : u # t /\ Holds(u, o) /\ exec[u].pc = "enqueue"
    BY <1>3, <1>5
  <2>2. o # op
    BY <1>1, <2>1 DEF AppleInv, Safe, OneHolder
  <2> QED
    BY <2>1, <2>2 DEF AppleInv, Safe, NotBegun
<1>11. Up
  BY DEF Up, Works
<1>12. Backed'
  <2> SUFFICES ASSUME NEW o \in AppleOp, Statuses(o)' \cap {"queued", "running"} # {}
               PROVE  Queued(o)' \/ \E u \in Thread : exec'[u].op = o
    BY DEF Backed
  <2>1. CASE o = op
    BY <1>3, <2>1
  <2>2. CASE o # op
    <3>1. Queued(o) \/ \E u \in Thread : exec[u].op = o
      BY <1>11, <2>2 DEF AppleInv, Safe, Backed
    <3> QED
      BY <1>3, <1>5, <2>2, <3>1
  <2> QED
    BY <2>1, <2>2
<1>13. Ending'
  <2>1. Up'
    BY <1>3 DEF Up, Works
  <2>2. stopping' => t \notin AppleCaller
    BY <1>2 DEF AppleInv, Safe, Ending, Works
  <2>3. stopping' => \A c \in AppleCaller : exec'[c].pc = "idle"
    BY <1>2, <1>3, <2>2, Threads DEF AppleInv, Safe, Ending
  <2>4. exec'["worker"].pc = "ended" => stopping' /\ queue' = << >>
    BY <1>2, <1>3, Threads DEF AppleInv, Safe, Ending, Works
  <2> QED
    BY <2>1, <2>3, <2>4 DEF Ending
<1> QED
  BY <1>4, <1>6, <1>7, <1>8, <1>9, <1>10, <1>12, <1>13 DEF AppleInv, Safe

\* A thread lets go of its operation, whose record says how it ended.
LEMMA WorkEnds ==
    ASSUME AppleInv, NEW t \in Thread, NEW op, op = exec[t].op, NEW status \in Terminal,
           exec[t].pc = "complete" \/ (exec[t].pc = "cancel" /\ status = "canceled"),
           NEW pc \in {"idle", "reset"}, pc = "idle" \/ t = "worker", Goes(t, pc, 0),
           Persist(op, status), UNCHANGED << hosts, request, processVars, sent, withdrawn >>
    PROVE  AppleInv'
<1>1. op \in AppleOp /\ op # 0 /\ op \in Used
  <2>1. op \in AppleOp /\ op # 0
    BY DEF AppleInv, AppleTypes, ThreadsTyped, AreThreads, IsThread, Sensible, Works, Rests
  <2> QED
    BY <2>1 DEF AppleInv, Safe, UnusedUnknown
<1>2. /\ request' = request /\ queue' = queue /\ runningOp' = runningOp /\ stopping' = stopping
      /\ lives' = lives /\ withdrawn' = withdrawn /\ sent' = sent /\ hosts' = hosts
  BY DEF processVars
<1>3. /\ ThreadsTyped' /\ exec'[t].pc = pc /\ exec'[t].op = 0
      /\ \A u \in Thread : u # t => exec'[u] = exec[u]
  BY DEF Goes
<1>4. /\ IsRecords(recent') /\ IsRecords(history') /\ Statuses(op)' = {status}
      /\ \A o : o # op => Statuses(o)' \subseteq Statuses(o)
  <2>1. status \in Status
    BY DEF Terminal
  <2> QED
    BY <1>1, <2>1, PersistProperties DEF AppleInv
<1>5. AppleTypes'
  BY <1>2, <1>3, <1>4 DEF AppleInv, AppleTypes, RequestsTyped, HostsTyped, Used
<1>6. /\ \A o : Queued(o)' <=> Queued(o)
      /\ \A u \in Thread : \A o : Holds(u, o)' <=> (Holds(u, o) /\ u # t)
      /\ Used' = Used
  BY <1>2, <1>3 DEF Queued, Holds, Used, Works
<1>7. OneHolder'
  BY <1>6 DEF AppleInv, Safe, OneHolder
<1>8. UnusedUnknown'
  <2> SUFFICES ASSUME NEW o \in AppleOp, o \notin Used
               PROVE  /\ ~Queued(o)' /\ \A u \in Thread : exec'[u].op # o
                      /\ Statuses(o)' = {} /\ sent'[o] = 0 /\ o \notin withdrawn'
    BY <1>6 DEF UnusedUnknown
  <2>1. o # op /\ o # 0
    BY <1>1, Numbers
  <2> QED
    BY <1>2, <1>3, <1>4, <1>6, <2>1 DEF AppleInv, Safe, UnusedUnknown
<1>9. SentOnce'
  BY <1>2, <1>3, <1>6 DEF AppleInv, Safe, SentOnce
<1>10. WithdrawnRest'
  <2> SUFFICES ASSUME NEW o \in withdrawn
               PROVE  /\ sent'[o] = 0 /\ ~Queued(o)' /\ \A u \in Thread : ~Holds(u, o)'
                      /\ Statuses(o)' \subseteq {"queued", "canceled", "blocked"}
    BY <1>2 DEF WithdrawnRest
  <2>1. o \in AppleOp
    BY DEF AppleInv, AppleTypes
  <2>2. CASE o = op
    <3>1. ~Holds(t, op)
      BY <2>2 DEF AppleInv, Safe, WithdrawnRest
    <3>2. status = "canceled"
      BY <3>1 DEF Holds, Works
    <3> QED
      BY <1>2, <1>4, <1>6, <2>2, <3>2 DEF AppleInv, Safe, WithdrawnRest
  <2>3. CASE o # op
    BY <1>2, <1>4, <1>6, <2>3 DEF AppleInv, Safe, WithdrawnRest
  <2> QED
    BY <2>2, <2>3
<1>11. NotBegun'
  <2> SUFFICES ASSUME NEW o \in AppleOp,
                      Queued(o)' \/ \E u \in Thread : Holds(u, o)' /\ exec'[u].pc = "enqueue"
               PROVE  Statuses(o)' \subseteq {"queued", "canceled"}
    BY DEF NotBegun
  <2>1. Queued(o) \/ \E u \in Thread : u # t /\ Holds(u, o) /\ exec[u].pc = "enqueue"
    BY <1>3, <1>6
  <2>2. CASE o = op
    <3>1. ~Holds(t, op)
      BY <2>1, <2>2 DEF AppleInv, Safe, OneHolder
    <3>2. status = "canceled"
      BY <3>1 DEF Holds, Works
    <3> QED
      BY <1>4, <2>2, <3>2
  <2>3. CASE o # op
    BY <1>4, <2>1, <2>3 DEF AppleInv, Safe, NotBegun
  <2> QED
    BY <2>2, <2>3
<1>12. Up
  BY DEF Up
<1>13. Backed'
  <2> SUFFICES ASSUME NEW o \in AppleOp, Statuses(o)' \cap {"queued", "running"} # {}
               PROVE  Queued(o)' \/ \E u \in Thread : exec'[u].op = o
    BY DEF Backed
  <2>1. o # op
    BY <1>4 DEF Terminal
  <2>2. Queued(o) \/ \E u \in Thread : exec[u].op = o
    BY <1>4, <1>12, <2>1 DEF AppleInv, Safe, Backed
  <2> QED
    BY <1>3, <1>6, <2>1, <2>2
<1>14. Ending'
  <2>1. Up'
    BY <1>3 DEF Up
  <2>2. stopping' => \A c \in AppleCaller : exec'[c].pc = "idle"
    BY <1>2, <1>3, Threads DEF AppleInv, Safe, Ending
  <2>3. exec'["worker"].pc = "ended" => stopping' /\ queue' = << >>
    BY <1>2, <1>3, Threads DEF AppleInv, Safe, Ending
  <2> QED
    BY <2>1, <2>2, <2>3 DEF Ending
<1> QED
  BY <1>5, <1>7, <1>8, <1>9, <1>10, <1>11, <1>13, <1>14 DEF AppleInv, Safe

LEMMA ToolStepKeeps ==
    ASSUME AppleInv, NEW t \in Thread, AppleStep(t)
    PROVE  AppleInv'
<1>1. AppleTypes /\ ThreadsTyped /\ HostsTyped
  BY DEF AppleInv, AppleTypes
<1>2. exec[t].pc \in Works => exec[t].op \in AppleOp /\ exec[t].op # 0 /\ exec[t].op \in Used
  <2>1. exec[t].pc \in Works => exec[t].op \in AppleOp /\ exec[t].op # 0
    BY <1>1, WorkingThread
  <2> QED
    BY <2>1 DEF AppleInv, Safe, UnusedUnknown
<1>3. CASE ChooseHost(t) \/ InspectHost(t) \/ DecideTool(t) \/ LookUpHost(t) \/ ProbeHost(t)
  <2>1. exec[t].pc \in Works \ {"complete"}
    BY <1>3 DEF ChooseHost, InspectHost, DecideTool, LookUpHost, ProbeHost, Stands, Works
  <2>2. Proceeds(t)
    BY <1>1, <1>2, <1>3, <2>1, ChooseHostProceeds, InspectHostProceeds, DecideToolProceeds,
       LookUpHostProceeds, ProbeHostProceeds
  <2>3. UNCHANGED << request, recent, history, processVars, sent, withdrawn >>
    BY <1>3 DEF ChooseHost, InspectHost, DecideTool, LookUpHost, ProbeHost, Silent
  <2>4. PICK pc \in Works \ {"enqueue"} : Goes(t, pc, exec[t].op)
    BY <2>2 DEF Proceeds
  <2>5. /\ HostsTyped' /\ IsRecords(recent') /\ IsRecords(history') /\ sent' = sent
        /\ sent \in [AppleOp -> {0, 1}] /\ \A o : Statuses(o)' = Statuses(o)
    BY <1>1, <2>2, <2>3 DEF Proceeds, AppleTypes, Statuses
  <2> QED
    BY <2>1, <2>3, <2>4, <2>5, WorkGoesOn
<1>4. CASE RouteTool(t)
  <2>1. exec[t].pc = "route" /\ exec[t].pc \in Works \ {"complete"}
    BY <1>4 DEF RouteTool, Stands, Works
  <2>2. /\ hosts' = hosts /\ sent' = sent /\ UNCHANGED << request, processVars, withdrawn >>
        /\ HostsTyped' /\ sent \in [AppleOp -> {0, 1}]
    BY <1>1, <1>4 DEF RouteTool, hostVars, HostsTyped, AppleTypes
  <2>3. CASE LaneAt(t) \notin exec[t].best.lanes
    <3>1. exec' = Outcome(t, "blocked") /\ recent' = recent /\ history' = history
      BY <1>4, <2>3 DEF RouteTool
    <3>2. Goes(t, "complete", exec[t].op)
      BY <1>1, <1>2, <2>1, <3>1, Ended DEF Terminal, Status
    <3>3. IsRecords(recent') /\ IsRecords(history') /\ \A o : Statuses(o)' = Statuses(o)
      BY <1>1, <3>1 DEF AppleTypes, Statuses
    <3> QED
      BY <2>1, <2>2, <3>2, <3>3, WorkGoesOn DEF Works
  <2>4. CASE LaneAt(t) \in exec[t].best.lanes
    <3>1. exec' = [exec EXCEPT ![t].pc = "decide"] /\ Persist(exec[t].op, "running")
      BY <1>4, <2>4 DEF RouteTool
    <3>2. Sensible("decide", exec[t].op, exec[t].left, exec[t].best, exec[t].outcome)
      BY <1>1, <1>2, <2>1, <2>4 DEF ThreadsTyped, Sensible, Rests, Absent
    <3>3. Goes(t, "decide", exec[t].op)
      BY <1>1, <3>1, <3>2, Moves DEF Pcs, Works
    <3>4. /\ IsRecords(recent') /\ IsRecords(history')
          /\ \A o : o # exec[t].op => Statuses(o)' \subseteq Statuses(o)
      BY <1>1, <1>2, <2>1, <3>1, PersistProperties DEF Status
    <3> QED
      BY <2>1, <2>2, <3>3, <3>4, WorkGoesOn DEF Works
  <2> QED
    BY <2>3, <2>4
<1>5. CASE SendCommand(t)
  <2>1. exec[t].pc = "send" /\ exec[t].pc \in Works \ {"complete"}
    BY <1>5 DEF SendCommand, Stands, Works
  <2>2. /\ UNCHANGED << request, processVars, withdrawn >>
        /\ HostsTyped' /\ IsRecords(recent') /\ IsRecords(history') /\ \A o : Statuses(o)' = Statuses(o)
    BY <1>1, <1>5 DEF SendCommand, hostVars, HostsTyped, AppleTypes, Statuses
  <2>3. PICK status \in {"succeeded", "failed"} : exec' = Outcome(t, status)
    BY <1>5 DEF SendCommand
  <2>4. Goes(t, "complete", exec[t].op)
    BY <1>1, <1>2, <2>1, <2>3, Ended DEF Terminal, Status
  <2>5. sent \in [AppleOp -> {0, 1}] /\ sent[exec[t].op] = 0
    <3>1. sent \in [AppleOp -> {0, 1}]
      BY <1>1 DEF AppleTypes
    <3>2. sent[exec[t].op] # 1
      BY <1>2, <2>1 DEF AppleInv, Safe, SentOnce, Holds
    <3> QED
      BY <1>2, <2>1, <3>1, <3>2
  <2>6. sent' = [sent EXCEPT ![exec[t].op] = 1]
    <3>1. sent' = [sent EXCEPT ![exec[t].op] = sent[exec[t].op] + 1]
      BY <1>5 DEF SendCommand
    <3>2. sent[exec[t].op] + 1 = 1
      BY <2>5
    <3> QED
      BY <3>1, <3>2
  <2>7. /\ sent' \in [AppleOp -> {0, 1}]
        /\ \A o \in AppleOp : o # exec[t].op => sent'[o] = sent[o]
    BY <2>5, <2>6
  <2> QED
    BY <2>1, <2>2, <2>4, <2>7, WorkGoesOn DEF Works
<1>6. CASE completeAppleOperation(t)
  <2>1. /\ exec[t].pc = "complete" /\ Persist(exec[t].op, exec[t].outcome) /\ Freed(t)
        /\ UNCHANGED << hosts, request, processVars, sent, withdrawn >>
    BY <1>6 DEF completeAppleOperation, Stands, Unchanged
  <2>2. exec[t].outcome \in Terminal
    BY <1>1, <2>1 DEF ThreadsTyped, Sensible
  <2>3. FreeThread = [FreeThread EXCEPT !.pc = "idle"]
    BY DEF FreeThread
  <2>4. PICK pc \in {"idle", "reset"} :
           (pc = "idle" \/ t = "worker") /\ exec' = [exec EXCEPT ![t] = [FreeThread EXCEPT !.pc = pc]]
    BY <2>1, <2>3 DEF Freed
  <2>5. Goes(t, pc, 0)
    BY <1>1, <2>4, Released
  <2> QED
    BY <2>1, <2>2, <2>4, <2>5, WorkEnds
<1> QED
  BY <1>3, <1>4, <1>5, <1>6 DEF AppleStep

LEMMA SharedTyped == \A r \in SharedRequests : IsRequest(r)
  BY AppleAssumption, Zenon DEF IsRequest, HostKey

LEMMA StartableTyped == \A r \in Startable : IsRequest(r) /\ r # NoRequest
<1>1. ASSUME NEW r \in LoneRequests PROVE IsRequest(r)
  <2>1. PICK tool \in RemoteTools : r \in {[tool |-> tool, keys |-> keys, preferred |-> ""] : keys \in Requests(tool)}
    BY DEF LoneRequests
  <2>2. PICK keys \in Requests(tool) : r = [tool |-> tool, keys |-> keys, preferred |-> ""]
    BY <2>1
  <2>3. r.tool = tool /\ r.keys = keys /\ r.preferred = ""
    BY <2>2
  <2> QED
    BY <2>3 DEF IsRequest, HostKey
<1>2. \A r \in Startable : r \in LoneRequests \/ r \in SharedRequests
  BY DEF Startable
<1>3. NoRequest.tool \notin RemoteTools
  BY DEF NoRequest, RemoteTools, isQueuedAppleOperationalTool, isAppleReplayValidationTool, InspectionTools,
         BuildTools
<1> QED
  BY <1>1, <1>2, <1>3, SharedTyped DEF IsRequest

LEMMA ExecuteKeeps ==
    ASSUME AppleInv, NEW c \in AppleCaller, NEW op \in AppleOp, NEW r \in Startable, Execute(c, op, r)
    PROVE  AppleInv'
<1> DEFINE pc == IF r.tool \in isQueuedAppleOperationalTool THEN "enqueue" ELSE "choose"
<1>1. /\ c \in Thread /\ exec[c].pc = "idle" /\ op \notin Used /\ op # 0 /\ ~stopping
      /\ Persist(op, "queued") /\ request' = [request EXCEPT ![op] = r]
      /\ queue' = queue /\ runningOp' = runningOp /\ stopping' = stopping
      /\ lives' = lives /\ withdrawn' = withdrawn /\ sent' = sent /\ hosts' = hosts
  BY Threads, Numbers DEF Execute, Stands, Unchanged, processVars
<1>2. exec' = [exec EXCEPT ![c].op = op, ![c].pc = pc]
  BY DEF Execute
<1>3. pc \in {"enqueue", "choose"}
  OBVIOUS
<1> HIDE DEF pc
<1>4. /\ ThreadsTyped' /\ exec'[c].pc = pc /\ exec'[c].op = op
      /\ \A u \in Thread : u # c => exec'[u] = exec[u]
  BY <1>1, <1>2, <1>3, Assigned DEF Goes, AppleInv, AppleTypes
<1>5. /\ IsRecords(recent') /\ IsRecords(history') /\ Statuses(op)' = {"queued"}
      /\ \A o : o # op => Statuses(o)' \subseteq Statuses(o)
  BY <1>1, PersistProperties DEF AppleInv, Status
<1>6. Used' = Used \cup {op} /\ RequestsTyped'
  <2>1. /\ request = [o \in AppleOp |-> request[o]] /\ IsRequest(r) /\ r # NoRequest
        /\ \A o \in Used : IsRequest(request[o])
    BY StartableTyped DEF AppleInv, AppleTypes, RequestsTyped
  <2>2. /\ request' = [o \in AppleOp |-> request'[o]] /\ request'[op] = r
        /\ \A o \in AppleOp : o # op => request'[o] = request[o]
    BY <1>1, <2>1
  <2>3. Used' = Used \cup {op}
    BY <2>1, <2>2 DEF Used
  <2>4. \A o \in Used' : IsRequest(request'[o])
    BY <2>1, <2>2, <2>3 DEF Used
  <2> QED
    BY <2>2, <2>3, <2>4 DEF RequestsTyped
<1>7. AppleTypes'
  BY <1>1, <1>4, <1>5, <1>6 DEF AppleInv, AppleTypes, HostsTyped
<1>8. /\ ~Queued(op) /\ (\A t \in Thread : exec[t].op # op) /\ sent[op] = 0 /\ op \notin withdrawn
  BY <1>1 DEF AppleInv, Safe, UnusedUnknown
<1>9. /\ \A o : Queued(o)' <=> Queued(o)
      /\ \A u \in Thread : \A o : Holds(u, o)' <=> (IF u = c THEN o = op ELSE Holds(u, o))
      /\ \A o : ~Holds(c, o)
  BY <1>1, <1>3, <1>4 DEF Queued, Holds, Works
<1>10. OneHolder'
  <2>1. \A t \in Thread : ~Holds(t, op)
    BY <1>8 DEF Holds
  <2>2. \A o \in AppleOp, t, u \in Thread : Holds(t, o)' /\ Holds(u, o)' => t = u
    BY <1>9, <2>1 DEF AppleInv, Safe, OneHolder
  <2>3. \A o \in AppleOp, t \in Thread : Queued(o)' => ~Holds(t, o)'
    BY <1>8, <1>9 DEF AppleInv, Safe, OneHolder
  <2> QED
    BY <2>2, <2>3 DEF OneHolder
<1>11. UnusedUnknown'
  <2> SUFFICES ASSUME NEW o \in AppleOp, o \notin Used, o # op
               PROVE  /\ ~Queued(o)' /\ \A u \in Thread : exec'[u].op # o
                      /\ Statuses(o)' = {} /\ sent'[o] = 0 /\ o \notin withdrawn'
    BY <1>6 DEF UnusedUnknown
  <2> QED
    BY <1>1, <1>4, <1>5, <1>9 DEF AppleInv, Safe, UnusedUnknown
<1>12. SentOnce'
  <2> SUFFICES ASSUME NEW o \in AppleOp, sent'[o] = 1
               PROVE  ~Queued(o)' /\ \A u \in Thread : Holds(u, o)' => exec'[u].pc = "complete"
    BY DEF SentOnce
  <2>1. sent[o] = 1 /\ o # op
    BY <1>1, <1>8
  <2> QED
    BY <1>4, <1>9, <2>1 DEF AppleInv, Safe, SentOnce
<1>13. WithdrawnRest'
  BY <1>1, <1>5, <1>8, <1>9 DEF AppleInv, Safe, WithdrawnRest
<1>14. NotBegun'
  <2> SUFFICES ASSUME NEW o \in AppleOp,
                      Queued(o)' \/ \E u \in Thread : Holds(u, o)' /\ exec'[u].pc = "enqueue"
               PROVE  Statuses(o)' \subseteq {"queued", "canceled"}
    BY DEF NotBegun
  <2>1. CASE o = op
    BY <1>5, <2>1
  <2>2. CASE o # op
    <3>1. Queued(o) \/ \E u \in Thread : Holds(u, o) /\ exec[u].pc = "enqueue"
      BY <1>4, <1>9, <2>2
    <3> QED
      BY <1>5, <2>2, <3>1 DEF AppleInv, Safe, NotBegun
  <2> QED
    BY <2>1, <2>2
<1>15. Backed'
  <2> SUFFICES ASSUME NEW o \in AppleOp, Statuses(o)' \cap {"queued", "running"} # {}
               PROVE  Queued(o)' \/ \E u \in Thread : exec'[u].op = o
    BY DEF Backed
  <2>1. CASE o = op
    BY <1>1, <1>4, <2>1
  <2>2. CASE o # op
    <3>1. Up
      BY <1>1 DEF Up
    <3>2. Queued(o) \/ \E u \in Thread : exec[u].op = o
      BY <1>5, <2>2, <3>1 DEF AppleInv, Safe, Backed
    <3>3. exec[c].op = 0
      BY <1>1 DEF AppleInv, AppleTypes, ThreadsTyped, Sensible, Rests
    <3>4. o # 0
      BY Numbers
    <3> QED
      BY <1>4, <1>9, <3>2, <3>3, <3>4
  <2> QED
    BY <2>1, <2>2
<1>16. Ending'
  <2>1. Up'
    BY <1>1, <1>3, <1>4 DEF Up
  <2>2. exec'["worker"] = exec["worker"]
    BY <1>4, Threads
  <2> QED
    BY <1>1, <2>1, <2>2 DEF AppleInv, Safe, Ending
<1> QED
  BY <1>7, <1>10, <1>11, <1>12, <1>13, <1>14, <1>15, <1>16 DEF AppleInv, Safe

\* The steps that move an operation between a thread and the queue: what they
\* leave alone, and what remains to be shown.
QueueStepFrame ==
    UNCHANGED << hosts, request, recent, history, stopping, lives, sent >>

LEMMA FrameKept ==
    ASSUME AppleInv, QueueStepFrame, ThreadsTyped', queue' \in Seq(AppleOp), OnceEach(queue'),
           runningOp' \in AppleOp \cup {0}, withdrawn' \subseteq AppleOp
    PROVE  AppleTypes' /\ Used' = Used /\ \A o : Statuses(o)' = Statuses(o)
  BY DEF AppleInv, AppleTypes, QueueStepFrame, HostsTyped, RequestsTyped, Used, Statuses

LEMMA EnqueueKeeps ==
    ASSUME AppleInv, NEW c \in AppleCaller, Enqueue(c)
    PROVE  AppleInv'
<1> DEFINE op == exec[c].op
<1>1. /\ c \in Thread /\ exec[c].pc = "enqueue" /\ queue' = Append(queue, op) /\ runningOp' = runningOp
      /\ withdrawn' = withdrawn /\ stopping' = stopping /\ sent' = sent /\ QueueStepFrame
  BY Threads DEF Enqueue, Stands, hostVars, QueueStepFrame
<1>2. op \in AppleOp /\ op # 0 /\ Holds(c, op)
  BY <1>1, WorkingThread DEF AppleInv, AppleTypes, Holds, Works
<1>3. /\ ThreadsTyped' /\ exec'[c].pc = "idle" /\ exec'[c].op = 0
      /\ \A u \in Thread : u # c => exec'[u] = exec[u]
  <2>1. exec' = [exec EXCEPT ![c] = [FreeThread EXCEPT !.pc = "idle"]]
    BY DEF Enqueue, FreeThread
  <2> QED
    BY <1>1, <2>1, Released DEF Goes, AppleInv, AppleTypes
<1>4. ~Queued(op) /\ (\A u \in Thread : u # c => ~Holds(u, op)) /\ op \in Used /\ op \notin withdrawn /\ sent[op] # 1
  BY <1>1, <1>2 DEF AppleInv, Safe, OneHolder, UnusedUnknown, WithdrawnRest, SentOnce
<1> HIDE DEF op
<1>5. /\ queue' \in Seq(AppleOp) /\ OnceEach(queue') /\ \A o : Queued(o)' <=> (o = op \/ Queued(o))
  BY <1>1, <1>2, <1>4, QueueAppend DEF AppleInv, AppleTypes, Queued
<1>6. AppleTypes' /\ Used' = Used /\ \A o : Statuses(o)' = Statuses(o)
  BY <1>1, <1>3, <1>5, FrameKept DEF AppleInv, AppleTypes
<1>7. \A u \in Thread : \A o : Holds(u, o)' <=> (Holds(u, o) /\ u # c)
  BY <1>3 DEF Holds, Works
<1>8. OneHolder'
  <2>1. \A o \in AppleOp, t, u \in Thread : Holds(t, o)' /\ Holds(u, o)' => t = u
    BY <1>7 DEF AppleInv, Safe, OneHolder
  <2>2. ASSUME NEW o \in AppleOp, NEW u \in Thread, Queued(o)', Holds(u, o)' PROVE FALSE
    <3>1. Holds(u, o) /\ u # c
      BY <1>7, <2>2
    <3>2. o # op /\ Queued(o)
      BY <1>4, <1>5, <2>2, <3>1
    <3> QED
      BY <3>1, <3>2 DEF AppleInv, Safe, OneHolder
  <2> QED
    BY <2>1, <2>2 DEF OneHolder
<1>9. UnusedUnknown'
  <2> SUFFICES ASSUME NEW o \in AppleOp, o \notin Used
               PROVE  /\ ~Queued(o)' /\ \A u \in Thread : exec'[u].op # o
                      /\ Statuses(o)' = {} /\ sent'[o] = 0 /\ o \notin withdrawn'
    BY <1>6 DEF UnusedUnknown
  <2>1. o # op /\ o # 0
    BY <1>4, Numbers
  <2> QED
    BY <1>1, <1>3, <1>5, <1>6, <2>1 DEF AppleInv, Safe, UnusedUnknown
<1>10. SentOnce'
  BY <1>1, <1>3, <1>4, <1>5, <1>7 DEF AppleInv, Safe, SentOnce
<1>11. WithdrawnRest'
  BY <1>1, <1>4, <1>5, <1>6, <1>7 DEF AppleInv, Safe, WithdrawnRest
<1>12. NotBegun'
  <2>1. Statuses(op) \subseteq {"queued", "canceled"}
    BY <1>1, <1>2 DEF AppleInv, Safe, NotBegun
  <2> QED
    BY <1>3, <1>5, <1>6, <1>7, <2>1 DEF AppleInv, Safe, NotBegun
<1>13. Backed'
  <2>1. Up
    BY <1>1 DEF Up
  <2>2. \A o \in AppleOp, u \in Thread : exec[u].op = o => (o = op \/ exec'[u].op = o)
    BY <1>3 DEF op
  <2> QED
    BY <1>5, <1>6, <2>1, <2>2 DEF AppleInv, Safe, Backed
<1>14. Ending'
  <2>1. Up'
    BY <1>1, <1>3 DEF Up
  <2>2. ~stopping
    BY <1>1 DEF AppleInv, Safe, Ending
  <2>3. exec["worker"].pc # "ended"
    BY <2>2 DEF AppleInv, Safe, Ending
  <2> QED
    BY <1>1, <1>3, <2>1, <2>2, <2>3, Threads DEF Ending
<1> QED
  BY <1>6, <1>8, <1>9, <1>10, <1>11, <1>12, <1>13, <1>14 DEF AppleInv, Safe

\* A cancellation takes op for a caller's own; only what is in the queue it
\* withdraws.
LEMMA CancelKeeps ==
    ASSUME AppleInv, NEW c \in AppleCaller, NEW op \in AppleOp, ~stopping,
           CancelQueued(c, op) \/ CancelLate(c, op)
    PROVE  AppleInv'
<1>1. /\ c \in Thread /\ exec[c].pc = "idle" /\ op \in Used /\ runningOp' = runningOp
      /\ exec' = [exec EXCEPT ![c].op = op, ![c].pc = "cancel"]
      /\ stopping' = stopping /\ sent' = sent /\ QueueStepFrame
  BY Threads DEF CancelQueued, CancelLate, Stands, hostVars, processVars, QueueStepFrame
<1>2. /\ ThreadsTyped' /\ exec'[c].pc = "cancel" /\ exec'[c].op = op
      /\ \A u \in Thread : u # c => exec'[u] = exec[u]
  BY <1>1, Assigned DEF Goes, AppleInv, AppleTypes
<1>3. /\ queue' \in Seq(AppleOp) /\ OnceEach(queue') /\ withdrawn' \subseteq AppleOp
      /\ \A o : Queued(o)' => Queued(o)
      /\ \A o : Queued(o) => Queued(o)' \/ o = op
      /\ \/ withdrawn' = withdrawn
         \/ withdrawn' = withdrawn \cup {op} /\ Queued(op) /\ ~Queued(op)'
  <2>1. CASE CancelQueued(c, op)
    <3>1. /\ queue' = RemoveAt(queue, CHOOSE i \in DOMAIN queue : queue[i] = op) /\ op \in Range(queue)
          /\ withdrawn' = withdrawn \cup {op}
      BY <2>1 DEF CancelQueued
    <3>2. Queued(op)
      BY <3>1 DEF Range, Queued, In
    <3>3. /\ queue' \in Seq(AppleOp) /\ OnceEach(queue') /\ \A o : In(queue', o) <=> (o # op /\ In(queue, o))
      BY <3>1, <3>2, QueueRemove DEF AppleInv, AppleTypes, Queued
    <3> QED
      BY <3>1, <3>2, <3>3 DEF AppleInv, AppleTypes, Queued
  <2>2. CASE CancelLate(c, op)
    <3>1. queue' = queue /\ withdrawn' = withdrawn
      BY <2>2 DEF CancelLate, processVars
    <3> QED
      BY <3>1 DEF AppleInv, AppleTypes, Queued
  <2> QED
    BY <2>1, <2>2
<1>4. AppleTypes' /\ Used' = Used /\ \A o : Statuses(o)' = Statuses(o)
  BY <1>1, <1>2, <1>3, FrameKept DEF AppleInv, AppleTypes
<1>5. \A u \in Thread : \A o : Holds(u, o)' <=> Holds(u, o)
  BY <1>1, <1>2 DEF Holds, Works
<1>6. \A u \in Thread : \A o : exec[u].op = o /\ o \in AppleOp => exec'[u].op = o
  <2>1. exec[c].op = 0
    BY <1>1 DEF AppleInv, AppleTypes, ThreadsTyped, Sensible, Rests
  <2> QED
    BY <1>2, <2>1, Numbers
<1>7. OneHolder'
  BY <1>3, <1>5 DEF AppleInv, Safe, OneHolder
<1>8. UnusedUnknown'
  <2> SUFFICES ASSUME NEW o \in AppleOp, o \notin Used
               PROVE  /\ ~Queued(o)' /\ \A u \in Thread : exec'[u].op # o
                      /\ Statuses(o)' = {} /\ sent'[o] = 0 /\ o \notin withdrawn'
    BY <1>4 DEF UnusedUnknown
  <2>1. o # op
    BY <1>1
  <2> QED
    BY <1>1, <1>2, <1>3, <1>4, <2>1 DEF AppleInv, Safe, UnusedUnknown
<1>9. SentOnce'
  <2> SUFFICES ASSUME NEW o \in AppleOp, sent'[o] = 1
               PROVE  ~Queued(o)' /\ \A u \in Thread : Holds(u, o)' => exec'[u].pc = "complete"
    BY DEF SentOnce
  <2>1. sent[o] = 1 /\ ~Holds(c, o)
    BY <1>1 DEF Holds, Works
  <2> QED
    BY <1>2, <1>3, <1>5, <2>1 DEF AppleInv, Safe, SentOnce
<1>10. WithdrawnRest'
  <2> SUFFICES ASSUME NEW o \in withdrawn'
               PROVE  /\ sent'[o] = 0 /\ ~Queued(o)' /\ \A u \in Thread : ~Holds(u, o)'
                      /\ Statuses(o)' \subseteq {"queued", "canceled", "blocked"}
    BY DEF WithdrawnRest
  <2>1. CASE o \in withdrawn
    BY <1>1, <1>3, <1>4, <1>5, <2>1 DEF AppleInv, Safe, WithdrawnRest
  <2>2. CASE o \notin withdrawn
    <3>1. o = op /\ Queued(op) /\ ~Queued(op)'
      BY <1>3, <2>2
    <3>2. sent[op] = 0
      BY <3>1 DEF AppleInv, Safe, SentOnce, AppleTypes
    <3>3. Statuses(op) \subseteq {"queued", "canceled"} /\ \A u \in Thread : ~Holds(u, op)
      BY <3>1 DEF AppleInv, Safe, NotBegun, OneHolder
    <3> QED
      BY <1>1, <1>4, <1>5, <3>1, <3>2, <3>3
  <2> QED
    BY <2>1, <2>2
<1>11. NotBegun'
  <2>1. \A u \in Thread : \A o : Holds(u, o)' /\ exec'[u].pc = "enqueue" => Holds(u, o) /\ exec[u].pc = "enqueue"
    BY <1>2, <1>5
  <2> QED
    BY <1>3, <1>4, <2>1 DEF AppleInv, Safe, NotBegun
<1>12. Backed'
  <2>1. Up
    BY <1>1 DEF Up
  <2>2. \A o \in AppleOp : Queued(o) \/ (\E u \in Thread : exec[u].op = o)
                             => Queued(o)' \/ \E u \in Thread : exec'[u].op = o
    BY <1>1, <1>2, <1>3, <1>6
  <2> QED
    BY <1>4, <2>1, <2>2 DEF AppleInv, Safe, Backed
<1>13. Ending'
  <2>1. Up'
    BY <1>1, <1>2 DEF Up
  <2>2. exec["worker"].pc # "ended"
    BY DEF AppleInv, Safe, Ending
  <2> QED
    BY <1>1, <1>2, <2>1, <2>2, Threads DEF Ending
<1> QED
  BY <1>4, <1>7, <1>8, <1>9, <1>10, <1>11, <1>12, <1>13 DEF AppleInv, Safe

\* The worker takes the operation at the head of the queue for its own.
LEMMA TakeKeeps ==
    ASSUME AppleInv, Take
    PROVE  AppleInv'
<1> DEFINE op == Head(queue)
<1>1. /\ exec["worker"].pc = "idle" /\ queue # << >> /\ queue' = Tail(queue) /\ runningOp' = op
      /\ exec' = [exec EXCEPT !["worker"].op = op, !["worker"].pc = "choose"]
      /\ withdrawn' = withdrawn /\ stopping' = stopping /\ sent' = sent /\ QueueStepFrame
  BY DEF Take, Stands, hostVars, QueueStepFrame
<1>2. /\ op \in AppleOp /\ Queued(op) /\ queue' \in Seq(AppleOp) /\ OnceEach(queue')
      /\ \A o : Queued(o)' <=> (o # op /\ Queued(o))
  BY <1>1, QueueTail DEF AppleInv, AppleTypes, Queued
<1> HIDE DEF op
<1>3. /\ ThreadsTyped' /\ exec'["worker"].pc = "choose" /\ exec'["worker"].op = op
      /\ \A u \in Thread : u # "worker" => exec'[u] = exec[u]
  BY <1>1, <1>2, Threads, Assigned DEF Goes, AppleInv, AppleTypes
<1>4. AppleTypes' /\ Used' = Used /\ \A o : Statuses(o)' = Statuses(o)
  BY <1>1, <1>2, <1>3, FrameKept DEF AppleInv, AppleTypes
<1>5. \A u \in Thread : \A o : Holds(u, o)' <=> (IF u = "worker" THEN o = op ELSE Holds(u, o))
  BY <1>3 DEF Holds, Works
<1>6. /\ op \in Used /\ op \notin withdrawn /\ sent[op] # 1 /\ \A u \in Thread : ~Holds(u, op)
  BY <1>2 DEF AppleInv, Safe, OneHolder, UnusedUnknown, WithdrawnRest, SentOnce
<1>7. exec["worker"].op = 0 /\ \A o : ~Holds("worker", o)
  BY <1>1, Threads DEF AppleInv, AppleTypes, ThreadsTyped, Sensible, Holds, Rests, Works
<1>8. OneHolder'
  <2>1. \A o \in AppleOp, t, u \in Thread : Holds(t, o)' /\ Holds(u, o)' => t = u
    BY <1>5, <1>6 DEF AppleInv, Safe, OneHolder
  <2>2. \A o \in AppleOp, u \in Thread : Queued(o)' => ~Holds(u, o)'
    BY <1>2, <1>5 DEF AppleInv, Safe, OneHolder
  <2> QED
    BY <2>1, <2>2 DEF OneHolder
<1>9. UnusedUnknown'
  <2> SUFFICES ASSUME NEW o \in AppleOp, o \notin Used
               PROVE  /\ ~Queued(o)' /\ \A u \in Thread : exec'[u].op # o
                      /\ Statuses(o)' = {} /\ sent'[o] = 0 /\ o \notin withdrawn'
    BY <1>4 DEF UnusedUnknown
  <2>1. o # op
    BY <1>6
  <2> QED
    BY <1>1, <1>2, <1>3, <1>4, <2>1 DEF AppleInv, Safe, UnusedUnknown
<1>10. SentOnce'
  <2> SUFFICES ASSUME NEW o \in AppleOp, sent[o] = 1
               PROVE  ~Queued(o)' /\ \A u \in Thread : Holds(u, o)' => exec'[u].pc = "complete"
    BY <1>1 DEF SentOnce
  <2>1. o # op /\ ~Queued(o) /\ \A u \in Thread : Holds(u, o) => exec[u].pc = "complete"
    BY <1>6 DEF AppleInv, Safe, SentOnce
  <2> QED
    BY <1>2, <1>3, <1>5, <2>1
<1>11. WithdrawnRest'
  <2> SUFFICES ASSUME NEW o \in withdrawn
               PROVE  /\ sent'[o] = 0 /\ ~Queued(o)' /\ \A u \in Thread : ~Holds(u, o)'
                      /\ Statuses(o)' \subseteq {"queued", "canceled", "blocked"}
    BY <1>1 DEF WithdrawnRest
  <2> QED
    BY <1>1, <1>2, <1>4, <1>5, <1>6 DEF AppleInv, Safe, WithdrawnRest
<1>12. NotBegun'
  <2>1. ASSUME NEW u \in Thread, NEW o, Holds(u, o)', exec'[u].pc = "enqueue"
        PROVE  Holds(u, o) /\ exec[u].pc = "enqueue"
    BY <1>3, <1>5, <2>1
  <2> QED
    BY <1>2, <1>4, <2>1 DEF AppleInv, Safe, NotBegun
<1>13. Backed'
  <2>1. Up
    BY <1>1, Threads DEF Up
  <2>2. ASSUME NEW o \in AppleOp, Queued(o) \/ \E u \in Thread : exec[u].op = o
        PROVE  Queued(o)' \/ \E u \in Thread : exec'[u].op = o
    BY <1>2, <1>3, <1>7, <2>2, Numbers, Threads
  <2> QED
    BY <1>4, <2>1, <2>2 DEF AppleInv, Safe, Backed
<1>14. Ending'
  <2>1. Up'
    BY <1>3, Threads DEF Up
  <2> QED
    BY <1>1, <1>3, <2>1, Threads DEF AppleInv, Safe, Ending
<1> QED
  BY <1>4, <1>8, <1>9, <1>10, <1>11, <1>12, <1>13, <1>14 DEF AppleInv, Safe

\* A record of the cancellation ends what the caller held of the operation.
LEMMA CanceledKeeps ==
    ASSUME AppleInv, NEW c \in AppleCaller, markAppleOperationCanceled(c)
    PROVE  AppleInv'
<1>1. /\ c \in Thread /\ exec[c].pc = "cancel" /\ Persist(exec[c].op, "canceled")
      /\ UNCHANGED << hosts, request, processVars, sent, withdrawn >>
      /\ exec' = [exec EXCEPT ![c] = [FreeThread EXCEPT !.pc = "idle"]]
  BY Threads DEF markAppleOperationCanceled, Stands, Unchanged, FreeThread
<1>2. Goes(c, "idle", 0)
  BY <1>1, Released DEF AppleInv, AppleTypes
<1> QED
  BY <1>1, <1>2, WorkEnds DEF Terminal, Status

\* The steps at which a thread without an operation goes on without one, and
\* nothing is written but hosts and the operation that is shown as running.
RestFrame ==
    /\ UNCHANGED << request, recent, history, queue, lives, sent, withdrawn >>
    /\ HostsTyped' /\ runningOp' \in AppleOp \cup {0} /\ stopping' \in BOOLEAN

LEMMA RestKeeps ==
    ASSUME AppleInv, RestFrame, ThreadsTyped', Ending',
           \A t \in Thread :
              exec'[t] = exec[t] \/ (exec[t].pc \in Rests /\ exec'[t].pc \in Rests),
           Up' => Up
    PROVE  AppleInv'
<1>1. /\ request' = request /\ recent' = recent /\ history' = history /\ queue' = queue
      /\ lives' = lives /\ sent' = sent /\ withdrawn' = withdrawn
  BY DEF RestFrame
<1>2. AppleTypes'
  BY <1>1 DEF AppleInv, AppleTypes, RestFrame, RequestsTyped, Used
<1>3. Used' = Used /\ (\A o : Statuses(o)' = Statuses(o)) /\ \A o : Queued(o)' <=> Queued(o)
  BY <1>1 DEF Used, Statuses, Queued
<1>4. \A t \in Thread : exec'[t].op = exec[t].op
  <2> SUFFICES ASSUME NEW t \in Thread, exec[t].pc \in Rests, exec'[t].pc \in Rests
               PROVE  exec'[t].op = exec[t].op
    OBVIOUS
  <2>1. exec[t].op = 0
    BY DEF AppleInv, AppleTypes, ThreadsTyped, Sensible
  <2>2. exec'[t].op = 0
    BY DEF ThreadsTyped, Sensible
  <2> QED
    BY <2>1, <2>2
<1>5. \A t \in Thread : \A o : Holds(t, o)' => Holds(t, o) /\ exec'[t] = exec[t]
  BY DEF Holds, Works, Rests
<1>6. OneHolder'
  BY <1>3, <1>5 DEF AppleInv, Safe, OneHolder
<1>7. UnusedUnknown'
  BY <1>1, <1>3, <1>4 DEF AppleInv, Safe, UnusedUnknown
<1>8. SentOnce'
  BY <1>1, <1>3, <1>5 DEF AppleInv, Safe, SentOnce
<1>9. WithdrawnRest'
  BY <1>1, <1>3, <1>5 DEF AppleInv, Safe, WithdrawnRest
<1>10. NotBegun'
  <2>1. \A o \in AppleOp :
           (Queued(o)' \/ \E t \in Thread : Holds(t, o)' /\ exec'[t].pc = "enqueue")
              => Queued(o) \/ \E t \in Thread : Holds(t, o) /\ exec[t].pc = "enqueue"
    BY <1>3, <1>5
  <2> QED
    BY <1>3, <2>1 DEF AppleInv, Safe, NotBegun
<1>11. Backed'
  BY <1>3, <1>4 DEF AppleInv, Safe, Backed
<1> QED
  BY <1>2, <1>6, <1>7, <1>8, <1>9, <1>10, <1>11 DEF AppleInv, Safe

LEMMA WorkerEndsKeeps ==
    ASSUME AppleInv, WorkerEnds
    PROVE  AppleInv'
<1>1. /\ exec["worker"].pc = "idle" /\ stopping /\ queue = << >>
      /\ exec' = [exec EXCEPT !["worker"].pc = "ended"]
      /\ UNCHANGED << hosts, request, recent, history, processVars, sent, withdrawn >>
  BY DEF WorkerEnds, Stands, hostVars
<1>2. Sensible("ended", exec["worker"].op, exec["worker"].left, exec["worker"].best, exec["worker"].outcome)
  BY <1>1, Threads DEF AppleInv, AppleTypes, ThreadsTyped, Sensible, Rests
<1>3. /\ ThreadsTyped' /\ exec'["worker"].pc = "ended"
      /\ \A u \in Thread : u # "worker" => exec'[u] = exec[u]
  BY <1>1, <1>2, Threads, Moves DEF Goes, AppleInv, AppleTypes, Pcs, Rests
<1>4. RestFrame /\ stopping' = stopping
  BY <1>1 DEF RestFrame, processVars, AppleInv, AppleTypes, HostsTyped
<1>5. Ending'
  BY <1>1, <1>3, <1>4, Threads DEF AppleInv, Safe, Ending, processVars
<1>6. \A t \in Thread : exec'[t] = exec[t] \/ (exec[t].pc \in Rests /\ exec'[t].pc \in Rests)
  BY <1>1, <1>3 DEF Rests
<1>7. Up
  BY <1>1, Threads DEF Up
<1> QED
  BY <1>3, <1>4, <1>5, <1>6, <1>7, RestKeeps

LEMMA ResetKeeps ==
    ASSUME AppleInv, ResetRunning
    PROVE  AppleInv'
<1>1. /\ exec["worker"].pc = "reset" /\ runningOp' = 0 /\ stopping' = stopping
      /\ exec' = [exec EXCEPT !["worker"] = [FreeThread EXCEPT !.pc = "idle"]]
      /\ UNCHANGED << hosts, request, recent, history, queue, lives, sent, withdrawn >>
  BY DEF ResetRunning, Stands, hostVars, FreeThread
<1>2. /\ ThreadsTyped' /\ exec'["worker"].pc = "idle"
      /\ \A u \in Thread : u # "worker" => exec'[u] = exec[u]
  BY <1>1, Threads, Released DEF Goes, AppleInv, AppleTypes
<1>3. RestFrame
  BY <1>1 DEF RestFrame, AppleInv, AppleTypes, HostsTyped
<1>4. Up /\ Up'
  BY <1>1, <1>2, Threads DEF Up
<1>5. Ending'
  BY <1>1, <1>2, <1>4, Threads DEF AppleInv, Safe, Ending
<1>6. \A t \in Thread : exec'[t] = exec[t] \/ (exec[t].pc \in Rests /\ exec'[t].pc \in Rests)
  BY <1>1, <1>2 DEF Rests
<1> QED
  BY <1>2, <1>3, <1>4, <1>5, <1>6, RestKeeps

LEMMA EditHostsKeeps ==
    ASSUME AppleInv, EditHosts
    PROVE  AppleInv'
<1>1. /\ exec' = exec /\ stopping' = stopping /\ runningOp' = runningOp
      /\ UNCHANGED << request, recent, history, queue, lives, sent, withdrawn >>
  BY DEF EditHosts, UpsertHost, RemoveHost, processVars
<1>2. PICK id \in AppleHostId :
         \/ \E form \in HostForms : hosts' = [hosts EXCEPT ![id] = Configured(form, id)]
         \/ hosts' = [hosts EXCEPT ![id] = Absent]
  BY HostConstants DEF EditHosts, UpsertHost, RemoveHost
<1>3. id \in HostKey
  BY DEF HostKey
<1>4. IsHost(Absent) /\ \A form : IsHost(Configured(form, id)) /\ Configured(form, id).id = id
  BY DEF IsHost, Absent, Configured
<1>5. PICK h : IsHost(h) /\ (h = Absent \/ h.id = id) /\ hosts' = [hosts EXCEPT ![id] = h]
  BY <1>2, <1>4
<1>6. HostsTyped'
  BY <1>3, <1>5 DEF AppleInv, AppleTypes, HostsTyped
<1>7. ThreadsTyped' /\ RestFrame
  BY <1>1, <1>6 DEF AppleInv, AppleTypes, ThreadsTyped, RestFrame
<1>8. Ending' /\ (Up' => Up)
  BY <1>1 DEF AppleInv, Safe, Ending, Up
<1> QED
  BY <1>1, <1>7, <1>8, RestKeeps

LEMMA StopKeeps ==
    ASSUME AppleInv, StopOperations
    PROVE  AppleInv'
<1>1. /\ exec' = exec /\ stopping' = TRUE /\ runningOp' = runningOp
      /\ UNCHANGED << hosts, request, recent, history, queue, lives, sent, withdrawn >>
      /\ \A c \in AppleCaller : exec[c].pc = "idle"
  BY DEF StopOperations, hostVars, Stands
<1>2. ThreadsTyped' /\ RestFrame
  BY <1>1 DEF AppleInv, AppleTypes, ThreadsTyped, HostsTyped, RestFrame
<1>3. Ending' /\ (Up' => Up)
  BY <1>1 DEF AppleInv, Safe, Ending, Up
<1> QED
  BY <1>1, <1>2, <1>3, RestKeeps

\* Every thread is without an operation and the queue is empty.
Quiet(pc) ==
    /\ exec = [t \in Thread |-> [FreeThread EXCEPT !.pc = pc]] /\ queue = << >>
    /\ stopping => pc = "idle"

QuietIsTyped(pc) ==
    Quiet(pc) => /\ ThreadsTyped /\ queue \in Seq(AppleOp) /\ OnceEach(queue) /\ Ending
                 /\ (\A o : ~Queued(o)) /\ \A t \in Thread : exec[t].op = 0 /\ \A o : ~Holds(t, o)

LEMMA QuietTyped == QuietIsTyped("idle") /\ QuietIsTyped("down")
<1> SUFFICES ASSUME NEW pc \in {"idle", "down"}, Quiet(pc) PROVE QuietIsTyped(pc)
  BY DEF QuietIsTyped
<1> DEFINE e == [FreeThread EXCEPT !.pc = pc]
<1>1. IsThread(e) /\ e.pc = pc /\ e.op = 0 /\ Sensible(e.pc, e.op, e.left, e.best, e.outcome)
  BY FreeTyped
<1>2. exec = [t \in Thread |-> e] /\ queue = << >> /\ (stopping => pc = "idle")
  BY DEF Quiet
<1> HIDE DEF e
<1>3. ThreadsTyped
  BY <1>1, <1>2 DEF ThreadsTyped, AreThreads
<1>4. DOMAIN queue = {} /\ queue \in Seq(AppleOp)
  BY <1>2, EmptySeq, LenProperties
<1>5. OnceEach(queue) /\ \A o : ~Queued(o)
  BY <1>4 DEF OnceEach, Queued, In
<1>6. \A t \in Thread : exec[t].pc = pc /\ exec[t].op = 0 /\ \A o : ~Holds(t, o)
  BY <1>1, <1>2 DEF Holds, Works
<1>7. Ending
  BY <1>2, <1>6, Threads DEF Ending
<1> QED
  BY <1>3, <1>4, <1>5, <1>6, <1>7 DEF QuietIsTyped

\* With the process goes the list it kept; the file stays.
LEMMA LeaveKeeps ==
    ASSUME AppleInv, LeaveProcess
    PROVE  AppleInv'
<1>1. /\ hosts' = hosts /\ request' = request /\ history' = history /\ lives' = lives
      /\ sent' = sent /\ withdrawn' = withdrawn /\ recent' = << >> /\ Quiet("down")'
      /\ runningOp' = 0 /\ stopping' = FALSE
  BY DEF LeaveProcess, hostVars, Down, Quiet
<1>2. /\ ThreadsTyped' /\ queue' \in Seq(AppleOp) /\ OnceEach(queue') /\ Ending'
      /\ (\A o : ~Queued(o)') /\ \A t \in Thread : exec'[t].op = 0 /\ \A o : ~Holds(t, o)'
  <2>1. QuietIsTyped("down")'
    BY QuietTyped, PTL
  <2> QED
    BY <1>1, <2>1 DEF QuietIsTyped
<1>3. DOMAIN recent' = {} /\ IsRecords(recent')
  <2>1. << >> \in Seq([op : AppleOp, status : Status]) /\ Len(<< >>) = 0 /\ DOMAIN << >> = {}
    BY EmptySeq, LenProperties
  <2> QED
    BY <1>1, <2>1, LimitIsPositive DEF IsRecords
<1>4. AppleTypes'
  BY <1>1, <1>2, <1>3 DEF AppleInv, AppleTypes, HostsTyped, RequestsTyped, Used
<1>5. Used' = Used /\ \A o : Statuses(o)' \subseteq Statuses(o)
  BY <1>1, <1>3 DEF Used, Statuses, StatusIn
<1>6. ~Up'
  BY <1>1 DEF Quiet, Up, FreeThread
<1>7. OneHolder' /\ SentOnce' /\ NotBegun' /\ Backed'
  BY <1>2, <1>6 DEF OneHolder, SentOnce, NotBegun, Backed
<1>8. UnusedUnknown'
  BY <1>1, <1>2, <1>5, Numbers DEF AppleInv, Safe, UnusedUnknown
<1>9. WithdrawnRest'
  BY <1>1, <1>2, <1>5 DEF AppleInv, Safe, WithdrawnRest
<1> QED
  BY <1>2, <1>4, <1>7, <1>8, <1>9 DEF AppleInv, Safe

\* What the file says is queued or running is blocked at the next start.
LEMMA StartKeeps ==
    ASSUME AppleInv, StartProcess
    PROVE  AppleInv'
<1>1. /\ hosts' = hosts /\ request' = request /\ sent' = sent /\ withdrawn' = withdrawn
      /\ history' = Reconciled(history) /\ recent' = Reconciled(history)
      /\ lives' = lives + 1 /\ lives < MaxLives /\ runningOp' = runningOp /\ stopping' = stopping
  BY DEF StartProcess, hostVars
<1>2. Quiet("idle")'
  BY DEF StartProcess, AppleInv, Safe, Ending, Quiet, FreeThread
<1>3. /\ ThreadsTyped' /\ queue' \in Seq(AppleOp) /\ OnceEach(queue') /\ Ending'
      /\ (\A o : ~Queued(o)') /\ \A t \in Thread : exec'[t].op = 0 /\ \A o : ~Holds(t, o)'
  <2>1. QuietIsTyped("idle")'
    BY QuietTyped, PTL
  <2> QED
    BY <1>2, <2>1 DEF QuietIsTyped
<1>4. IsRecords(history)
  BY DEF AppleInv, AppleTypes
<1>5. /\ IsRecords(recent') /\ IsRecords(history') /\ history' = recent'
      /\ \A o : Settled(StatusIn(recent', o), StatusIn(history, o))
  <2> DEFINE r == Reconciled(history)
  <2>1. IsRecords(r) /\ \A o : Settled(StatusIn(r, o), StatusIn(history, o))
    BY <1>4, ReconciledRecords
  <2>2. recent' = r /\ history' = r
    BY <1>1
  <2> HIDE DEF r
  <2> QED
    BY <2>1, <2>2
<1>6. \A o : /\ Statuses(o)' \subseteq (Statuses(o) \cap Terminal) \cup {"blocked"}
             /\ Statuses(o) = {} => Statuses(o)' = {}
  BY <1>5 DEF Statuses, Settled
<1>7. AppleTypes'
  <2>1. lives' \in 1 .. MaxLives
    BY <1>1, Numbers DEF AppleInv, AppleTypes
  <2> QED
    BY <1>1, <1>3, <1>5, <2>1 DEF AppleInv, AppleTypes, HostsTyped, RequestsTyped, Used
<1>8. Used' = Used
  BY <1>1 DEF Used
<1>9. OneHolder' /\ SentOnce' /\ NotBegun'
  BY <1>3 DEF OneHolder, SentOnce, NotBegun
<1>10. UnusedUnknown'
  BY <1>1, <1>3, <1>6, <1>8, Numbers DEF AppleInv, Safe, UnusedUnknown
<1>11. WithdrawnRest'
  BY <1>1, <1>3, <1>6 DEF AppleInv, Safe, WithdrawnRest, Terminal, Status
<1>12. Backed'
  BY <1>6 DEF Backed, Terminal, Status
<1> QED
  BY <1>3, <1>7, <1>9, <1>10, <1>11, <1>12 DEF AppleInv, Safe

-----------------------------------------------------------------------------
(* The theorems *)

LEMMA AppleInvInitially == AppleInit => AppleInv
<1> SUFFICES ASSUME AppleInit PROVE AppleInv
  OBVIOUS
<1>1. /\ request = [op \in AppleOp |-> NoRequest] /\ recent = << >> /\ history = << >>
      /\ lives = 1 /\ sent = [op \in AppleOp |-> 0] /\ withdrawn = {} /\ runningOp = 0 /\ stopping = FALSE
  BY DEF AppleInit
<1>2. Quiet("idle")
  BY DEF AppleInit, Quiet, FreeThread
<1>3. /\ ThreadsTyped /\ queue \in Seq(AppleOp) /\ OnceEach(queue) /\ Ending
      /\ (\A o : ~Queued(o)) /\ \A t \in Thread : exec[t].op = 0 /\ \A o : ~Holds(t, o)
  BY <1>2, QuietTyped DEF QuietIsTyped
<1>4. HostsTyped
  <2>1. PICK first \in FirstHosts :
           hosts = [id \in HostKey |-> IF id \in DOMAIN first THEN Configured(first[id], id) ELSE Absent]
    BY DEF AppleInit
  <2>2. IsHost(Absent) /\ \A form, id : IsHost(Configured(form, id)) /\ Configured(form, id).id = id
    BY DEF IsHost, Absent, Configured
  <2> QED
    BY <2>1, <2>2 DEF HostsTyped
<1>5. DOMAIN recent = {} /\ IsRecords(recent) /\ IsRecords(history)
  <2>1. << >> \in Seq([op : AppleOp, status : Status]) /\ Len(<< >>) = 0 /\ DOMAIN << >> = {}
    BY EmptySeq, LenProperties
  <2> QED
    BY <1>1, <2>1, LimitIsPositive DEF IsRecords
<1>6. Used = {} /\ \A o : Statuses(o) = {}
  BY <1>1, <1>5 DEF Used, Statuses, StatusIn
<1>7. AppleTypes
  <2>1. 1 \in 1 .. MaxLives /\ sent \in [AppleOp -> {0, 1}]
    BY <1>1, Numbers
  <2>2. RequestsTyped
    BY <1>1, <1>6 DEF RequestsTyped
  <2> QED
    BY <1>1, <1>3, <1>4, <1>5, <2>1, <2>2 DEF AppleTypes
<1>8. OneHolder /\ SentOnce /\ NotBegun /\ Backed /\ WithdrawnRest
  BY <1>1, <1>3, <1>6 DEF OneHolder, SentOnce, NotBegun, Backed, WithdrawnRest
<1>9. UnusedUnknown
  BY <1>1, <1>3, <1>6, Numbers DEF UnusedUnknown
<1> QED
  BY <1>3, <1>7, <1>8, <1>9 DEF AppleInv, Safe

LEMMA AppleInvKept == AppleInv /\ [AppleNext]_appleVars => AppleInv'
<1> SUFFICES ASSUME AppleInv, [AppleNext]_appleVars PROVE AppleInv'
  OBVIOUS
<1>1. ASSUME NEW c \in AppleCaller, NEW op \in AppleOp,
             (\E r \in Startable : Execute(c, op, r)) \/ (~stopping /\ (CancelQueued(c, op) \/ CancelLate(c, op)))
      PROVE  AppleInv'
  BY <1>1, ExecuteKeeps, CancelKeeps
<1>2. ASSUME NEW c \in AppleCaller, CallerStep(c)
      PROVE  AppleInv'
  BY <1>2, Threads, EnqueueKeeps, CanceledKeeps, ToolStepKeeps DEF CallerStep
<1>3. CASE WorkerStep
  BY <1>3, Threads, TakeKeeps, WorkerEndsKeeps, ResetKeeps, ToolStepKeeps DEF WorkerStep
<1>4. CASE ExitProcess \/ CrashProcess
  BY <1>4, LeaveKeeps DEF ExitProcess, CrashProcess
<1>5. CASE UNCHANGED appleVars
  <2>1. /\ exec' = exec /\ stopping' = stopping /\ runningOp' = runningOp /\ hosts' = hosts
        /\ UNCHANGED << request, recent, history, queue, lives, sent, withdrawn >>
    BY <1>5 DEF appleVars
  <2>2. ThreadsTyped' /\ RestFrame /\ Ending' /\ (Up' => Up)
    BY <2>1 DEF AppleInv, AppleTypes, ThreadsTyped, HostsTyped, RestFrame, Safe, Ending, Up
  <2> QED
    BY <2>1, <2>2, RestKeeps
<1> QED
  BY <1>1, <1>2, <1>3, <1>4, <1>5, EditHostsKeeps, StopKeeps, StartKeeps DEF AppleNext

LEMMA AppleTypesFollow == AppleInv => AppleTypeOK
<1> SUFFICES ASSUME AppleInv PROVE AppleTypeOK
  OBVIOUS
<1>1. \A id \in HostKey : hosts[id].found \subseteq Facility /\ hosts[id].id \in {id, "none"}
  BY DEF AppleInv, AppleTypes, HostsTyped, IsHost, Absent
<1>2. ASSUME NEW records, IsRecords(records)
      PROVE  /\ Len(records) <= RecentLimit
             /\ \A i \in DOMAIN records : records[i].op \in AppleOp /\ records[i].status \in Status
  <2>1. records \in Seq(Record) /\ Len(records) <= RecentLimit
    BY <1>2 DEF IsRecords, Record
  <2>2. \A i \in DOMAIN records : records[i] \in Record
    BY <2>1, LenProperties, ElementOfSeq
  <2> QED
    BY <2>1, <2>2 DEF Record
<1>3. \A i \in DOMAIN queue : queue[i] \in AppleOp
  BY LenProperties, ElementOfSeq DEF AppleInv, AppleTypes
<1>4. \A t \in Thread :
         exec[t].op \in AppleOp \cup {0} /\ \A a, b \in exec[t].left : a.id = b.id => a = b
  BY DEF AppleInv, AppleTypes, ThreadsTyped, AreThreads, IsThread, Sensible
<1> QED
  BY <1>1, <1>2, <1>3, <1>4 DEF AppleTypeOK, AppleInv, AppleTypes

LEMMA AppleInvariant == AppleSpec => []AppleInv
  BY AppleInvInitially, AppleInvKept, PTL DEF AppleSpec

\* The state is well typed: the lists of records stay within their limit, no
\* host goes by another's id, and a thread inspects a host once.
THEOREM AppleTypesHold == AppleSpec => []AppleTypeOK
  BY AppleInvariant, AppleTypesFollow, PTL

LEMMA RecordsFollow == AppleInv => RecordsAreLive /\ EndsFinished /\ CanceledNeverRuns
<1> SUFFICES ASSUME AppleInv PROVE RecordsAreLive /\ EndsFinished /\ CanceledNeverRuns
  OBVIOUS
<1>1. \A op : Live(recent, op) \/ Live(history, op) => Statuses(op) \cap {"queued", "running"} # {}
  BY DEF Live, Statuses
<1>2. \A op : Queued(op) => op \in Range(queue)
  BY DEF Queued, In, Range
<1>3. RecordsAreLive
  BY <1>1, <1>2 DEF AppleInv, Safe, Backed, RecordsAreLive
<1>4. ASSUME exec["worker"].pc = "ended", NEW op \in AppleOp
      PROVE  ~Live(recent, op) /\ ~Live(history, op)
  <2>1. stopping /\ queue = << >> /\ Up
    BY <1>4, Threads DEF AppleInv, Safe, Ending, Up
  <2>2. ~Queued(op)
    BY <2>1, EmptySeq, LenProperties DEF Queued, In
  <2>3. \A t \in Thread : exec[t].pc \in Rests
    BY <1>4, <2>1 DEF AppleInv, Safe, Ending, Thread, Rests
  <2>4. \A t \in Thread : exec[t].op = 0
    BY <2>3 DEF AppleInv, AppleTypes, ThreadsTyped, Sensible
  <2> QED
    BY <1>1, <2>1, <2>2, <2>4, Numbers DEF AppleInv, Safe, Backed
<1>5. EndsFinished
  BY <1>4 DEF EndsFinished, Stands
<1>6. CanceledNeverRuns
  <2>1. \A op \in AppleOp : sent[op] \in {0, 1}
    BY DEF AppleInv, AppleTypes
  <2>2. \A op \in AppleOp : sent[op] <= 1
    BY <2>1
  <2>3. \A op \in withdrawn :
           sent[op] = 0 /\ (StatusIn(recent, op) \cup StatusIn(history, op))
                              \cap {"running", "succeeded", "failed"} = {}
    BY DEF AppleInv, Safe, WithdrawnRest, Statuses
  <2> QED
    BY <2>2, <2>3 DEF CanceledNeverRuns
<1> QED
  BY <1>3, <1>5, <1>6

LEMMA WaysOfTools ==
    /\ Ways("macos.sign") = SignWays /\ Ways("macos.notarize") = NotarizeWays
    /\ Ways("macos.staple") = StapleWays /\ Ways("ios.export") = ExportWays
    /\ Ways("ios.device.install") = InstallWays
    /\ \A tool \in BuildTools : Ways(tool) = BuildWays(tool)
    /\ \A tool : tool \notin BuildTools \cup {"macos.sign", "macos.notarize", "macos.staple", "ios.export",
                                              "ios.device.install"} => Ways(tool) = {{}}
<1>1. BuildTools \cap {"macos.sign", "macos.notarize", "macos.staple", "ios.export", "ios.device.install"} = {}
  BY DEF BuildTools
<1> QED
  BY <1>1 DEF Ways

\* Every option that a command is built from is a secret, is kept, or is the
\* path that only staple takes by this name.
LEMMA KeysOfWays ==
    ASSUME NEW tool, NEW way \in Ways(tool), NEW group \in way, NEW key \in group
    PROVE  key \in secretKeys \/ key \in allowedKeys \/ (key = "targetPath" /\ tool = "macos.staple")
<1>1. CASE tool = "macos.sign"
  <2>1. group \in {{"bundlePath", "appPath", "targetBundlePath"}, {"signingIdentity", "identity"}}
    BY <1>1, WaysOfTools DEF SignWays
  <2> QED
    BY <2>1 DEF allowedKeys
<1>2. CASE tool = "macos.notarize"
  <2>1. \/ way = {NotaryArtifact, {"keychainProfile", "notaryKeychainProfile"}}
        \/ way = {NotaryArtifact, {"appleId", "notaryAppleId"}, {"teamId", "notaryTeamId"},
                  {"appSpecificPassword", "appleIdPassword", "notaryPassword", "password"}}
    BY <1>2, WaysOfTools DEF NotarizeWays
  <2>2. \/ group = NotaryArtifact \/ group = {"keychainProfile", "notaryKeychainProfile"}
        \/ group = {"appleId", "notaryAppleId"} \/ group = {"teamId", "notaryTeamId"}
        \/ group = {"appSpecificPassword", "appleIdPassword", "notaryPassword", "password"}
    BY <2>1
  <2> QED
    BY <2>2 DEF NotaryArtifact, secretKeys, allowedKeys
<1>3. CASE tool = "macos.staple"
  <2>1. group = {"artifactPath", "bundlePath", "staplePath", "targetPath"}
    BY <1>3, WaysOfTools DEF StapleWays
  <2> QED
    BY <1>3, <2>1 DEF allowedKeys
<1>4. CASE tool = "ios.export"
  <2>1. group \in {{"archivePath"}, {"exportOptionsPlist", "exportOptionsPlistPath"}}
    BY <1>4, WaysOfTools DEF ExportWays
  <2> QED
    BY <2>1 DEF allowedKeys
<1>5. CASE tool = "ios.device.install"
  <2>1. group \in {{"deviceId", "device", "deviceIdentifier"}, {"appPath", "applicationPath", "bundlePath"}}
    BY <1>5, WaysOfTools DEF InstallWays
  <2> QED
    BY <2>1 DEF allowedKeys
<1>6. CASE tool \in BuildTools
  <2>1. Ways(tool) = {{{"scheme"}} \cup IF tool = "ios.test" THEN {{"destination"}} ELSE {}}
    BY <1>6, WaysOfTools DEF BuildWays
  <2>2. group = {"scheme"} \/ group = {"destination"}
    BY <2>1
  <2> QED
    BY <2>2 DEF allowedKeys
<1>7. CASE ~(tool \in BuildTools \cup {"macos.sign", "macos.notarize", "macos.staple", "ios.export", "ios.device.install"})
  <2>1. Ways(tool) = {{}}
    BY <1>7, WaysOfTools
  <2> QED
    BY <2>1
<1> QED
  BY <1>1, <1>2, <1>3, <1>4, <1>5, <1>6, <1>7

\* Who gives staple its path by this name gives no other option.
LEMMA StapleRequests ==
    ASSUME NEW keys \in Requests("macos.staple"), "targetPath" \in keys
    PROVE  keys = {"targetPath"}
<1> DEFINE way == {{"artifactPath", "bundlePath", "staplePath", "targetPath"}}
<1>1. Ways("macos.staple") = {way}
  BY WaysOfTools DEF StapleWays
<1>2. keys \in Enough(way) \/ keys \in {{Lead(g) : g \in way \ {group}} : group \in way}
  <2>1. \E w \in {way} : keys \in Enough(w) \cup {{Lead(g) : g \in w \ {group}} : group \in w}
    BY <1>1 DEF Requests
  <2> QED
    BY <2>1
<1>3. \A group \in way : way \ {group} = {}
  OBVIOUS
<1>4. keys \notin {{Lead(g) : g \in way \ {group}} : group \in way}
  BY <1>3
<1>5. PICK key \in UNION way : keys = {key} \cup {Lead(group) : group \in {g \in way : key \notin g}}
  BY <1>2, <1>4 DEF Enough
<1>6. {g \in way : key \notin g} = {}
  OBVIOUS
<1> QED
  BY <1>5, <1>6

\* A command that can be built without the secrets can be built again from
\* what the record of the request keeps.
LEMMA ReplaysBuild ==
    ASSUME NEW r, IsRequest(r), r.keys # {"targetPath"}, NEW host,
           buildAppleOperationalCommand(r.tool, r.keys \ secretKeys, host)
    PROVE  buildAppleOperationalCommand(r.tool, persistedOptions(r.keys), host)
<1>1. PICK way \in Ways(r.tool) : Supplies((r.keys \ secretKeys) \cup host.defaults, way)
  BY DEF buildAppleOperationalCommand
<1>2. NeededFacility(r.tool) \subseteq host.found
  BY DEF buildAppleOperationalCommand
<1>3. ASSUME NEW group \in way
      PROVE  group \cap (persistedOptions(r.keys) \cup host.defaults) # {}
  <2>1. PICK key \in group : key \in (r.keys \ secretKeys) \cup host.defaults
    BY <1>1 DEF Supplies
  <2>2. CASE key \in host.defaults
    BY <2>2
  <2>3. CASE key \in r.keys \ secretKeys
    <3>1. ~(key = "targetPath" /\ r.tool = "macos.staple")
      <4>1. r.tool = "macos.staple" => r.keys \in Requests("macos.staple")
        BY DEF IsRequest
      <4> QED
        BY <2>3, <4>1, StapleRequests
    <3>2. key \in allowedKeys
      BY <2>3, <3>1, KeysOfWays
    <3> QED
      BY <2>3, <3>2 DEF persistedOptions
  <2> QED
    BY <2>1, <2>2, <2>3
<1> QED
  BY <1>1, <1>2, <1>3 DEF buildAppleOperationalCommand, Supplies

LEMMA ReplayFollows == AppleInv => ReplayIsHonest
<1> SUFFICES ASSUME AppleInv PROVE ReplayIsHonest
  OBVIOUS
<1>1. \A op \in Used : IsRequest(request[op])
  BY DEF AppleInv, AppleTypes, RequestsTyped
<1>2. ScoresAgree
  BY DEF ScoresAgree, replayScore, scoreHost
<1>3. ASSUME NEW op \in Used, NEW id \in HostKey, request[op].keys # {"targetPath"},
             buildAppleOperationalCommand(request[op].tool, request[op].keys \ secretKeys, hosts[id])
      PROVE  buildAppleOperationalCommand(request[op].tool, persistedOptions(request[op].keys), hosts[id])
  BY <1>1, <1>3, ReplaysBuild
<1> QED
  BY <1>2, <1>3 DEF ReplayIsHonest

\* Restarts, crashes and cancellations included: a record that says queued or
\* running has a thread or a place in the queue, an operation taken out of the
\* queue is never sent, none is sent twice, and the record of an operation is
\* enough to run it again.
THEOREM OperationsAreHonestHolds == AppleSpec => []OperationsAreHonest
<1>1. AppleInv => OperationsAreHonest
  BY RecordsFollow, ReplayFollows DEF OperationsAreHonest
<1> QED
  BY <1>1, AppleInvariant, PTL
==============================================================================
