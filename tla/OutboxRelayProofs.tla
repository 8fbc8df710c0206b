-------------------------- MODULE OutboxRelayProofs --------------------------
(***************************************************************************)
(* Proofs about OutboxRelay: nothing is invented and nothing is lost, for  *)
(* any number of rows, transactions, workers and faults.                   *)
(***************************************************************************)
EXTENDS OutboxRelay, FiniteSetTheorems, WellFoundedInduction, TLAPS

(* A row is where it is for a reason: what a worker holds or has sent, and *)
(* what is in Kafka, has been committed; what is sent or marked is in      *)
(* Kafka.                                                                  *)
RelayInv ==
  /\ OnlyCommittedIsPublished
  /\ MarkedIsPublished
  /\ \A w \in Workers : /\ Elements(batch[w]) \subseteq Stored
                        /\ \A r \in sent[w] : Published(r)

-----------------------------------------------------------------------------
LEMMA AppendElements ==
  ASSUME NEW S, NEW s \in Seq(S), NEW x \in S
  PROVE  Elements(Append(s, x)) = Elements(s) \cup {x}
<1>1. Elements(Append(s, x)) \subseteq Elements(s) \cup {x}
  BY DEF Elements
<1>2. \A i \in DOMAIN s : i \in DOMAIN Append(s, x) /\ Append(s, x)[i] = s[i]
  OBVIOUS
<1>3. Len(s) + 1 \in DOMAIN Append(s, x) /\ Append(s, x)[Len(s) + 1] = x
  OBVIOUS
<1> QED
  BY <1>1, <1>2, <1>3 DEF Elements

LEMMA AppendType ==
  ASSUME NEW S, NEW s \in Seq(S), NEW x \in S
  PROVE  Append(s, x) \in Seq(S)
OBVIOUS

LEMMA TailElements ==
  ASSUME NEW S, NEW s \in Seq(S), s # << >>
  PROVE  Tail(s) \in Seq(S) /\ Elements(Tail(s)) \subseteq Elements(s) /\ Head(s) \in Elements(s)
<1>1. \A i \in DOMAIN Tail(s) : i + 1 \in DOMAIN s /\ Tail(s)[i] = s[i + 1]
  OBVIOUS
<1>2. 1 \in DOMAIN s /\ Head(s) = s[1]
  OBVIOUS
<1> QED
  BY <1>1, <1>2 DEF Elements

LEMMA SeqElements ==
  ASSUME NEW S, NEW s \in Seq(S)
  PROVE  Elements(s) \subseteq S
BY DEF Elements

LEMMA StoredRows ==
  ASSUME TypeOK
  PROVE  Stored \subseteq Rows
BY RowsAssumption, SeqElements DEF TypeOK, Stored

(* A batch consists of rows of S. *)
LEMMA BatchRows ==
  ASSUME NEW S, S \subseteq Rows, NEW b \in Batches(S)
  PROVE  b \in Seq(Rows) /\ Elements(b) \subseteq S
<1>1. Cardinality(S) \in Nat
  BY RowsAssumption, FS_Subset, FS_CardinalityType
<1>2. \E n \in Nat : b \in [1..n -> S]
  BY <1>1, RelayAssumption DEF Batches
<1>3. b \in Seq(Rows) /\ b \in Seq(S)
  BY <1>2
<1> QED
  BY <1>3, SeqElements

-----------------------------------------------------------------------------
LEMMA TypeKept == TypeOK /\ [Next]_vars => TypeOK'
<1> SUFFICES ASSUME TypeOK, [Next]_vars PROVE TypeOK'
  OBVIOUS
<1> USE RowsAssumption, RelayAssumption DEF TypeOK, outbox, worker
<1>1. ASSUME NEW t \in Transactions, Begin(t) \/ Commit(t) \/ Rollback(t) PROVE TypeOK'
  <2>1. begun' \in Seq(Transactions) /\ stored' \in Seq(Transactions)
    <3>1. \/ begun' = Append(begun, t) /\ stored' = stored
          \/ begun' = begun /\ stored' = Append(stored, t)
          \/ begun' = begun /\ stored' = stored
      BY <1>1 DEF Begin, Commit, Rollback
    <3>2. Append(begun, t) \in Seq(Transactions) /\ Append(stored, t) \in Seq(Transactions)
      BY AppendType
    <3>3. begun \in Seq(Transactions) /\ stored \in Seq(Transactions)
      OBVIOUS
    <3>4. CASE begun' = Append(begun, t) /\ stored' = stored
      BY <3>2, <3>3, <3>4, Zenon
    <3>5. CASE begun' = begun /\ stored' = Append(stored, t)
      BY <3>2, <3>3, <3>5, Zenon
    <3>6. CASE begun' = begun /\ stored' = stored
      BY <3>3, <3>6, Zenon
    <3> QED
      BY <3>1, <3>4, <3>5, <3>6, Zenon
  <2>2. aborted' \subseteq Transactions
    BY <1>1 DEF Begin, Commit, Rollback
  <2>3. UNCHANGED <<marked, log, worker, failures, outages>>
    BY <1>1 DEF Begin, Commit, Rollback
  <2> QED
    BY <2>1, <2>2, <2>3
<1>2. ASSUME NEW w \in Workers, Fetch(w) PROVE TypeOK'
  <2>1. PICK b \in Batches(Pending(w)) : batch' = [batch EXCEPT ![w] = b]
    BY <1>2 DEF Fetch
  <2>2. Pending(w) \subseteq Rows
    BY StoredRows DEF Pending, Visible
  <2>3. b \in Seq(Rows)
    BY <2>1, <2>2, BatchRows
  <2> QED
    BY <1>2, <2>1, <2>3 DEF Fetch
<1>3. ASSUME NEW w \in Workers, EndFetch(w) PROVE TypeOK'
  BY <1>3 DEF EndFetch
<1>4. ASSUME NEW r \in Rows, Deliver(r) PROVE log' \in [Keys -> Seq(Rows)]
  BY <1>4 DEF Deliver
<1>5. ASSUME NEW w \in Workers, pc[w] = "send", batch[w] # << >>
      PROVE  Row(w) \in Rows /\ Tail(batch[w]) \in Seq(Rows)
  BY <1>5, TailElements, SeqElements DEF Row
<1>6. ASSUME NEW w \in Workers, Publish(w) PROVE TypeOK'
  <2>1. log' \in [Keys -> Seq(Rows)]
    BY <1>4, <1>5, <1>6 DEF Publish
  <2> QED
    BY <1>5, <1>6, <2>1 DEF Publish
<1>7. ASSUME NEW w \in Workers, PublishFails(w) PROVE TypeOK'
  <2>1. log' \in [Keys -> Seq(Rows)]
    BY <1>4, <1>5, <1>7 DEF PublishFails
  <2>2. outages' \in 0..MaxFailures
    BY <1>7 DEF PublishFails
  <2>3. batch' \in [Workers -> Seq(Rows)] /\ pc[w] = "send"
    BY <1>5, <1>7 DEF PublishFails
  <2>4. UNCHANGED <<outbox, marked, sent, pc, failures>>
    BY <1>7 DEF PublishFails
  <2>5. \A v \in Workers \ {w} : batch'[v] = batch[v]
    BY <1>7 DEF PublishFails
  <2> QED
    BY <2>1, <2>2, <2>3, <2>4, <2>5
<1>8. ASSUME NEW w \in Workers, Mark(w) \/ Abandon(w) PROVE TypeOK'
  <2>1. marked' \subseteq Rows /\ failures' \in 0..MaxFailures
    BY <1>8 DEF Mark, Abandon
  <2>2. Return(w) /\ UNCHANGED <<outbox, log, outages>>
    BY <1>8 DEF Mark, Abandon
  <2> QED
    BY <2>1, <2>2 DEF Return
<1>9. CASE UNCHANGED vars
  BY <1>9 DEF vars
<1> QED
  BY <1>1, <1>2, <1>3, <1>6, <1>7, <1>8, <1>9 DEF Next, WorkerStep

(* Every variable of OutboxRelay keeps its type.                           *)
THEOREM TypeCorrect == SafeSpec => []TypeOK
<1>1. Init => TypeOK
  BY RelayAssumption DEF Init, TypeOK
<1> QED
  BY <1>1, TypeKept, PTL DEF SafeSpec

-----------------------------------------------------------------------------
(* A message that is delivered joins the log of its key; what has been     *)
(* published stays published.                                              *)
LEMMA PublishedStays ==
  ASSUME TypeOK, NEW q \in Rows, Deliver(q)
  PROVE  /\ \A k \in Keys : Elements(log'[k]) =
              Elements(log[k]) \cup IF k = KeyOf[q] THEN {q} ELSE {}
         /\ Published(q)'
         /\ \A r \in Rows : Published(r) => Published(r)'
<1> USE RowsAssumption DEF TypeOK
<1>1. Elements(Append(log[KeyOf[q]], q)) = Elements(log[KeyOf[q]]) \cup {q}
  BY AppendElements
<1>2. \A k \in Keys : Elements(log'[k]) =
        Elements(log[k]) \cup IF k = KeyOf[q] THEN {q} ELSE {}
  BY <1>1 DEF Deliver
<1>3. ASSUME NEW r \in Rows
      PROVE  /\ Published(r) <=> r \in Elements(log[KeyOf[r]])
             /\ Published(r)' <=> r \in Elements(log'[KeyOf[r]])
             /\ KeyOf[r] \in Keys
  BY DEF Published
<1> QED
  BY <1>2, <1>3

LEMMA RelayKept == TypeOK /\ RelayInv /\ [Next]_vars => RelayInv'
<1> SUFFICES ASSUME TypeOK, RelayInv, [Next]_vars PROVE RelayInv'
  OBVIOUS
<1> USE DEF outbox, worker
<1>1. ASSUME NEW t \in Transactions, Begin(t) \/ Commit(t) \/ Rollback(t) PROVE RelayInv'
  <2>1. Stored \subseteq Stored'
    <3>1. CASE Commit(t)
      BY <3>1, AppendElements DEF Commit, Stored, TypeOK
    <3>2. CASE Begin(t) \/ Rollback(t)
      BY <3>2 DEF Begin, Rollback, Stored
    <3> QED
      BY <1>1, <3>1, <3>2
  <2>2. UNCHANGED <<marked, log, batch, sent>>
    BY <1>1 DEF Begin, Commit, Rollback
  <2> QED
    BY <2>1, <2>2 DEF RelayInv, OnlyCommittedIsPublished, MarkedIsPublished, Published
<1>2. ASSUME NEW w \in Workers, Fetch(w) PROVE RelayInv'
  <2>1. PICK b \in Batches(Pending(w)) : batch' = [batch EXCEPT ![w] = b]
    BY <1>2 DEF Fetch
  <2>2. Elements(b) \subseteq Stored
    <3>1. Pending(w) \subseteq Stored /\ Pending(w) \subseteq Rows
      BY StoredRows DEF Pending, Visible
    <3> QED
      BY <2>1, <3>1, BatchRows
  <2>3. UNCHANGED <<marked, log, sent, stored>>
    BY <1>2 DEF Fetch
  <2>4. \A v \in Workers : Elements(batch'[v]) \subseteq Stored
    BY <2>1, <2>2 DEF RelayInv, TypeOK
  <2> QED
    BY <2>3, <2>4 DEF RelayInv, OnlyCommittedIsPublished, MarkedIsPublished, Published, Stored
<1>3. ASSUME NEW w \in Workers, EndFetch(w) PROVE RelayInv'
  BY <1>3 DEF EndFetch, RelayInv, OnlyCommittedIsPublished, MarkedIsPublished, Published, Stored
<1>4. ASSUME NEW w \in Workers, batch[w] # << >>, batch' = [batch EXCEPT ![w] = Tail(@)],
             UNCHANGED <<outbox, marked>>, UNCHANGED log \/ Deliver(Row(w)),
             \/ sent' = sent
             \/ Deliver(Row(w)) /\ sent' = [sent EXCEPT ![w] = @ \cup {Row(w)}]
      PROVE  RelayInv'
  <2>1. /\ Row(w) \in Stored /\ Row(w) \in Rows
        /\ Elements(Tail(batch[w])) \subseteq Elements(batch[w])
    BY <1>4, TailElements, StoredRows DEF Row, RelayInv, TypeOK
  <2>2. /\ \A k \in Keys : Elements(log'[k]) \subseteq Elements(log[k]) \cup {Row(w)}
        /\ \A r \in Rows : Published(r) => Published(r)'
        /\ Deliver(Row(w)) => Row(w) \in Elements(log'[KeyOf[Row(w)]])
    <3>1. CASE UNCHANGED log /\ ~Deliver(Row(w))
      BY <3>1 DEF Published
    <3>2. CASE Deliver(Row(w))
      <4>1. \A k \in Keys : Elements(log'[k]) =
              Elements(log[k]) \cup IF k = KeyOf[Row(w)] THEN {Row(w)} ELSE {}
        BY <2>1, <3>2, PublishedStays
      <4>2. \A r \in Rows : Published(r) => Published(r)'
        BY <2>1, <3>2, PublishedStays
      <4>3. KeyOf[Row(w)] \in Keys
        BY <2>1, RowsAssumption
      <4> QED
        BY <4>1, <4>2, <4>3
    <3> QED
      BY <1>4, <3>1, <3>2
  <2>3. OnlyCommittedIsPublished'
    <3>1. \A k \in Keys : Elements(log[k]) \subseteq Stored
      BY DEF RelayInv, OnlyCommittedIsPublished
    <3>2. Stored' = Stored
      BY <1>4 DEF Stored
    <3> QED
      BY <2>1, <2>2, <3>1, <3>2 DEF OnlyCommittedIsPublished
  <2>4. MarkedIsPublished'
    BY <1>4, <2>2 DEF MarkedIsPublished, RelayInv, TypeOK
  <2>5. \A v \in Workers : (Elements(batch[v]) \subseteq Stored)'
    <3>1. Stored' = Stored
      BY <1>4 DEF Stored
    <3>2. \A v \in Workers : Elements(batch'[v]) \subseteq Stored
      BY <1>4, <2>1 DEF RelayInv, TypeOK
    <3> QED
      BY <3>1, <3>2
  <2>6. \A v \in Workers : \A r \in sent'[v] : Published(r)'
    <3> SUFFICES ASSUME NEW v \in Workers, NEW r \in sent'[v] PROVE Published(r)'
      OBVIOUS
    <3>1. CASE r \in sent[v]
      BY <2>2, <3>1 DEF RelayInv, TypeOK
    <3>2. CASE r \notin sent[v]
      <4>1. r = Row(w) /\ Deliver(Row(w))
        <5>1. Deliver(Row(w)) /\ sent' = [sent EXCEPT ![w] = sent[w] \cup {Row(w)}]
          BY <1>4, <3>2
        <5> QED
          BY <3>2, <5>1 DEF TypeOK
      <4> QED
        BY <2>2, <4>1 DEF Published
    <3> QED
      BY <3>1, <3>2
  <2> QED
    BY <2>3, <2>4, <2>5, <2>6 DEF RelayInv
<1>5. ASSUME NEW w \in Workers, Publish(w) PROVE RelayInv'
  BY <1>4, <1>5 DEF Publish
<1>6. ASSUME NEW w \in Workers, PublishFails(w) PROVE RelayInv'
  BY <1>4, <1>6 DEF PublishFails
<1>7. ASSUME NEW w \in Workers, Mark(w) \/ Abandon(w) PROVE RelayInv'
  <2>1. Elements(<< >>) = {}
    BY DEF Elements
  <2>2. /\ UNCHANGED <<outbox, log>>
        /\ batch' = [batch EXCEPT ![w] = << >>] /\ sent' = [sent EXCEPT ![w] = {}]
        /\ marked' \subseteq marked \cup sent[w]
    BY <1>7 DEF Mark, Abandon, Return
  <2>3. OnlyCommittedIsPublished'
    BY <2>2 DEF OnlyCommittedIsPublished, RelayInv, Stored
  <2>4. MarkedIsPublished'
    BY <2>2 DEF MarkedIsPublished, RelayInv, Published
  <2> QED
    BY <2>1, <2>2, <2>3, <2>4 DEF RelayInv, TypeOK, Published, Stored
<1>8. CASE UNCHANGED vars
  BY <1>8 DEF vars, RelayInv, OnlyCommittedIsPublished, MarkedIsPublished, Published, Stored
<1> QED
  BY <1>1, <1>2, <1>3, <1>5, <1>6, <1>7, <1>8 DEF Next, WorkerStep

LEMMA Inductive == SafeSpec => []RelayInv
<1>1. Init => RelayInv
  BY RowsAssumption DEF Init, RelayInv, OnlyCommittedIsPublished, MarkedIsPublished, Elements
<1> QED
  BY <1>1, TypeCorrect, RelayKept, PTL DEF SafeSpec

(* Every message in Kafka is a row of a committed business transaction,    *)
(* whatever workers race, crash or fail to send.                           *)
THEOREM NothingIsInvented == SafeSpec => []OnlyCommittedIsPublished
  BY Inductive, PTL DEF RelayInv

(* A row that is marked, so that no worker will look at it again, is in    *)
(* Kafka.                                                                  *)
THEOREM NothingIsLost == SafeSpec => []MarkedIsPublished
  BY Inductive, PTL DEF RelayInv

-----------------------------------------------------------------------------
(***************************************************************************)
(* The order of commits, with one worker and writers that do not overlap   *)
(* on a key.                                                               *)
(***************************************************************************)
LEMMA AppendIndex ==
  ASSUME NEW S, NEW s \in Seq(S), NEW x \in S
  PROVE  /\ Len(s) \in Nat /\ DOMAIN s = 1..Len(s)
         /\ DOMAIN Append(s, x) = 1..(Len(s) + 1)
         /\ Append(s, x)[Len(s) + 1] = x
         /\ \A i \in DOMAIN s : i \in DOMAIN Append(s, x) /\ Append(s, x)[i] = s[i]
         /\ \A i \in DOMAIN Append(s, x) : i \in DOMAIN s \/ i = Len(s) + 1
OBVIOUS

LEMMA TailIndex ==
  ASSUME NEW S, NEW s \in Seq(S), s # << >>
  PROVE  /\ Len(s) \in Nat \ {0} /\ DOMAIN s = 1..Len(s)
         /\ DOMAIN Tail(s) = 1..(Len(s) - 1)
         /\ Head(s) = s[1]
         /\ \A i \in DOMAIN Tail(s) : i + 1 \in DOMAIN s /\ Tail(s)[i] = s[i + 1]
OBVIOUS

(* Transactions that write to one key begin and commit in the same order:  *)
(* those that are open do not overlap, and what has committed began before *)
(* what is still open.                                                     *)
BegunOnce == \A p, q \in DOMAIN begun : begun[p] = begun[q] => p = q

StoredBegun == Elements(stored) \subseteq Elements(begun)

OpenApart == \A t, u \in Open : t # u => ~Overlap(t, u)

StoredFirst ==
  \A p, q \in DOMAIN begun :
    /\ begun[p] \in Elements(stored) /\ begun[q] \in Open
    /\ Overlap(begun[p], begun[q])
    => p < q

CommitOrder ==
  \A i, j \in DOMAIN stored : i < j =>
    \A p, q \in DOMAIN begun :
      /\ begun[p] = stored[i] /\ begun[q] = stored[j]
      /\ Overlap(stored[i], stored[j])
      => p < q

WritersInv == BegunOnce /\ StoredBegun /\ OpenApart /\ StoredFirst /\ CommitOrder

LEMMA WritersInit == Init => WritersInv
BY DEF Init, WritersInv, BegunOnce, StoredBegun, OpenApart, StoredFirst, CommitOrder,
       Open, Elements

LEMMA WritersKept ==
  SerialWriters /\ TypeOK /\ WritersInv /\ [Next]_vars => WritersInv'
<1> SUFFICES ASSUME SerialWriters, TypeOK, WritersInv, [Next]_vars PROVE WritersInv'
  OBVIOUS
<1> USE DEF outbox, worker
<1>q. ASSUME UNCHANGED outbox PROVE WritersInv'
  BY <1>q DEF WritersInv, BegunOnce, StoredBegun, OpenApart, StoredFirst, CommitOrder, Open
<1>s. begun \in Seq(Transactions) /\ stored \in Seq(Transactions)
  BY DEF TypeOK
<1>1. ASSUME NEW t \in Transactions, Begin(t) PROVE WritersInv'
  <2>1. /\ begun' = Append(begun, t) /\ stored' = stored
        /\ t \notin Elements(begun)
        /\ \A u \in Open : ~Overlap(t, u)
    BY <1>1 DEF Begin
  <2>2. Elements(begun') = Elements(begun) \cup {t}
    BY <1>s, <2>1, AppendElements
  <2>3. Open' \subseteq Open \cup {t}
    BY <1>1, <2>1, <2>2 DEF Open, Begin
  <2>4. /\ Len(begun) \in Nat /\ DOMAIN begun = 1..Len(begun)
        /\ DOMAIN begun' = 1..(Len(begun) + 1) /\ begun'[Len(begun) + 1] = t
        /\ \A i \in DOMAIN begun : i \in DOMAIN begun' /\ begun'[i] = begun[i]
        /\ \A i \in DOMAIN begun' : i \in DOMAIN begun \/ i = Len(begun) + 1
    BY <1>s, <2>1, AppendIndex
  <2>5. \A i \in DOMAIN begun : begun[i] \in Elements(begun)
    BY DEF Elements
  <2>6. BegunOnce'
    BY <2>1, <2>4, <2>5 DEF WritersInv, BegunOnce
  <2>7. StoredBegun'
    BY <2>1, <2>2 DEF WritersInv, StoredBegun
  <2>8. OpenApart'
    BY <2>1, <2>3 DEF WritersInv, OpenApart, Overlap
  <2>9. t \notin Elements(stored)
    BY <2>1 DEF WritersInv, StoredBegun
  <2>10. StoredFirst'
    <3> SUFFICES ASSUME NEW p \in DOMAIN begun', NEW q \in DOMAIN begun',
                        begun'[p] \in Elements(stored), begun'[q] \in Open',
                        Overlap(begun'[p], begun'[q])
                 PROVE  p < q
      BY <2>1 DEF StoredFirst, Overlap
    <3>1. p \in DOMAIN begun /\ begun'[p] = begun[p]
      BY <2>4, <2>9
    <3>2. CASE q = Len(begun) + 1
      BY <2>4, <3>1, <3>2
    <3>3. CASE q \in DOMAIN begun
      <4>1. begun'[q] = begun[q] /\ begun[q] \in Open
        BY <2>1, <2>3, <2>4, <2>5, <3>3
      <4> QED
        BY <3>1, <3>3, <4>1 DEF WritersInv, StoredFirst
    <3> QED
      BY <2>4, <3>2, <3>3
  <2>11. CommitOrder'
    <3> SUFFICES ASSUME NEW i \in DOMAIN stored, NEW j \in DOMAIN stored, i < j,
                        NEW p \in DOMAIN begun', NEW q \in DOMAIN begun',
                        begun'[p] = stored[i], begun'[q] = stored[j],
                        Overlap(stored[i], stored[j])
                 PROVE  p < q
      BY <2>1 DEF CommitOrder, Overlap
    <3>1. stored[i] # t /\ stored[j] # t
      BY <2>9 DEF Elements
    <3>2. /\ p \in DOMAIN begun /\ begun'[p] = begun[p]
          /\ q \in DOMAIN begun /\ begun'[q] = begun[q]
      BY <2>4, <3>1
    <3> QED
      BY <3>2 DEF WritersInv, CommitOrder
  <2> QED
    BY <2>6, <2>7, <2>8, <2>10, <2>11 DEF WritersInv
<1>2. ASSUME NEW t \in Transactions, Commit(t) PROVE WritersInv'
  <2>1. /\ stored' = Append(stored, t) /\ begun' = begun /\ t \in Open
        /\ t \in Elements(begun)
    BY <1>2 DEF Commit, Open
  <2>2. Elements(stored') = Elements(stored) \cup {t}
    BY <1>s, <2>1, AppendElements
  <2>3. Open' \subseteq Open \ {t}
    BY <1>2, <2>1, <2>2 DEF Open, Commit
  <2>4. /\ Len(stored) \in Nat /\ DOMAIN stored = 1..Len(stored)
        /\ DOMAIN stored' = 1..(Len(stored) + 1) /\ stored'[Len(stored) + 1] = t
        /\ \A i \in DOMAIN stored : i \in DOMAIN stored' /\ stored'[i] = stored[i]
        /\ \A i \in DOMAIN stored' : i \in DOMAIN stored \/ i = Len(stored) + 1
    BY <1>s, <2>1, AppendIndex
  <2>5. BegunOnce' /\ StoredBegun'
    BY <2>1, <2>2 DEF WritersInv, BegunOnce, StoredBegun
  <2>6. OpenApart'
    BY <2>3 DEF WritersInv, OpenApart, Overlap
  <2>7. StoredFirst'
    <3> SUFFICES ASSUME NEW p \in DOMAIN begun, NEW q \in DOMAIN begun,
                        begun[p] \in Elements(stored'), begun[q] \in Open',
                        Overlap(begun[p], begun[q])
                 PROVE  p < q
      BY <2>1 DEF StoredFirst, Overlap
    <3>1. begun[q] \in Open /\ begun[q] # t
      BY <2>3
    <3>2. begun[p] # t
      BY <2>1, <3>1 DEF WritersInv, OpenApart
    <3> QED
      BY <2>2, <3>1, <3>2 DEF WritersInv, StoredFirst
  <2>8. CommitOrder'
    <3> SUFFICES ASSUME NEW i \in DOMAIN stored', NEW j \in DOMAIN stored', i < j,
                        NEW p \in DOMAIN begun, NEW q \in DOMAIN begun,
                        begun[p] = stored'[i], begun[q] = stored'[j],
                        Overlap(stored'[i], stored'[j])
                 PROVE  p < q
      BY <2>1 DEF CommitOrder, Overlap
    <3>1. i \in DOMAIN stored /\ stored'[i] = stored[i] /\ stored[i] \in Elements(stored)
      BY <2>4 DEF Elements
    <3>2. CASE j = Len(stored) + 1
      <4>1. begun[q] = t
        BY <2>4, <3>2
      <4> QED
        BY <2>1, <3>1, <4>1 DEF WritersInv, StoredFirst
    <3>3. CASE j \in DOMAIN stored
      BY <2>4, <3>1, <3>3 DEF WritersInv, CommitOrder
    <3> QED
      BY <2>4, <3>2, <3>3
  <2> QED
    BY <2>5, <2>6, <2>7, <2>8 DEF WritersInv
<1>3. ASSUME NEW t \in Transactions, Rollback(t) PROVE WritersInv'
  <2>1. begun' = begun /\ stored' = stored /\ Open' \subseteq Open
    BY <1>3 DEF Rollback, Open
  <2> QED
    BY <2>1 DEF WritersInv, BegunOnce, StoredBegun, OpenApart, StoredFirst, CommitOrder,
                Overlap
<1>4. ASSUME NEW w \in Workers, WorkerStep(w) \/ PublishFails(w) \/ Abandon(w)
      PROVE  UNCHANGED outbox
  BY <1>4 DEF WorkerStep, Fetch, EndFetch, Publish, Mark, PublishFails, Abandon
<1> QED
  BY <1>q, <1>1, <1>2, <1>3, <1>4 DEF Next, vars

(* r was committed before s, under the same key. *)
Before(r, s) ==
  \E i, j \in DOMAIN stored :
    i < j /\ r \in stored[i] /\ s \in stored[j] /\ KeyOf[r] = KeyOf[s]

LEMMA CreatedWhenBegun ==
  ASSUME TypeOK, WritersInv, NEW r, NEW p \in DOMAIN begun, r \in begun[p]
  PROVE  CreatedAt(r) = p /\ p \in Nat
<1>1. begun \in Seq(Transactions)
  BY DEF TypeOK
<1>2. \A q \in DOMAIN begun : begun[q] \in Transactions /\ q \in Nat
  BY <1>1
<1>3. \A q \in DOMAIN begun : r \in begun[q] => q = p
  BY <1>2, RowsAssumption DEF WritersInv, BegunOnce
<1> QED
  BY <1>2, <1>3 DEF CreatedAt

LEMMA CreatedBefore ==
  ASSUME TypeOK, WritersInv, NEW r \in Rows, NEW s \in Rows, Before(r, s)
  PROVE  /\ CreatedAt(r) \in Nat /\ CreatedAt(s) \in Nat
         /\ CreatedAt(r) < CreatedAt(s)
<1>1. PICK i, j \in DOMAIN stored :
        i < j /\ r \in stored[i] /\ s \in stored[j] /\ KeyOf[r] = KeyOf[s]
  BY DEF Before
<1>2. PICK p, q \in DOMAIN begun : begun[p] = stored[i] /\ begun[q] = stored[j]
  BY DEF WritersInv, StoredBegun, Elements
<1>3. p < q
  BY <1>1, <1>2 DEF WritersInv, CommitOrder, Overlap
<1> QED
  BY <1>1, <1>2, <1>3, CreatedWhenBegun

(* Every copy of s in Kafka comes after a copy of what was committed       *)
(* before it under the same key, and a worker is about to keep it so: it   *)
(* holds s behind what Kafka does not have yet.                            *)
Preceded ==
  \A r, s \in Rows : Before(r, s) =>
    \A j \in DOMAIN log[KeyOf[s]] : log[KeyOf[s]][j] = s =>
      \E i \in DOMAIN log[KeyOf[s]] : i < j /\ log[KeyOf[s]][i] = r

Ready(w) ==
  \A p \in DOMAIN batch[w] : KeyOf[batch[w][p]] \notin Down =>
    \A r \in Rows : Before(r, batch[w][p]) =>
      \/ Published(r)
      \/ \E q \in DOMAIN batch[w] : q < p /\ batch[w][q] = r

OrderInv == outages = 0 => Preceded /\ \A w \in Workers : Ready(w)

(* Nothing new is before what a worker fetched or Kafka has: a commit      *)
(* comes after all others.                                                 *)
LEMMA CommitIsLast ==
  ASSUME TypeOK, NEW t \in Transactions, Commit(t),
         NEW r \in Rows, NEW s \in Stored, Before(r, s)'
  PROVE  Before(r, s)
<1>1. stored \in Seq(Transactions) /\ stored' = Append(stored, t) /\ t \notin Elements(stored)
  BY DEF TypeOK, Commit, Open
<1>2. /\ Len(stored) \in Nat /\ DOMAIN stored = 1..Len(stored)
      /\ stored'[Len(stored) + 1] = t
      /\ DOMAIN stored' = 1..(Len(stored) + 1)
      /\ \A i \in DOMAIN stored : i \in DOMAIN stored' /\ stored'[i] = stored[i]
      /\ \A i \in DOMAIN stored' : i \in DOMAIN stored \/ i = Len(stored) + 1
  BY <1>1, AppendIndex
<1>3. PICK i, j \in DOMAIN stored' :
        i < j /\ r \in stored'[i] /\ s \in stored'[j] /\ KeyOf[r] = KeyOf[s]
  BY DEF Before
<1>4. s \notin t
  <2>1. PICK u \in Elements(stored) : s \in u
    BY DEF Stored
  <2>2. u \in Transactions /\ u # t
    BY <1>1, <2>1, SeqElements
  <2> QED
    BY <2>1, <2>2, RowsAssumption
<1>5. j \in DOMAIN stored /\ i \in DOMAIN stored
  BY <1>2, <1>3, <1>4
<1> QED
  BY <1>2, <1>3, <1>5 DEF Before

LEMMA FetchIsReady ==
  ASSUME TypeOK, RelayInv, WritersInv, \A v, w \in Workers : v = w,
         NEW w \in Workers, NEW b \in Batches(Pending(w)),
         NEW p \in DOMAIN b, NEW r \in Rows, Before(r, b[p])
  PROVE  Published(r) \/ \E q \in DOMAIN b : q < p /\ b[q] = r
<1> DEFINE S == Pending(w)
           n == IF Cardinality(S) < BatchSize THEN Cardinality(S) ELSE BatchSize
<1>1. S = Stored \ marked /\ S \subseteq Rows
  <2>1. Locked(w) = {}
    BY DEF Locked
  <2> QED
    BY <2>1, StoredRows DEF Pending, Visible
<1>2. n \in Nat
  BY <1>1, RowsAssumption, RelayAssumption, FS_Subset, FS_CardinalityType
<1>3. /\ b \in [1..n -> S]
      /\ \A i, j \in 1..n : i < j => CreatedAt(b[i]) <= CreatedAt(b[j])
      /\ \A x \in S \ Elements(b) : CreatedAt(b[n]) <= CreatedAt(x)
  BY DEF Batches
<1> HIDE DEF n, S
<1>4. p \in 1..n /\ DOMAIN b = 1..n /\ b[p] \in S /\ b[p] \in Rows
  BY <1>1, <1>3
<1>5. CASE r \in marked
  BY <1>5 DEF RelayInv, MarkedIsPublished
<1>6. CASE r \notin marked
  <2>1. r \in S
    <3>1. PICK i \in DOMAIN stored : r \in stored[i]
      BY DEF Before
    <3> QED
      BY <1>1, <1>6, <3>1 DEF Stored, Elements
  <2>2. /\ CreatedAt(r) \in Nat /\ CreatedAt(b[p]) \in Nat
        /\ CreatedAt(r) < CreatedAt(b[p])
    BY <1>4, CreatedBefore
  <2>3. r \in Elements(b)
    <3> SUFFICES ASSUME r \notin Elements(b) PROVE FALSE
      OBVIOUS
    <3>1. CreatedAt(b[n]) <= CreatedAt(r)
      BY <1>3, <2>1
    <3>2. CASE p = n
      BY <2>2, <3>1, <3>2
    <3>3. CASE p < n
      <4>1. n \in 1..n
        BY <1>2, <1>4
      <4>2. CreatedAt(b[p]) <= CreatedAt(b[n])
        BY <1>3, <1>4, <3>3, <4>1
      <4>3. Before(r, b[p]) /\ b[n] \in Rows
        BY <1>1, <1>3, <4>1
      <4>4. CreatedAt(b[n]) \in Nat
        <5>1. PICK i \in DOMAIN stored : b[n] \in stored[i]
          BY <1>1, <1>3, <4>1 DEF Stored, Elements
        <5>2. PICK j \in DOMAIN begun : b[n] \in begun[j]
          BY <5>1 DEF WritersInv, StoredBegun, Elements
        <5> QED
          BY <5>2, CreatedWhenBegun
      <4> QED
        BY <2>2, <3>1, <4>2, <4>4
    <3> QED
      BY <1>2, <1>4, <3>2, <3>3
  <2>4. PICK q \in DOMAIN b : b[q] = r
    BY <2>3 DEF Elements
  <2>5. q < p
    <3> SUFFICES ASSUME ~(q < p) PROVE FALSE
      OBVIOUS
    <3>1. q = p \/ p < q
      BY <1>2, <1>4
    <3>2. p < q => CreatedAt(b[p]) <= CreatedAt(b[q])
      BY <1>3, <1>4
    <3> QED
      BY <2>2, <2>4, <3>1, <3>2
  <2> QED
    BY <2>4, <2>5
<1> QED
  BY <1>5, <1>6

(* A worker that is done with a row, because Kafka has it or will never    *)
(* take it, can go on with the next.                                       *)
LEMMA TailIsReady ==
  ASSUME NEW w \in Workers, batch[w] \in Seq(Rows), batch[w] # << >>,
         NEW x \in Rows, x = Row(w), Published(x)' \/ KeyOf[x] \in Down,
         batch'[w] = Tail(batch[w]), stored' = stored,
         \A r \in Rows : Published(r) => Published(r)',
         Ready(w)
  PROVE  Ready(w)'
<1>1. PICK b \in Seq(Rows) : b = batch[w] /\ b # << >>
  OBVIOUS
<1>2. /\ DOMAIN b = 1..Len(b) /\ Len(b) \in Nat
      /\ DOMAIN Tail(b) = 1..(Len(b) - 1)
      /\ b[1] = x
      /\ \A i \in DOMAIN Tail(b) : i + 1 \in DOMAIN b /\ Tail(b)[i] = b[i + 1]
  BY <1>1, TailIndex DEF Row
<1>6. ASSUME NEW p \in DOMAIN Tail(b), NEW s, s = Tail(b)[p],
             KeyOf[s] \notin Down, NEW r \in Rows, Before(r, s)
      PROVE  Published(r)' \/ \E q \in DOMAIN Tail(b) : q < p /\ Tail(b)[q] = r
  <2>1. b[p + 1] = s /\ p + 1 \in DOMAIN b
    BY <1>2, <1>6
  <2>2. CASE Published(r)
    BY <2>2
  <2>3. CASE ~Published(r)
    <3>1. PICK q \in DOMAIN b : q < p + 1 /\ b[q] = r
      BY <1>1, <1>6, <2>1, <2>3 DEF Ready
    <3>2. CASE q = 1
      BY <1>2, <1>6, <3>1, <3>2 DEF Before
    <3>3. CASE q # 1
      <4>1. q - 1 \in DOMAIN Tail(b) /\ q - 1 < p
        BY <1>2, <1>6, <3>1, <3>3
      <4>2. Tail(b)[q - 1] = b[(q - 1) + 1] /\ (q - 1) + 1 = q
        BY <1>2, <4>1
      <4> QED
        BY <3>1, <4>1, <4>2
    <3> QED
      BY <3>2, <3>3
  <2> QED
    BY <2>2, <2>3
<1>7. ASSUME NEW p \in DOMAIN batch'[w], KeyOf[batch'[w][p]] \notin Down,
             NEW r \in Rows, Before(r, batch[w][p])'
      PROVE  Published(r)' \/ \E q \in DOMAIN batch'[w] : q < p /\ batch'[w][q] = r
  <2>1. batch'[w] = Tail(b)
    BY <1>1
  <2>2. PICK s : s = batch'[w][p]
    OBVIOUS
  <2>3. Before(r, s)
    BY <1>7, <2>2 DEF Before
  <2>4. p \in DOMAIN Tail(b) /\ s = Tail(b)[p] /\ KeyOf[s] \notin Down
    BY <1>7, <2>1, <2>2
  <2>5. Published(r)' \/ \E q \in DOMAIN Tail(b) : q < p /\ Tail(b)[q] = r
    BY <1>6, <2>3, <2>4, Zenon
  <2> QED
    BY <2>1, <2>5, Zenon
<1> QED
  BY <1>7, Zenon DEF Ready

LEMMA OrderKept ==
  ASSUME \A v, w \in Workers : v = w
  PROVE  TypeOK /\ RelayInv /\ WritersInv /\ OrderInv /\ [Next]_vars => OrderInv'
<1> SUFFICES ASSUME TypeOK, RelayInv, WritersInv, OrderInv, [Next]_vars PROVE OrderInv'
  OBVIOUS
<1> USE DEF outbox, worker
<1>b. \A w \in Workers : \A p \in DOMAIN batch[w] :
        batch[w][p] \in Rows /\ batch[w][p] \in Stored
  BY StoredRows DEF RelayInv, Elements
<1>q. ASSUME UNCHANGED <<stored, log, outages>>,
             \A w \in Workers : batch'[w] = batch[w] \/ batch'[w] = << >>
      PROVE  OrderInv'
  <2>1. Preceded => Preceded'
    BY <1>q DEF Preceded, Before
  <2>2. ASSUME NEW w \in Workers, Ready(w) PROVE Ready(w)'
    <3>1. CASE batch'[w] = << >>
      BY <3>1 DEF Ready
    <3>2. CASE batch'[w] = batch[w]
      BY <1>q, <2>2, <3>2 DEF Ready, Before, Published
    <3> QED
      BY <1>q, <3>1, <3>2
  <2> QED
    BY <1>q, <2>1, <2>2 DEF OrderInv
<1>1. ASSUME NEW t \in Transactions, Commit(t) PROVE OrderInv'
  <2>1. UNCHANGED <<log, batch, outages>>
    BY <1>1 DEF Commit
  <2>2. \A r \in Rows, s \in Stored : Before(r, s)' => Before(r, s)
    BY <1>1, CommitIsLast
  <2>3. Preceded => Preceded'
    <3> SUFFICES ASSUME Preceded, NEW r \in Rows, NEW s \in Rows, Before(r, s)',
                        NEW j \in DOMAIN log[KeyOf[s]], log[KeyOf[s]][j] = s
                 PROVE  \E i \in DOMAIN log[KeyOf[s]] : i < j /\ log[KeyOf[s]][i] = r
      BY <2>1 DEF Preceded
    <3>1. s \in Stored
      BY RowsAssumption DEF RelayInv, OnlyCommittedIsPublished, Elements
    <3> QED
      BY <2>2, <3>1 DEF Preceded
  <2>4. ASSUME NEW w \in Workers, Ready(w) PROVE Ready(w)'
    <3> SUFFICES ASSUME NEW p \in DOMAIN batch[w], NEW s, s = batch[w][p],
                        KeyOf[s] \notin Down, NEW r \in Rows, Before(r, s)'
                 PROVE  \/ Published(r)'
                        \/ \E q \in DOMAIN batch[w] : q < p /\ batch[w][q] = r
      BY <2>1 DEF Ready, Before
    <3>1. Before(r, s)
      BY <1>b, <2>2
    <3>2. Published(r)' <=> Published(r)
      BY <2>1 DEF Published
    <3> QED
      BY <2>4, <3>1, <3>2 DEF Ready
  <2> QED
    BY <2>1, <2>3, <2>4 DEF OrderInv
<1>2. ASSUME NEW w \in Workers, Fetch(w) PROVE OrderInv'
  <2>1. PICK b \in Batches(Pending(w)) : batch' = [batch EXCEPT ![w] = b]
    BY <1>2 DEF Fetch
  <2>2. UNCHANGED <<stored, log, outages>>
    BY <1>2 DEF Fetch
  <2>3. Preceded => Preceded'
    BY <2>2 DEF Preceded, Before
  <2>4. ASSUME NEW v \in Workers PROVE Ready(v)'
    <3>1. v = w /\ batch'[v] = b
      BY <2>1 DEF TypeOK
    <3>2. \A p \in DOMAIN b, r \in Rows : Before(r, b[p]) =>
            Published(r) \/ \E q \in DOMAIN b : q < p /\ b[q] = r
      BY FetchIsReady
    <3> QED
      BY <2>2, <3>1, <3>2 DEF Ready, Before, Published
  <2> QED
    BY <2>2, <2>3, <2>4 DEF OrderInv
<1>3. ASSUME NEW w \in Workers, Publish(w) PROVE OrderInv'
  <2>1. batch[w] \in Seq(Rows) /\ batch[w] # << >>
    BY <1>3 DEF Publish, TypeOK
  <2>2. PICK x \in Rows : x = Row(w)
    BY <2>1, TailElements, SeqElements DEF Row
  <2>3. Deliver(x) /\ KeyOf[x] \notin Down /\ UNCHANGED <<stored, outages>>
    BY <1>3, <2>2 DEF Publish
  <2>4. batch' = [batch EXCEPT ![w] = Tail(batch[w])]
    BY <1>3 DEF Publish
  <2>5. Published(x)' /\ \A r \in Rows : Published(r) => Published(r)'
    BY <2>3, PublishedStays
  <2>6. Ready(w) => Ready(w)'
    BY <2>1, <2>2, <2>3, <2>4, <2>5, TailIsReady DEF TypeOK
  <2>7. ASSUME Preceded, Ready(w) PROVE Preceded'
    <3>1. \A r \in Rows : Before(r, x) => Published(r)
      <4>1. 1 \in DOMAIN batch[w] /\ batch[w][1] = x
        BY <2>1, <2>2, TailIndex DEF Row
      <4>2. \A q \in DOMAIN batch[w] : ~(q < 1)
        BY <2>1
      <4> QED
        BY <2>3, <2>7, <4>1, <4>2 DEF Ready
    <3> SUFFICES ASSUME NEW r \in Rows, NEW s \in Rows, Before(r, s),
                        NEW j \in DOMAIN log'[KeyOf[s]], log'[KeyOf[s]][j] = s
                 PROVE  \E i \in DOMAIN log'[KeyOf[s]] : i < j /\ log'[KeyOf[s]][i] = r
      BY <2>3 DEF Preceded, Before
    <3>2. PICK k \in Keys : k = KeyOf[s]
      BY RowsAssumption
    <3>3. PICK L \in Seq(Rows) : L = log[k]
      BY DEF TypeOK
    <3>4. CASE k # KeyOf[x]
      <4>1. log'[k] = L
        BY <2>3, <3>3, <3>4 DEF Deliver, TypeOK
      <4> QED
        BY <2>7, <3>2, <3>3, <4>1 DEF Preceded
    <3>5. CASE k = KeyOf[x]
      <4>1. log'[k] = Append(L, x)
        BY <2>3, <3>3, <3>5 DEF Deliver, TypeOK
      <4>2. /\ Len(L) \in Nat /\ DOMAIN L = 1..Len(L)
            /\ Append(L, x)[Len(L) + 1] = x
            /\ \A i \in DOMAIN L : i \in DOMAIN Append(L, x) /\ Append(L, x)[i] = L[i]
            /\ \A i \in DOMAIN Append(L, x) : i \in DOMAIN L \/ i = Len(L) + 1
        BY AppendIndex
      <4>3. CASE j \in DOMAIN L
        <5>1. L[j] = s
          BY <3>2, <4>1, <4>2, <4>3
        <5>2. PICK i \in DOMAIN L : i < j /\ L[i] = r
          BY <2>7, <3>2, <3>3, <4>3, <5>1 DEF Preceded
        <5> QED
          BY <3>2, <4>1, <4>2, <5>2
      <4>4. CASE j = Len(L) + 1
        <5>1. s = x
          BY <3>2, <4>1, <4>2, <4>4
        <5>2. Published(r) /\ KeyOf[r] = k
          BY <3>1, <3>2, <5>1 DEF Before
        <5>3. PICK i \in DOMAIN L : L[i] = r
          BY <3>3, <5>2 DEF Published, Elements
        <5>4. i < j
          BY <4>2, <4>4
        <5> QED
          BY <3>2, <4>1, <4>2, <5>3, <5>4
      <4> QED
        BY <3>2, <4>1, <4>2, <4>3, <4>4
    <3> QED
      BY <3>4, <3>5
  <2>8. \A v \in Workers : v = w
    OBVIOUS
  <2> QED
    BY <2>3, <2>6, <2>7, <2>8 DEF OrderInv
<1>4. ASSUME NEW w \in Workers, PublishFails(w) PROVE OrderInv'
  <2>1. batch[w] \in Seq(Rows) /\ batch[w] # << >>
    BY <1>4 DEF PublishFails, TypeOK
  <2>2. PICK x \in Rows : x = Row(w)
    BY <2>1, TailElements, SeqElements DEF Row
  <2>3. CASE outages' = outages + 1
    BY <2>3 DEF OrderInv, TypeOK
  <2>4. CASE KeyOf[x] \in Down /\ UNCHANGED <<log, outages>>
    <3>1. UNCHANGED stored /\ batch' = [batch EXCEPT ![w] = Tail(batch[w])]
      BY <1>4 DEF PublishFails
    <3>2. \A r \in Rows : Published(r) => Published(r)'
      BY <2>4 DEF Published
    <3>3. Ready(w) => Ready(w)'
      BY <2>1, <2>2, <2>4, <3>1, <3>2, TailIsReady DEF TypeOK
    <3>4. Preceded => Preceded'
      BY <2>4, <3>1 DEF Preceded, Before
    <3>5. \A v \in Workers : v = w
      OBVIOUS
    <3> QED
      BY <2>4, <3>3, <3>4, <3>5 DEF OrderInv
  <2> QED
    BY <1>4, <2>2, <2>3, <2>4 DEF PublishFails
<1>5. ASSUME NEW t \in Transactions, Begin(t) \/ Rollback(t) PROVE OrderInv'
  BY <1>5, <1>q DEF Begin, Rollback
<1>6. ASSUME NEW w \in Workers, EndFetch(w) \/ Mark(w) \/ Abandon(w) PROVE OrderInv'
  BY <1>6, <1>q DEF EndFetch, Mark, Abandon, Return, TypeOK
<1>7. CASE UNCHANGED vars
  BY <1>7, <1>q DEF vars
<1> QED
  BY <1>1, <1>2, <1>3, <1>4, <1>5, <1>6, <1>7 DEF Next, WorkerStep

(* First finds the first copy. *)
LEMMA LeastIndex ==
  ASSUME NEW S, NEW L \in Seq(S), NEW x \in Elements(L),
         NEW f, f = CHOOSE i \in DOMAIN L :
                      /\ L[i] = x
                      /\ \A j \in DOMAIN L : L[j] = x => i <= j
  PROVE  f \in DOMAIN L /\ L[f] = x /\ \A j \in DOMAIN L : L[j] = x => f <= j
<1> DEFINE T == {i \in DOMAIN L : L[i] = x}
<1>1. T \subseteq Nat /\ T # {}
  BY DEF Elements
<1>2. PICK i \in T : \A j \in T : <<j, i>> \notin OpToRel(<, Nat)
  <2> HIDE DEF T
  <2> QED
    BY <1>1, NatLessThanWellFounded, WFMin
<1>3. \A j \in T : i <= j
  <2> SUFFICES ASSUME NEW j \in T PROVE i <= j
    OBVIOUS
  <2>1. ~(j < i)
    BY <1>1, <1>2 DEF OpToRel
  <2> QED
    BY <1>1, <2>1
<1> QED
  BY <1>3

LEMMA PrecededIsOrder ==
  ASSUME TypeOK, RelayInv, Preceded PROVE KeyOrder
<1> SUFFICES ASSUME NEW i \in DOMAIN stored, NEW j \in DOMAIN stored, i < j,
                    NEW r \in stored[i], NEW s \in stored[j],
                    KeyOf[r] = KeyOf[s], Published(s)
             PROVE  Published(r) /\ First(r) < First(s)
  BY DEF KeyOrder
<1>1. r \in Rows /\ s \in Rows /\ Before(r, s)
  <2>1. stored[i] \in Transactions /\ stored[j] \in Transactions
    BY DEF TypeOK
  <2> QED
    BY <2>1, RowsAssumption DEF Before
<1>2. PICK L \in Seq(Rows) : L = log[KeyOf[s]]
  BY <1>1, RowsAssumption DEF TypeOK
<1>3. First(s) \in DOMAIN L /\ L[First(s)] = s
  BY <1>2, LeastIndex DEF First, Published
<1>4. PICK p \in DOMAIN L : p < First(s) /\ L[p] = r
  BY <1>1, <1>2, <1>3 DEF Preceded
<1>5. r \in Elements(L)
  BY <1>4 DEF Elements
<1>6. First(r) \in DOMAIN L /\ First(r) <= p
  BY <1>2, <1>4, <1>5, LeastIndex DEF First
<1>7. First(r) < First(s)
  BY <1>3, <1>4, <1>6
<1> QED
  BY <1>2, <1>5, <1>7 DEF Published

(* With one replica of the relay, and writers of one key that do not       *)
(* overlap, the rows of a key are first seen in the order of their         *)
(* commits, whatever crashes, lost marks or dead topics there are, as long *)
(* as no send to a live topic fails (worker.go, processOnce).              *)
THEOREM OneWorkerKeepsOrder ==
  ASSUME SerialWriters, \A v, w \in Workers : v = w
  PROVE  SafeSpec => []KeyOrderWithoutOutage
<1>1. Init => OrderInv
  BY DEF Init, OrderInv, Preceded, Ready, Before
<1>2. TypeOK /\ WritersInv /\ [Next]_vars => WritersInv'
  BY WritersKept
<1>3. TypeOK /\ RelayInv /\ WritersInv /\ OrderInv /\ [Next]_vars => OrderInv'
  BY OrderKept
<1>4. TypeOK /\ RelayInv /\ OrderInv => KeyOrderWithoutOutage
  BY PrecededIsOrder DEF OrderInv, KeyOrderWithoutOutage
<1> QED
  BY <1>1, <1>2, <1>3, <1>4, WritersInit, TypeCorrect, Inductive, PTL DEF SafeSpec

-----------------------------------------------------------------------------
(***************************************************************************)
(* How often a message is repeated.  With one worker, a row is fetched     *)
(* again only when a fault has kept it from being marked: a failed send,   *)
(* or the loss of publishedIDs.                                            *)
(***************************************************************************)
Copies(r) == {i \in DOMAIN log[KeyOf[r]] : log[KeyOf[r]][i] = r}

(* What will not be sent again unless a fault happens. *)
Handled == marked \cup UNION {sent[w] : w \in Workers}

BatchFresh ==
  \A w \in Workers :
    /\ \A p, q \in DOMAIN batch[w] : batch[w][p] = batch[w][q] => p = q
    /\ \A p \in DOMAIN batch[w] : batch[w][p] \notin Handled

CopiesCounted ==
  \A r \in Rows :
    Cardinality(Copies(r)) + (IF r \in Handled THEN 0 ELSE 1) <= 1 + failures + outages

(* One fault costs one extra copy of a row at most. *)
OneCopyPerFault == \A r \in Rows : Cardinality(Copies(r)) <= 1 + failures + outages

LEMMA CopiesFinite ==
  ASSUME TypeOK, NEW r \in Rows
  PROVE  IsFiniteSet(Copies(r)) /\ Cardinality(Copies(r)) \in Nat
<1>1. PICK L \in Seq(Rows) : L = log[KeyOf[r]]
  BY RowsAssumption DEF TypeOK
<1>2. Copies(r) \subseteq 1..Len(L) /\ Len(L) \in Nat
  BY <1>1 DEF Copies
<1>3. IsFiniteSet(1..Len(L))
  BY <1>2, FS_Interval
<1> QED
  BY <1>2, <1>3, FS_Subset, FS_CardinalityType

(* A delivery adds one copy of its row, and none of another. *)
LEMMA DeliverCopies ==
  ASSUME TypeOK, NEW x \in Rows, Deliver(x), NEW r \in Rows
  PROVE  Cardinality(Copies(r)') = Cardinality(Copies(r)) + IF r = x THEN 1 ELSE 0
<1> USE RowsAssumption DEF TypeOK
<1>1. PICK L \in Seq(Rows) : L = log[KeyOf[r]]
  OBVIOUS
<1>2. Copies(r) = {i \in DOMAIN L : L[i] = r}
  BY <1>1 DEF Copies
<1>3. CASE KeyOf[r] # KeyOf[x]
  <2>1. log'[KeyOf[r]] = L
    BY <1>1, <1>3 DEF Deliver
  <2>2. Copies(r)' = Copies(r) /\ r # x
    BY <1>1, <1>3, <2>1 DEF Copies
  <2> QED
    BY <2>2, CopiesFinite
<1>4. CASE KeyOf[r] = KeyOf[x]
  <2>1. log'[KeyOf[r]] = Append(L, x)
    BY <1>1, <1>4 DEF Deliver
  <2>2. Copies(r)' = {i \in DOMAIN Append(L, x) : Append(L, x)[i] = r}
    BY <2>1 DEF Copies
  <2>3. /\ Len(L) \in Nat /\ DOMAIN L = 1..Len(L)
        /\ DOMAIN Append(L, x) = 1..(Len(L) + 1)
        /\ Append(L, x)[Len(L) + 1] = x
        /\ \A i \in DOMAIN L : i \in DOMAIN Append(L, x) /\ Append(L, x)[i] = L[i]
        /\ \A i \in DOMAIN Append(L, x) : i \in DOMAIN L \/ i = Len(L) + 1
    BY AppendIndex
  <2>4. Len(L) + 1 \notin Copies(r)
    BY <1>2, <2>3
  <2>5. CASE r = x
    <3>1. Copies(r)' = Copies(r) \cup {Len(L) + 1}
      BY <1>2, <2>2, <2>3, <2>5
    <3>2. Cardinality(Copies(r) \cup {Len(L) + 1}) = Cardinality(Copies(r)) + 1
      BY <2>4, CopiesFinite, FS_AddElement
    <3> QED
      BY <2>5, <3>1, <3>2
  <2>6. CASE r # x
    <3>1. Copies(r)' = Copies(r)
      BY <1>2, <2>2, <2>3, <2>6
    <3> QED
      BY <2>6, <3>1, CopiesFinite
  <2> QED
    BY <2>5, <2>6
<1> QED
  BY <1>3, <1>4

LEMMA CopiesKept ==
  ASSUME \A v, w \in Workers : v = w
  PROVE  TypeOK /\ BatchFresh /\ CopiesCounted /\ [Next]_vars => (BatchFresh /\ CopiesCounted)'
<1> SUFFICES ASSUME TypeOK, BatchFresh, CopiesCounted, [Next]_vars
             PROVE  (BatchFresh /\ CopiesCounted)'
  OBVIOUS
<1> USE DEF outbox, worker
<1>a. failures \in Nat /\ outages \in Nat
  BY RelayAssumption DEF TypeOK
<1>s. \A w \in Workers : Handled = marked \cup sent[w] /\ Handled' = marked' \cup sent'[w]
  BY DEF Handled
<1>q. ASSUME UNCHANGED <<log, failures, outages>>, Handled \subseteq Handled'
      PROVE  CopiesCounted'
  <2> SUFFICES ASSUME NEW r \in Rows
               PROVE  Cardinality(Copies(r)) + (IF r \in Handled' THEN 0 ELSE 1)
                        <= 1 + failures + outages
    BY <1>q DEF CopiesCounted, Copies
  <2>1. Cardinality(Copies(r)) + (IF r \in Handled THEN 0 ELSE 1) <= 1 + failures + outages
    BY DEF CopiesCounted
  <2>2. Cardinality(Copies(r)) \in Nat
    BY CopiesFinite
  <2> QED
    BY <1>q, <2>1, <2>2, <1>a
<1>1. ASSUME UNCHANGED <<marked, log, batch, sent, failures, outages>>
      PROVE  (BatchFresh /\ CopiesCounted)'
  <2>1. Handled' = Handled
    BY <1>1 DEF Handled
  <2> QED
    BY <1>1, <1>q, <2>1 DEF BatchFresh
<1>2. ASSUME NEW w \in Workers, Fetch(w) PROVE (BatchFresh /\ CopiesCounted)'
  <2>1. PICK b \in Batches(Pending(w)) : batch' = [batch EXCEPT ![w] = b]
    BY <1>2 DEF Fetch
  <2>2. UNCHANGED <<marked, log, sent, failures, outages>> /\ sent[w] = {}
    BY <1>2 DEF Fetch, TypeOK
  <2>3. Handled' = Handled /\ Handled = marked
    BY <1>s, <2>2
  <2>4. PICK n \in Nat : /\ b \in [1..n -> Pending(w)]
                         /\ \A i, j \in 1..n : i < j => b[i] # b[j]
    <3>1. Pending(w) \subseteq Rows
      BY StoredRows DEF Pending, Visible
    <3>2. Cardinality(Pending(w)) \in Nat
      BY <3>1, RowsAssumption, FS_Subset, FS_CardinalityType
    <3> QED
      BY <2>1, <3>2, RelayAssumption DEF Batches
  <2>5. \A v \in Workers : v = w /\ batch'[v] = b
    BY <2>1 DEF TypeOK
  <2>6. \A p, q \in DOMAIN b : b[p] = b[q] => p = q
    <3> SUFFICES ASSUME NEW p \in 1..n, NEW q \in 1..n, b[p] = b[q] PROVE p = q
      BY <2>4
    <3>1. p < q \/ q < p \/ p = q
      OBVIOUS
    <3> QED
      BY <2>4, <3>1
  <2>7. \A p \in DOMAIN b : b[p] \notin marked
    BY <2>4 DEF Pending
  <2>8. BatchFresh'
    BY <2>3, <2>5, <2>6, <2>7 DEF BatchFresh
  <2> QED
    BY <2>2, <2>3, <2>8, <1>q
<1>3. ASSUME NEW w \in Workers, Publish(w) \/ PublishFails(w)
      PROVE  (BatchFresh /\ CopiesCounted)'
  <2>1. batch[w] \in Seq(Rows) /\ batch[w] # << >>
    BY <1>3 DEF Publish, PublishFails, TypeOK
  <2>2. PICK x \in Rows : x = Row(w)
    BY <2>1, TailElements, SeqElements DEF Row
  <2>3. PICK b \in Seq(Rows) : b = batch[w] /\ b # << >>
    BY <2>1
  <2>4. /\ Len(b) \in Nat \ {0} /\ DOMAIN b = 1..Len(b) /\ DOMAIN Tail(b) = 1..(Len(b) - 1)
        /\ b[1] = x
        /\ \A i \in DOMAIN Tail(b) : i + 1 \in DOMAIN b /\ Tail(b)[i] = b[i + 1]
    BY <2>2, <2>3, TailIndex DEF Row
  <2>5. UNCHANGED <<marked, failures>> /\ \A v \in Workers : v = w /\ batch'[v] = Tail(b)
    BY <1>3, <2>3 DEF Publish, PublishFails, TypeOK
  <2>6. Handled' \in {Handled, Handled \cup {x}} /\ Handled \subseteq Handled'
    <3>1. sent'[w] \in {sent[w], sent[w] \cup {x}}
      BY <1>3, <2>2 DEF Publish, PublishFails, TypeOK
    <3> QED
      BY <1>s, <2>5, <3>1
  <2>7. /\ \A p, q \in DOMAIN b : b[p] = b[q] => p = q
        /\ \A p \in DOMAIN b : b[p] \notin Handled
    BY <2>3 DEF BatchFresh
  <2>8. BatchFresh'
    <3>1. \A p, q \in DOMAIN Tail(b) : Tail(b)[p] = Tail(b)[q] => p = q
      BY <2>4, <2>7
    <3>2. ASSUME NEW p \in DOMAIN Tail(b) PROVE Tail(b)[p] \notin Handled'
      <4>1. p + 1 \in DOMAIN b /\ Tail(b)[p] = b[p + 1] /\ p + 1 # 1 /\ 1 \in DOMAIN b
        BY <2>4
      <4>2. b[p + 1] # x /\ b[p + 1] \notin Handled
        BY <2>4, <2>7, <4>1
      <4> QED
        BY <2>6, <4>1, <4>2
    <3> QED
      BY <2>5, <3>1, <3>2 DEF BatchFresh
  <2>9. x \notin Handled
    BY <2>4, <2>7
  <2>10. CASE Publish(w)
    <3>1. Deliver(x) /\ UNCHANGED outages /\ x \in Handled'
      BY <1>s, <2>2, <2>10 DEF Publish, TypeOK
    <3>2. Handled' = Handled \cup {x}
      BY <2>6, <3>1
    <3> SUFFICES ASSUME NEW r \in Rows
                 PROVE  Cardinality(Copies(r)') + (IF r \in Handled' THEN 0 ELSE 1)
                          <= 1 + failures + outages
      BY <2>5, <2>8, <3>1 DEF CopiesCounted
    <3>3. Cardinality(Copies(r)') = Cardinality(Copies(r)) + IF r = x THEN 1 ELSE 0
      BY <3>1, DeliverCopies
    <3>4. Cardinality(Copies(r)) \in Nat
          /\ Cardinality(Copies(r)) + (IF r \in Handled THEN 0 ELSE 1) <= 1 + failures + outages
      BY CopiesFinite DEF CopiesCounted
    <3> QED
      BY <2>9, <3>2, <3>3, <3>4, <1>a
  <2>11. CASE PublishFails(w)
    <3>1. CASE UNCHANGED <<log, outages>>
      BY <2>5, <2>6, <2>8, <3>1, <1>q
    <3>2. CASE outages' = outages + 1 /\ (UNCHANGED log \/ Deliver(x))
      <4> SUFFICES ASSUME NEW r \in Rows
                   PROVE  Cardinality(Copies(r)') + (IF r \in Handled' THEN 0 ELSE 1)
                            <= 1 + failures + (outages + 1)
        BY <2>5, <2>8, <3>2 DEF CopiesCounted
      <4>1. Cardinality(Copies(r)') \in {Cardinality(Copies(r)), Cardinality(Copies(r)) + 1}
        <5>1. CASE UNCHANGED log
          BY <5>1 DEF Copies
        <5>2. CASE Deliver(x)
          <6>1. Cardinality(Copies(r)) \in Nat
            BY CopiesFinite
          <6> QED
            BY <5>2, <6>1, DeliverCopies
        <5> QED
          BY <3>2, <5>1, <5>2
      <4>2. Cardinality(Copies(r)) \in Nat
            /\ Cardinality(Copies(r)) + (IF r \in Handled THEN 0 ELSE 1)
                 <= 1 + failures + outages
        BY CopiesFinite DEF CopiesCounted
      <4> QED
        BY <2>6, <4>1, <4>2, <1>a
    <3> QED
      BY <2>2, <2>11, <3>1, <3>2 DEF PublishFails
  <2> QED
    BY <1>3, <2>10, <2>11
<1>4. ASSUME NEW w \in Workers, Mark(w) PROVE (BatchFresh /\ CopiesCounted)'
  <2>1. /\ UNCHANGED <<log, failures, outages>> /\ marked' = marked \cup sent[w]
        /\ \A v \in Workers : v = w /\ batch'[v] = << >>
    BY <1>4 DEF Mark, Return, TypeOK
  <2>2. Handled \subseteq Handled'
    BY <1>s, <2>1
  <2>3. BatchFresh'
    BY <2>1 DEF BatchFresh
  <2> QED
    BY <2>1, <2>2, <2>3, <1>q
<1>5. ASSUME NEW w \in Workers, Abandon(w) PROVE (BatchFresh /\ CopiesCounted)'
  <2>1. /\ UNCHANGED <<log, outages>> /\ failures' = failures + 1
        /\ \A v \in Workers : v = w /\ batch'[v] = << >>
    BY <1>5 DEF Abandon, Return, TypeOK
  <2>2. BatchFresh'
    BY <2>1 DEF BatchFresh
  <2> SUFFICES ASSUME NEW r \in Rows
               PROVE  Cardinality(Copies(r)) + (IF r \in Handled' THEN 0 ELSE 1)
                        <= 1 + (failures + 1) + outages
    BY <2>1, <2>2 DEF CopiesCounted, Copies
  <2>3. Cardinality(Copies(r)) \in Nat
        /\ Cardinality(Copies(r)) + (IF r \in Handled THEN 0 ELSE 1) <= 1 + failures + outages
    BY CopiesFinite DEF CopiesCounted
  <2> QED
    BY <2>3, <1>a
<1> QED
  BY <1>1, <1>2, <1>3, <1>4, <1>5
  DEF Next, WorkerStep, Begin, Commit, Rollback, EndFetch, vars

(* With one replica of the relay, a row is sent once, and once more at     *)
(* most for each crash, lost mark or failed send; without faults every     *)
(* message is in Kafka once (worker.go, processOnce).                      *)
THEOREM FaultsBoundCopies ==
  ASSUME \A v, w \in Workers : v = w
  PROVE  SafeSpec => []OneCopyPerFault
<1>1. Init => BatchFresh /\ CopiesCounted
  <2> SUFFICES ASSUME Init, NEW r \in Rows
               PROVE  Cardinality(Copies(r)) + (IF r \in Handled THEN 0 ELSE 1)
                        <= 1 + failures + outages
    BY DEF Init, BatchFresh, CopiesCounted
  <2>1. Copies(r) = {}
    BY RowsAssumption DEF Init, Copies
  <2> QED
    BY <2>1, FS_EmptySet DEF Init
<1>2. TypeOK /\ CopiesCounted => OneCopyPerFault
  <2> SUFFICES ASSUME TypeOK, CopiesCounted, NEW r \in Rows
               PROVE  Cardinality(Copies(r)) <= 1 + failures + outages
    BY DEF OneCopyPerFault
  <2>1. Cardinality(Copies(r)) \in Nat /\ failures \in Nat /\ outages \in Nat
    BY CopiesFinite, RelayAssumption DEF TypeOK
  <2> QED
    BY <2>1 DEF CopiesCounted
<1>3. TypeOK /\ BatchFresh /\ CopiesCounted /\ [Next]_vars => (BatchFresh /\ CopiesCounted)'
  BY CopiesKept
<1> QED
  BY <1>1, <1>2, <1>3, TypeCorrect, PTL DEF SafeSpec

=============================================================================
