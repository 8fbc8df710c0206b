---------------------------- MODULE OutboxRelay ----------------------------
(***************************************************************************)
(* The outbox pattern: business transactions write rows to the outbox      *)
(* table, and one worker per replica (pkg/outbox) polls the table, sends   *)
(* the rows to Kafka and marks them.                                       *)
(*                                                                         *)
(* A row is sent under a key, and the rows of one key go to one partition. *)
(* PostgreSQL's now() is the time a transaction began, so created_at is    *)
(* modelled by the order of BEGIN; rows of one transaction tie.            *)
(***************************************************************************)
EXTENDS Naturals, Sequences, FiniteSets

CONSTANTS
  Rows,          \* outbox rows
  Keys,          \* topic and message key
  KeyOf,         \* the key of each row
  Transactions,  \* the business transactions: disjoint sets of rows
  SerialWriters, \* whether transactions that write to one key never overlap
  Workers,
  BatchSize,     \* the LIMIT of FetchPending
  Down,          \* keys whose topic or partition never accepts a message
  MaxFailures    \* bound on each kind of fault

ASSUME RowsAssumption ==
  /\ IsFiniteSet(Rows)
  /\ KeyOf \in [Rows -> Keys]
  /\ Transactions \subseteq SUBSET Rows
  /\ \A t, u \in Transactions : t \cap u # {} => t = u
ASSUME RelayAssumption ==
  /\ SerialWriters \in BOOLEAN
  /\ BatchSize \in Nat \ {0}
  /\ Down \subseteq Keys
  /\ MaxFailures \in Nat

VARIABLES
  begun,      \* transactions in the order of BEGIN
  stored,     \* transactions in the order of COMMIT
  aborted,    \* transactions rolled back
  marked,     \* rows with a published_at
  log,        \* what each key's partition holds of it
  pc,
  batch,      \* rows a worker has fetched and not yet tried to send
  sent,       \* publishedIDs
  failures,   \* crashes and database errors so far
  outages     \* failed sends so far

outbox == <<begun, stored, aborted>>
worker == <<pc, batch, sent>>
vars == <<outbox, marked, log, worker, failures, outages>>

Elements(s) == {s[i] : i \in DOMAIN s}
Open == Elements(begun) \ (Elements(stored) \cup aborted)
Stored == UNION Elements(stored)
Published(r) == r \in Elements(log[KeyOf[r]])

(* created_at *)
CreatedAt(r) == CHOOSE i \in DOMAIN begun : r \in begun[i]

Init ==
  /\ begun = << >> /\ stored = << >> /\ aborted = {}
  /\ marked = {}
  /\ log = [k \in Keys |-> << >>]
  /\ pc = [w \in Workers |-> "idle"]
  /\ batch = [w \in Workers |-> << >>]
  /\ sent = [w \in Workers |-> {}]
  /\ failures = 0 /\ outages = 0

(***************************************************************************)
(* Business transactions.                                                  *)
(***************************************************************************)
Overlap(t, u) == \E r \in t, s \in u : KeyOf[r] = KeyOf[s]

Begin(t) ==
  /\ t \notin Elements(begun)
  /\ SerialWriters => \A u \in Open : ~Overlap(t, u)
  /\ begun' = Append(begun, t)
  /\ UNCHANGED <<stored, aborted, marked, log, worker, failures, outages>>

Commit(t) ==
  /\ t \in Open
  /\ stored' = Append(stored, t)
  /\ UNCHANGED <<begun, aborted, marked, log, worker, failures, outages>>

Rollback(t) ==
  /\ t \in Open
  /\ aborted' = aborted \cup {t}
  /\ UNCHANGED <<begun, stored, marked, log, worker, failures, outages>>

(***************************************************************************)
(* The worker (Worker.processOnce).                                        *)
(***************************************************************************)
(* Mutant: the outbox row is written outside the business transaction. *)
Visible_AtOnce == UNION Elements(begun)

(* Rows a query sees: those of committed transactions. *)
Visible == Stored

(* FOR UPDATE locks rows until the SELECT ends: it runs on the pool, in a  *)
(* transaction of its own.                                                 *)
Locked(w) == UNION {Elements(batch[v]) : v \in {u \in Workers \ {w} : pc[u] = "fetch"}}

Pending(w) == (Visible \ marked) \ Locked(w)

(* Mutant: no ORDER BY. *)
Batches_Unordered(S) ==
  LET n == IF Cardinality(S) < BatchSize THEN Cardinality(S) ELSE BatchSize IN
  {b \in [1..n -> S] : \A i, j \in 1..n : i < j => b[i] # b[j]}

(* The orders in which ORDER BY created_at LIMIT BatchSize may return S. *)
Batches(S) ==
  LET n == IF Cardinality(S) < BatchSize THEN Cardinality(S) ELSE BatchSize IN
  {b \in [1..n -> S] :
     /\ \A i, j \in 1..n : i < j => b[i] # b[j] /\ CreatedAt(b[i]) <= CreatedAt(b[j])
     /\ \A r \in S \ Elements(b) : CreatedAt(b[n]) <= CreatedAt(r)}

(* FetchPending: the SELECT takes its locks ... *)
Fetch(w) ==
  /\ pc[w] = "idle"
  /\ Pending(w) # {}
  /\ \E b \in Batches(Pending(w)) : batch' = [batch EXCEPT ![w] = b]
  /\ pc' = [pc EXCEPT ![w] = "fetch"]
  /\ UNCHANGED <<outbox, marked, log, sent, failures, outages>>

(* ... and releases them when it ends. *)
EndFetch(w) ==
  /\ pc[w] = "fetch"
  /\ pc' = [pc EXCEPT ![w] = "send"]
  /\ UNCHANGED <<outbox, marked, log, batch, sent, failures, outages>>

Row(w) == Head(batch[w])
Deliver(r) == log' = [log EXCEPT ![KeyOf[r]] = Append(@, r)]

Publish(w) ==
  /\ pc[w] = "send"
  /\ batch[w] # << >>
  /\ KeyOf[Row(w)] \notin Down
  /\ Deliver(Row(w))
  /\ sent' = [sent EXCEPT ![w] = @ \cup {Row(w)}]
  /\ batch' = [batch EXCEPT ![w] = Tail(@)]
  /\ UNCHANGED <<outbox, marked, pc, failures, outages>>

(* Mutant: a row that could not be sent is marked with the others. *)
PublishFails_Counted(w) ==
  /\ pc[w] = "send"
  /\ batch[w] # << >>
  /\ \/ KeyOf[Row(w)] \in Down /\ UNCHANGED outages
     \/ outages < MaxFailures /\ outages' = outages + 1
  /\ sent' = [sent EXCEPT ![w] = @ \cup {Row(w)}]
  /\ batch' = [batch EXCEPT ![w] = Tail(@)]
  /\ UNCHANGED <<outbox, marked, log, pc, failures>>

(* Mutant: break instead of continue. *)
PublishFails_Break(w) ==
  /\ pc[w] = "send"
  /\ batch[w] # << >>
  /\ \/ KeyOf[Row(w)] \in Down /\ UNCHANGED outages
     \/ outages < MaxFailures /\ outages' = outages + 1
  /\ batch' = [batch EXCEPT ![w] = << >>]
  /\ UNCHANGED <<outbox, marked, log, sent, pc, failures>>

(* The error is logged and the worker goes on with the next row.  When the *)
(* answer of the broker was lost, the message is in the log all the same.  *)
PublishFails(w) ==
  /\ pc[w] = "send"
  /\ batch[w] # << >>
  /\ \/ KeyOf[Row(w)] \in Down /\ UNCHANGED <<log, outages>>
     \/ /\ KeyOf[Row(w)] \notin Down
        /\ outages < MaxFailures
        /\ outages' = outages + 1
        /\ UNCHANGED log \/ Deliver(Row(w))
  /\ batch' = [batch EXCEPT ![w] = Tail(@)]
  /\ UNCHANGED <<outbox, marked, sent, pc, failures>>

Return(w) ==
  /\ pc' = [pc EXCEPT ![w] = "idle"]
  /\ batch' = [batch EXCEPT ![w] = << >>]
  /\ sent' = [sent EXCEPT ![w] = {}]

(* Mutant: publishedIDs is kept from one tick to the next. *)
Mark_KeepSent(w) ==
  /\ pc[w] = "send"
  /\ batch[w] = << >>
  /\ sent[w] \cap Locked(w) = {}
  /\ marked' = marked \cup sent[w]
  /\ pc' = [pc EXCEPT ![w] = "idle"]
  /\ UNCHANGED <<outbox, log, batch, sent, failures, outages>>

(* MarkPublished, which waits for the locks of a running SELECT. *)
Mark(w) ==
  /\ pc[w] = "send"
  /\ batch[w] = << >>
  /\ sent[w] \cap Locked(w) = {}
  /\ marked' = marked \cup sent[w]
  /\ Return(w)
  /\ UNCHANGED <<outbox, log, failures, outages>>

(* The process stops, or FetchPending or MarkPublished fails: what was     *)
(* sent stays unmarked.                                                    *)
Abandon(w) ==
  /\ pc[w] # "idle"
  /\ failures < MaxFailures
  /\ failures' = failures + 1
  /\ Return(w)
  /\ UNCHANGED <<outbox, marked, log, outages>>

-----------------------------------------------------------------------------
WorkerStep(w) == Fetch(w) \/ EndFetch(w) \/ Publish(w) \/ Mark(w)

Next ==
  \/ \E t \in Transactions : Begin(t) \/ Commit(t) \/ Rollback(t)
  \/ \E w \in Workers : WorkerStep(w) \/ PublishFails(w) \/ Abandon(w)

SafeSpec == Init /\ [][Next]_vars

(* The ticker keeps polling and every call returns; a send fails without   *)
(* end only on the keys in Down.                                           *)
Spec ==
  /\ SafeSpec
  /\ \A w \in Workers : WF_vars(WorkerStep(w) \/ PublishFails(w))

-----------------------------------------------------------------------------
TypeOK ==
  /\ begun \in Seq(Transactions) /\ stored \in Seq(Transactions)
  /\ aborted \subseteq Transactions
  /\ marked \subseteq Rows
  /\ log \in [Keys -> Seq(Rows)]
  /\ pc \in [Workers -> {"idle", "fetch", "send"}]
  /\ batch \in [Workers -> Seq(Rows)]
  /\ sent \in [Workers -> SUBSET Rows]
  /\ failures \in 0..MaxFailures /\ outages \in 0..MaxFailures
  /\ \A w \in Workers : pc[w] = "idle" => batch[w] = << >> /\ sent[w] = {}

(* Nothing is announced that did not happen: every message in Kafka is a   *)
(* row of a committed transaction.                                         *)
OnlyCommittedIsPublished ==
  \A k \in Keys : Elements(log[k]) \subseteq Stored

(* Nothing is lost: a row that will not be fetched any more is in Kafka.   *)
MarkedIsPublished == \A r \in marked : Published(r)

(* The rows of one key are first seen in the order their transactions      *)
(* committed.                                                              *)
First(r) == CHOOSE i \in DOMAIN log[KeyOf[r]] :
              /\ log[KeyOf[r]][i] = r
              /\ \A j \in DOMAIN log[KeyOf[r]] : log[KeyOf[r]][j] = r => i <= j
KeyOrder ==
  \A i, j \in DOMAIN stored : i < j =>
    \A r \in stored[i], s \in stored[j] :
      KeyOf[r] = KeyOf[s] /\ Published(s) => Published(r) /\ First(r) < First(s)

(* As long as no send failed, that order is kept: a crash or a lost mark   *)
(* repeats messages but does not reorder first copies.                     *)
KeyOrderWithoutOutage == outages = 0 => KeyOrder

(* Two workers never hold the same row. *)
BatchesDisjoint ==
  \A v, w \in Workers : v # w => Elements(batch[v]) \cap Elements(batch[w]) = {}

(* Every committed row reaches Kafka and is marked, although other rows    *)
(* are stuck on a topic that is down, unless BatchSize of them are as old: *)
(* those fill every batch, and nothing behind them is ever fetched.        *)
Starved(r) ==
  /\ r \in Stored
  /\ Cardinality({q \in Stored : KeyOf[q] \in Down /\ CreatedAt(q) <= CreatedAt(r)})
       >= BatchSize

EveryRowSettles ==
  \A r \in Rows : KeyOf[r] \notin Down => (r \in Stored ~> r \in marked \/ Starved(r))

=============================================================================
