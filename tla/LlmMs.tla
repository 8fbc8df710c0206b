------------------------------- MODULE LlmMs -------------------------------
(***************************************************************************)
(* llm-ms: the consumer of transactions.events that keeps a read model of  *)
(* the closed transactions, and the goroutines that explain them.          *)
(*                                                                         *)
(* The handler stores the event in the inbox and the transaction in the    *)
(* view in one database transaction.  After COMMIT it starts a goroutine,  *)
(* which asks the language model and stores the text in a statement of its *)
(* own; nobody waits for it.  An event can be delivered to any replica, in *)
(* any order, any number of times, until it is handled or lost: given up   *)
(* after the consumer's last attempt, or passed over because the group had *)
(* no offset to start from (KafkaConsumer).                                *)
(***************************************************************************)
EXTENDS Naturals, FiniteSets

CONSTANTS
  Transactions,
  Events,       \* the TransactionCompleted and TransactionRejected events
  TxOf,         \* the transaction each event is about
  PartitionOf,  \* the partition of the topic each event is in
  Replicas,     \* processes, with one consumer goroutine each
  MaxFailures   \* bound on crashes and errors

Partitions == {PartitionOf[e] : e \in Events}

ASSUME EventsAssumption ==
  TxOf \in [Events -> Transactions] /\ PartitionOf \in [Events -> Partitions]
ASSUME FailuresAssumption == MaxFailures \in Nat

VARIABLES
  inbox,        \* the table processed_events
  view,         \* the event each row of transactions_view shows (none or one)
  explanation,  \* the event each row of transaction_explanations is about
  pc,           \* where each replica's consumer goroutine is
  evt,          \* the event it handles
  task,         \* where the goroutine that explains an event is
  host,         \* the replica it runs in
  calls,        \* how often an event has been given to the language model
  offsets,      \* the partitions with a committed offset of the group
  lost,         \* given up or skipped: events not in the inbox that need not be
                \* delivered again
  failures

db == <<inbox, view, explanation>>
handler == <<pc, evt>>
tasks == <<task, host, calls>>
delivery == <<offsets, lost>>
vars == <<db, handler, tasks, delivery, failures>>

Running == {"ask", "asked"}

Init ==
  /\ inbox = {}
  /\ view = [t \in Transactions |-> {}]
  /\ explanation = [t \in Transactions |-> {}]
  /\ pc = [r \in Replicas |-> "idle"]
  /\ evt = [r \in Replicas |-> {}]
  /\ task = [e \in Events |-> "none"]
  /\ host = [e \in Events |-> {}]
  /\ calls = [e \in Events |-> 0]
  /\ offsets = {} /\ lost = {}
  /\ failures = 0

Fault == failures < MaxFailures /\ failures' = failures + 1

-----------------------------------------------------------------------------
(***************************************************************************)
(* EventHandler.handleTransactionEvent.                                    *)
(***************************************************************************)
(* Mutant: the INSERT does not wait for an uncommitted row of the event. *)
InboxLocked_None(r, e) == FALSE

InboxLocked(r, e) ==
  \E q \in Replicas \ {r} : pc[q] \in {"upsert", "commit"} /\ evt[q] = {e}

(* The upsert waits for an open transaction that has written the row. *)
ViewLocked(r, e) ==
  \E q \in Replicas \ {r} : pc[q] = "commit" /\ \E f \in evt[q] : TxOf[f] = TxOf[e]

Return(r) ==
  /\ pc' = [pc EXCEPT ![r] = "idle"]
  /\ evt' = [evt EXCEPT ![r] = {}]

(* CommitMessages, which may fail, or the process stop before it. *)
CommitOffset(e) == offsets' \in {offsets, offsets \cup {PartitionOf[e]}}

(* The handler returns nil. *)
ReturnNil(r) ==
  /\ Return(r)
  /\ \E e \in evt[r] : CommitOffset(e)
  /\ UNCHANGED lost

(* It returns an error: the event is delivered again, or, if this was the  *)
(* last attempt, sent to the dead letter queue, which nothing reads.       *)
ReturnError(r) ==
  /\ Fault
  /\ Return(r)
  /\ \/ UNCHANGED delivery
     \/ lost' = lost \cup (evt[r] \ inbox) /\ \E e \in evt[r] : CommitOffset(e)

Receive(r, e) ==
  /\ pc[r] = "idle"
  /\ pc' = [pc EXCEPT ![r] = "inbox"]
  /\ evt' = [evt EXCEPT ![r] = {e}]
  /\ UNCHANGED <<db, tasks, delivery, failures>>

(* A partition in which the group has not committed an offset is assigned: *)
(* its reader starts at the end (StartOffset: LastOffset).                 *)
Skip(e) ==
  /\ PartitionOf[e] \notin offsets
  /\ e \notin inbox
  /\ lost' = lost \cup {e}
  /\ UNCHANGED <<db, handler, tasks, offsets, failures>>

SkipProcessed(r) ==
  /\ pc[r] = "inbox"
  /\ \E e \in evt[r] : ~InboxLocked(r, e) /\ e \in inbox
  /\ ReturnNil(r)
  /\ UNCHANGED <<db, tasks, failures>>

(* Mutant: the inbox row is committed before the view is written. *)
MarkProcessed_OwnTx(r) ==
  /\ pc[r] = "inbox"
  /\ \E e \in evt[r] : ~InboxLocked(r, e) /\ e \notin inbox /\ inbox' = inbox \cup {e}
  /\ pc' = [pc EXCEPT ![r] = "upsert"]
  /\ UNCHANGED <<view, explanation, evt, tasks, delivery, failures>>

MarkProcessed(r) ==
  /\ pc[r] = "inbox"
  /\ \E e \in evt[r] : ~InboxLocked(r, e) /\ e \notin inbox
  /\ pc' = [pc EXCEPT ![r] = "upsert"]
  /\ UNCHANGED <<db, evt, tasks, delivery, failures>>

(* TransactionsViewRepo.Upsert: INSERT ... ON CONFLICT DO UPDATE.  What it *)
(* writes is visible after COMMIT.                                         *)
Upsert(r) ==
  /\ pc[r] = "upsert"
  /\ \E e \in evt[r] : ~ViewLocked(r, e)
  /\ pc' = [pc EXCEPT ![r] = "commit"]
  /\ UNCHANGED <<db, evt, tasks, delivery, failures>>

(* COMMIT takes effect ... *)
Store(r) ==
  /\ pc[r] = "commit"
  /\ \E e \in evt[r] :
       /\ inbox' = inbox \cup {e}
       /\ view' = [view EXCEPT ![TxOf[e]] = {e}]
       /\ lost' = lost \ {e}
  /\ UNCHANGED <<explanation, tasks>>

(* ... and the handler is told so, *)
Commit(r) ==
  /\ Store(r)
  /\ pc' = [pc EXCEPT ![r] = "start"]
  /\ UNCHANGED <<evt, offsets, failures>>

(* or gets an error all the same and returns it: it is tried again, or the *)
(* event goes to the dead letter queue, where it is not missed.            *)
CommitUnheard(r) ==
  /\ Store(r)
  /\ Fault
  /\ Return(r)
  /\ \E e \in evt[r] : CommitOffset(e)

(* The statement go h.generateExplanation(view), and return nil. *)
Explain(r) ==
  /\ pc[r] = "start"
  /\ \E e \in evt[r] :
       /\ task' = [task EXCEPT ![e] = "ask"]
       /\ host' = [host EXCEPT ![e] = {r}]
  /\ ReturnNil(r)
  /\ UNCHANGED <<db, calls, failures>>

(* A statement or COMMIT fails and the transaction is rolled back. *)
Abort(r) ==
  /\ pc[r] \in {"inbox", "upsert", "commit"}
  /\ ReturnError(r)
  /\ UNCHANGED <<db, tasks>>

(* The process stops.  run does not wait for the goroutines that explain.  *)
Crash(r) ==
  /\ Fault
  /\ Return(r)
  /\ task' = [e \in Events |-> IF host[e] = {r} THEN "done" ELSE task[e]]
  /\ host' = [e \in Events |-> host[e] \ {r}]
  /\ UNCHANGED <<db, calls, delivery>>

-----------------------------------------------------------------------------
(***************************************************************************)
(* EventHandler.generateExplanation.                                       *)
(***************************************************************************)
Finish(e) ==
  /\ task' = [task EXCEPT ![e] = "done"]
  /\ host' = [host EXCEPT ![e] = {}]
  /\ UNCHANGED <<inbox, view, handler, calls, delivery>>

(* ExplainTransaction is called. *)
Ask(e) ==
  /\ task[e] = "ask"
  /\ task' = [task EXCEPT ![e] = "asked"]
  /\ calls' = [calls EXCEPT ![e] = @ + 1]
  /\ UNCHANGED <<db, handler, host, delivery, failures>>

(* Mutant: a second explanation is kept beside the first. *)
Save_Beside(e) ==
  /\ task[e] = "asked"
  /\ explanation' = [explanation EXCEPT ![TxOf[e]] = @ \cup {e}]
  /\ Finish(e)
  /\ UNCHANGED failures

(* Mutant: UPDATE instead of INSERT ... ON CONFLICT DO UPDATE. *)
Save_UpdateOnly(e) ==
  /\ task[e] = "asked"
  /\ explanation' = [explanation EXCEPT ![TxOf[e]] = IF @ = {} THEN @ ELSE {e}]
  /\ Finish(e)
  /\ UNCHANGED failures

(* The language model has answered, and the text is stored. *)
Save(e) ==
  /\ task[e] = "asked"
  /\ explanation' = [explanation EXCEPT ![TxOf[e]] = {e}]
  /\ Finish(e)
  /\ UNCHANGED failures

(* The language model answers with an error, with nothing, or not within   *)
(* 30 seconds, or the statement fails: it is logged, and nobody tries      *)
(* again.                                                                  *)
GiveUp(e) ==
  /\ task[e] = "asked"
  /\ Fault
  /\ Finish(e)
  /\ UNCHANGED explanation

-----------------------------------------------------------------------------
HandlerStep(r) ==
  SkipProcessed(r) \/ MarkProcessed(r) \/ Upsert(r) \/ Commit(r) \/ Explain(r)
TaskStep(e) == Ask(e) \/ Save(e)

Next ==
  \/ \E r \in Replicas :
       \/ HandlerStep(r) \/ CommitUnheard(r) \/ Abort(r) \/ Crash(r)
       \/ \E e \in Events : Receive(r, e)
  \/ \E e \in Events : Skip(e) \/ TaskStep(e) \/ GiveUp(e)

SafeSpec == Init /\ [][Next]_vars

(* Statements return, the language model answers or its call times out,    *)
(* and an event on the topic is delivered until it has been handled or is  *)
(* lost.                                                                   *)
Spec ==
  /\ SafeSpec
  /\ \A r \in Replicas : WF_vars(HandlerStep(r))
  /\ \A e \in Events :
       /\ WF_vars(TaskStep(e))
       /\ SF_vars(\E r \in Replicas : e \notin lost /\ Receive(r, e))

-----------------------------------------------------------------------------
TypeOK ==
  /\ inbox \subseteq Events
  /\ view \in [Transactions -> SUBSET Events]
  /\ explanation \in [Transactions -> SUBSET Events]
  /\ \A t \in Transactions : Cardinality(view[t]) <= 1 /\ Cardinality(explanation[t]) <= 1
  /\ pc \in [Replicas -> {"idle", "inbox", "upsert", "commit", "start"}]
  /\ evt \in [Replicas -> SUBSET Events]
  /\ task \in [Events -> {"none", "done"} \cup Running]
  /\ host \in [Events -> SUBSET Replicas]
  /\ calls \in [Events -> Nat]
  /\ offsets \subseteq Partitions /\ lost \subseteq Events
  /\ failures \in 0..MaxFailures

(* The language model is asked at most once about an event, and only when  *)
(* its transaction has committed, however often and to however many        *)
(* replicas it is delivered, also when handling it fails at first.         *)
AtMostOneCall ==
  \A e \in Events : calls[e] <= 1 /\ (calls[e] = 1 => e \in inbox)

(* Every result on the topic is handled in the end and its transaction is  *)
(* in the view, in spite of failures and crashes, unless it is lost on the *)
(* way: given up after a failed attempt, or skipped before the group's     *)
(* first offset in the partition.                                          *)
EveryResultReachesView ==
  \A e \in Events : <>((e \in inbox /\ view[TxOf[e]] # {}) \/ e \in lost)

(* Without faults a transaction in the view gets its explanation.          *)
ExplainedWithoutFaults ==
  \A t \in Transactions : view[t] # {} ~> explanation[t] # {} \/ failures > 0

=============================================================================
