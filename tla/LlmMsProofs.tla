----------------------------- MODULE LlmMsProofs -----------------------------
(***************************************************************************)
(* Proofs about LlmMs: types, and that the language model is asked at most *)
(* once about an event, and only after its COMMIT, for any number of       *)
(* replicas, events and faults.                                            *)
(***************************************************************************)
EXTENDS LlmMs, FiniteSetTheorems, TLAPS

InTx == {"upsert", "commit"}

(* A replica that is not idle handles one event; the event of an open      *)
(* transaction is not in the inbox, and no other open transaction has it.  *)
InboxInv ==
  /\ \A r \in Replicas : pc[r] # "idle" => \E e \in Events : evt[r] = {e}
  /\ \A r \in Replicas : pc[r] \in InTx => evt[r] \cap inbox = {}
  /\ \A q, r \in Replicas :
       q # r /\ pc[q] \in InTx /\ pc[r] \in InTx => evt[q] \cap evt[r] = {}

(* The goroutine of an event starts once: a replica about to start it is   *)
(* the only one, and was the one whose COMMIT put the event into the       *)
(* inbox.  The call is made in the goroutine's first step.                 *)
TaskInv ==
  /\ \A r \in Replicas : pc[r] = "start" =>
       evt[r] \subseteq inbox /\ \A e \in evt[r] : task[e] = "none"
  /\ \A q, r \in Replicas :
       q # r /\ pc[q] = "start" /\ pc[r] = "start" => evt[q] \cap evt[r] = {}
  /\ \A e \in Events :
       /\ task[e] # "none" => e \in inbox
       /\ task[e] \in {"none", "ask"} => calls[e] = 0
       /\ host[e] # {} => task[e] \in Running
       /\ calls[e] <= 1

LEMMA OneElement == \A x : Cardinality({x}) <= 1
<1>1. \A x : Cardinality({x}) = 1
  BY FS_Singleton
<1> QED
  BY <1>1

LEMMA TypeKept == TypeOK /\ [Next]_vars => TypeOK'
<1> SUFFICES ASSUME TypeOK, [Next]_vars PROVE TypeOK'
  OBVIOUS
<1> USE FailuresAssumption
    DEF TypeOK, Running, db, handler, tasks, delivery, Partitions, CommitOffset
<1>1. ASSUME NEW r \in Replicas, NEW e \in Events, Receive(r, e) PROVE TypeOK'
  BY <1>1 DEF Receive
<1>2. ASSUME NEW r \in Replicas, SkipProcessed(r) PROVE TypeOK'
  BY <1>2 DEF SkipProcessed, ReturnNil, Return
<1>3. ASSUME NEW r \in Replicas, MarkProcessed(r) \/ Upsert(r) PROVE TypeOK'
  BY <1>3 DEF MarkProcessed, Upsert
<1>4. ASSUME NEW r \in Replicas, Commit(r) \/ CommitUnheard(r) PROVE TypeOK'
  <2>1. PICK e \in evt[r] :
          /\ inbox' = inbox \cup {e}
          /\ view' = [view EXCEPT ![TxOf[e]] = {e}]
          /\ lost' = lost \ {e}
    BY <1>4 DEF Commit, CommitUnheard, Store
  <2>2. Cardinality({e}) <= 1
    BY OneElement
  <2>3. \A t \in Transactions : Cardinality(view'[t]) <= 1
    BY <2>1, <2>2
  <2>4. e \in Events /\ inbox' \subseteq Events /\ lost' \subseteq Events
    BY <2>1
  <2>5. view' \in [Transactions -> SUBSET Events]
    BY <2>1, <2>4
  <2>6. /\ pc' \in [Replicas -> {"idle", "inbox", "upsert", "commit", "start"}]
        /\ evt' \in [Replicas -> SUBSET Events]
    BY <1>4 DEF Commit, CommitUnheard, Return
  <2>7. offsets' \subseteq Partitions /\ failures' \in 0..MaxFailures
    BY <1>4 DEF Commit, CommitUnheard, Fault
  <2>8. UNCHANGED <<explanation, task, host, calls>>
    BY <1>4 DEF Commit, CommitUnheard, Store
  <2> QED
    BY <2>3, <2>4, <2>5, <2>6, <2>7, <2>8
<1>5. ASSUME NEW r \in Replicas, Explain(r) PROVE TypeOK'
  BY <1>5 DEF Explain, ReturnNil, Return
<1>6. ASSUME NEW r \in Replicas, Abort(r) PROVE TypeOK'
  BY <1>6 DEF Abort, ReturnError, Return, Fault
<1>7. ASSUME NEW r \in Replicas, Crash(r) PROVE TypeOK'
  BY <1>7 DEF Crash, Return, Fault
<1>8. ASSUME NEW e \in Events, Skip(e) PROVE TypeOK'
  BY <1>8 DEF Skip
<1>9. ASSUME NEW e \in Events, Ask(e) PROVE TypeOK'
  BY <1>9 DEF Ask
<1>10. ASSUME NEW e \in Events, GiveUp(e) PROVE TypeOK'
  BY <1>10 DEF GiveUp, Finish, Fault
<1>11. ASSUME NEW e \in Events, Save(e) PROVE TypeOK'
  <2>1. Cardinality({e}) <= 1
    BY OneElement
  <2>2. \A t \in Transactions : Cardinality(explanation'[t]) <= 1
    BY <1>11, <2>1 DEF Save
  <2> QED
    BY <1>11, <2>2 DEF Save, Finish
<1>12. CASE UNCHANGED vars
  BY <1>12 DEF vars
<1> QED
  BY <1>1, <1>2, <1>3, <1>4, <1>5, <1>6, <1>7, <1>8, <1>9, <1>10, <1>11, <1>12
  DEF Next, HandlerStep, TaskStep

(* Every variable of LlmMs keeps its type; a transaction has at most one   *)
(* row in the view and one explanation.                                    *)
THEOREM TypeCorrect == SafeSpec => []TypeOK
<1>1. Init => TypeOK
  BY FailuresAssumption, FS_EmptySet DEF Init, TypeOK
<1> QED
  BY <1>1, TypeKept, PTL DEF SafeSpec

-----------------------------------------------------------------------------
(***************************************************************************)
(* The inbox: one COMMIT for each event.                                   *)
(***************************************************************************)
LEMMA InboxKept == TypeOK /\ InboxInv /\ [Next]_vars => InboxInv'
<1> SUFFICES ASSUME TypeOK, InboxInv, [Next]_vars PROVE InboxInv'
  OBVIOUS
<1> USE DEF TypeOK, InboxInv, InTx, db, handler, tasks
<1>1. ASSUME NEW r \in Replicas, NEW e \in Events, Receive(r, e) PROVE InboxInv'
  BY <1>1 DEF Receive
<1>2. ASSUME NEW r \in Replicas, Return(r), UNCHANGED inbox PROVE InboxInv'
  BY <1>2 DEF Return
<1>3. ASSUME NEW r \in Replicas,
             SkipProcessed(r) \/ Explain(r) \/ Abort(r) \/ Crash(r)
      PROVE  InboxInv'
  BY <1>2, <1>3 DEF SkipProcessed, Explain, Abort, Crash, ReturnNil, ReturnError
<1>4. ASSUME NEW r \in Replicas, MarkProcessed(r) PROVE InboxInv'
  \* The INSERT has waited for the open transactions with the same event.
  <2>1. PICK e \in Events : evt[r] = {e} /\ e \notin inbox /\ ~InboxLocked(r, e)
    BY <1>4 DEF MarkProcessed
  <2>2. \A q \in Replicas \ {r} : pc[q] \in InTx => evt[q] \cap evt[r] = {}
    BY <2>1 DEF InboxLocked
  <2>3. pc' = [pc EXCEPT ![r] = "upsert"] /\ UNCHANGED <<inbox, evt>>
    BY <1>4 DEF MarkProcessed
  <2> QED
    BY <2>1, <2>2, <2>3
<1>5. ASSUME NEW r \in Replicas, Upsert(r) PROVE InboxInv'
  BY <1>5 DEF Upsert
<1>6. ASSUME NEW r \in Replicas, Store(r), pc'[r] \notin InTx,
             \A q \in Replicas \ {r} : pc'[q] = pc[q] /\ evt'[q] = evt[q],
             pc'[r] # "idle" => evt'[r] = evt[r]
      PROVE  InboxInv'
  \* No other open transaction has the event that COMMIT puts in the inbox.
  <2>1. PICK e \in Events : evt[r] = {e} /\ inbox' = inbox \cup {e} /\ pc[r] = "commit"
    BY <1>6 DEF Store
  <2> QED
    BY <1>6, <2>1
<1>7. ASSUME NEW r \in Replicas, Commit(r) \/ CommitUnheard(r) PROVE InboxInv'
  BY <1>6, <1>7 DEF Commit, CommitUnheard, Return
<1>8. ASSUME NEW e \in Events, Skip(e) \/ TaskStep(e) \/ GiveUp(e) PROVE InboxInv'
  BY <1>8 DEF Skip, TaskStep, Ask, Save, GiveUp, Finish
<1>9. CASE UNCHANGED vars
  BY <1>9 DEF vars
<1> QED
  BY <1>1, <1>3, <1>4, <1>5, <1>7, <1>8, <1>9 DEF Next, HandlerStep

-----------------------------------------------------------------------------
(***************************************************************************)
(* The goroutines: one for each COMMIT, if any.                            *)
(***************************************************************************)
LEMMA TaskQuiet ==
  ASSUME TypeOK, TaskInv, UNCHANGED <<task, host, calls>>, inbox \subseteq inbox',
         \A r \in Replicas : pc'[r] = "start" => pc[r] = "start" /\ evt'[r] = evt[r]
  PROVE  TaskInv'
  BY DEF TaskInv

LEMMA TaskKept == TypeOK /\ InboxInv /\ TaskInv /\ [Next]_vars => TaskInv'
<1> SUFFICES ASSUME TypeOK, InboxInv, TaskInv, [Next]_vars PROVE TaskInv'
  OBVIOUS
<1> USE DEF TypeOK, Running, db, handler, tasks
<1>1. ASSUME NEW r \in Replicas, NEW e \in Events, Receive(r, e) PROVE TaskInv'
  BY <1>1, TaskQuiet DEF Receive
<1>2. ASSUME NEW r \in Replicas,
             SkipProcessed(r) \/ MarkProcessed(r) \/ Upsert(r) \/ Abort(r)
      PROVE  TaskInv'
  BY <1>2, TaskQuiet
  DEF SkipProcessed, MarkProcessed, Upsert, Abort, ReturnNil, ReturnError, Return
<1>3. ASSUME NEW r \in Replicas, CommitUnheard(r) PROVE TaskInv'
  BY <1>3, TaskQuiet DEF CommitUnheard, Store, Return
<1>4. ASSUME NEW r \in Replicas, Commit(r) PROVE TaskInv'
  \* The event was in no inbox before, so that its goroutine never started.
  <2>1. PICK e \in Events : evt[r] = {e} /\ e \notin inbox /\ inbox' = inbox \cup {e}
    BY <1>4 DEF Commit, Store, InboxInv, InTx
  <2>2. pc' = [pc EXCEPT ![r] = "start"] /\ UNCHANGED <<evt, task, host, calls>>
    BY <1>4 DEF Commit, Store
  <2>3. task[e] = "none"
    BY <2>1 DEF TaskInv
  <2>4. \A q \in Replicas \ {r} : pc[q] = "start" => evt[q] \cap evt[r] = {}
    BY <2>1 DEF TaskInv
  <2> QED
    BY <2>1, <2>2, <2>3, <2>4 DEF TaskInv
<1>5. ASSUME NEW r \in Replicas, Explain(r) PROVE TaskInv'
  <2>1. pc[r] = "start"
    BY <1>5 DEF Explain
  <2>2. PICK e \in Events : evt[r] = {e}
    BY <2>1 DEF InboxInv
  <2>3. e \in inbox /\ task[e] = "none" /\ calls[e] = 0
    BY <2>1, <2>2 DEF TaskInv
  <2>4. /\ task' = [task EXCEPT ![e] = "ask"] /\ host' = [host EXCEPT ![e] = {r}]
        /\ pc' = [pc EXCEPT ![r] = "idle"] /\ evt' = [evt EXCEPT ![r] = {}]
        /\ UNCHANGED <<inbox, calls>>
    BY <1>5, <2>2 DEF Explain, ReturnNil, Return
  <2>5. \A q \in Replicas \ {r} : pc[q] = "start" => e \notin evt[q]
    BY <2>1, <2>2 DEF TaskInv
  <2> QED
    BY <2>3, <2>4, <2>5 DEF TaskInv
<1>6. ASSUME NEW r \in Replicas, Crash(r) PROVE TaskInv'
  <2>1. /\ task' = [e \in Events |-> IF host[e] = {r} THEN "done" ELSE task[e]]
        /\ host' = [e \in Events |-> host[e] \ {r}]
        /\ pc' = [pc EXCEPT ![r] = "idle"] /\ evt' = [evt EXCEPT ![r] = {}]
        /\ UNCHANGED <<inbox, calls>>
    BY <1>6 DEF Crash, Return
  <2>2. \A q \in Replicas : pc'[q] = "start" => pc[q] = "start" /\ evt'[q] = evt[q]
    BY <2>1
  <2>3. \A e \in Events : task[e] = "none" => task'[e] = "none"
    BY <2>1 DEF TaskInv
  <2>4. \A e \in Events : task'[e] \in {"none", "ask"} => task[e] = task'[e]
    BY <2>1
  <2>5. \A e \in Events : task'[e] # "none" => task[e] # "none"
    BY <2>3
  <2>6. \A e \in Events : host'[e] # {} => task'[e] \in Running
    BY <2>1 DEF TaskInv
  <2> QED
    BY <2>1, <2>2, <2>3, <2>4, <2>5, <2>6 DEF TaskInv
<1>7. ASSUME NEW e \in Events, Skip(e) PROVE TaskInv'
  BY <1>7, TaskQuiet DEF Skip
<1>8. ASSUME NEW e \in Events, Ask(e) PROVE TaskInv'
  BY <1>8 DEF Ask, TaskInv
<1>9. ASSUME NEW e \in Events, Save(e) \/ GiveUp(e) PROVE TaskInv'
  BY <1>9 DEF Save, GiveUp, Finish, TaskInv
<1>10. CASE UNCHANGED vars
  BY <1>10, TaskQuiet DEF vars
<1> QED
  BY <1>1, <1>2, <1>3, <1>4, <1>5, <1>6, <1>7, <1>8, <1>9, <1>10
  DEF Next, HandlerStep, TaskStep

(* The language model is asked at most once about an event, and only when  *)
(* its transaction has committed (handleTransactionEvent).  That it is     *)
(* asked at all needs a process that goes on after COMMIT and hears of it. *)
THEOREM AskedAtMostOnce == SafeSpec => []AtMostOneCall
<1>1. Init => InboxInv /\ TaskInv
  BY DEF Init, InboxInv, TaskInv, InTx
<1>2. TypeOK /\ TaskInv => AtMostOneCall
  BY DEF TypeOK, TaskInv, AtMostOneCall, Running
<1> QED
  BY <1>1, <1>2, TypeCorrect, InboxKept, TaskKept, PTL DEF SafeSpec

=============================================================================
