----------------------------- MODULE SagaProofs -----------------------------
(***************************************************************************)
(* What TLAPS proves about the two services together: every step of Saga   *)
(* is a step of accounts-ms, a step of transactions-ms as its own module   *)
(* sees it, and a step of Payments, or changes nothing there.              *)
(***************************************************************************)
EXTENDS Saga, AccountsMsProofs, FiniteSetTheorems

(* A message that is skipped changes nothing in the services. *)
LEMMA SagaCases ==
  ASSUME [SagaNext]_sagaVars
  PROVE  \/ \E p \in Commands : HandlePost(p)
         \/ \E h \in Handlers :
              HandlerStep(h) \/ HandlerFault(h) \/ \E m \in Commands : ReceiveCommand(h, m)
         \/ \E w \in Workers :
              WorkerStep(w) \/ WorkerFault(w) \/ \E e \in T!Events : ReceiveResult(w, e)
         \/ UNCHANGED <<vars, tVars>>
<1>1. CASE Skip
  BY <1>1 DEF Skip, SkipCommand, SkipResult
<1>2. CASE UNCHANGED sagaVars
  BY <1>2 DEF sagaVars
<1> QED
  BY <1>1, <1>2 DEF SagaNext

(***************************************************************************)
(* accounts-ms.  It only sees fewer deliveries and faults than AccountsMs  *)
(* allows, so that everything proved there holds here.                     *)
(***************************************************************************)
LEMMA StepOfAccounts == [SagaNext]_sagaVars => [Next]_vars
<1> SUFFICES ASSUME [SagaNext]_sagaVars PROVE [Next]_vars
  OBVIOUS
<1>1. ASSUME NEW p \in Commands, HandlePost(p) PROVE UNCHANGED vars
  BY <1>1 DEF HandlePost
<1>2. ASSUME NEW h \in Handlers,
             HandlerStep(h) \/ HandlerFault(h) \/ \E m \in Commands : ReceiveCommand(h, m)
      PROVE  Next
  BY <1>2 DEF HandlerStep, HandlerFault, ReceiveCommand, Next
<1>3. ASSUME NEW w \in Workers,
             WorkerStep(w) \/ WorkerFault(w) \/ \E e \in T!Events : ReceiveResult(w, e)
      PROVE  UNCHANGED vars
  BY <1>3 DEF WorkerStep, WorkerFault, ReceiveResult
<1>4. CASE UNCHANGED <<vars, tVars>>
  BY <1>4
<1> QED
  BY <1>1, <1>2, <1>3, <1>4, SagaCases

LEMMA AccountsKept == SagaSafeSpec => SafeSpec
BY StepOfAccounts, PTL DEF SagaSafeSpec, SagaInit, SafeSpec

(***************************************************************************)
(* How many answers a command can get.  A handler that has found its event *)
(* absent from the inbox may still answer; each of them answers once, and  *)
(* no handler joins them after the first answer.                           *)
(***************************************************************************)
Answering(m) ==
  {h \in Handlers : cmd[h] = m /\ pc[h] \in TxSteps \cup {"publishFailed"}}

AnswersBounded ==
  \A m \in Commands :
    Len(results[m]) + Cardinality(Answering(m)) <= Cardinality(Handlers)

LEMMA AnsweringFinite ==
  ASSUME NEW S \in SUBSET Handlers
  PROVE  /\ IsFiniteSet(S)
         /\ Cardinality(S) \in Nat
         /\ Cardinality(S) <= Cardinality(Handlers)
         /\ Cardinality(Handlers) \in Nat
BY AnswersAssumption, FS_Subset, FS_CardinalityType

LEMMA BoundInit == Init => AnswersBounded
<1> SUFFICES ASSUME Init, NEW m \in Commands
             PROVE  Len(results[m]) + Cardinality(Answering(m)) <= Cardinality(Handlers)
  BY DEF AnswersBounded
<1>1. Len(results[m]) = 0
  BY DEF Init
<1>2. Answering(m) \in SUBSET Handlers
  BY DEF Answering
<1> QED
  BY <1>1, <1>2, AnsweringFinite

(* Steps that publish no answer and after which no other handlers may.     *)
LEMMA BoundQuiet ==
  ASSUME TypeInv, AnswersBounded, UNCHANGED results,
         \A m \in Commands : Answering(m)' \subseteq Answering(m)
  PROVE  AnswersBounded'
<1> SUFFICES ASSUME NEW m \in Commands
             PROVE  Len(results[m]) + Cardinality(Answering(m)') <= Cardinality(Handlers)
  BY DEF AnswersBounded
<1>1. Answering(m) \in SUBSET Handlers /\ Answering(m)' \in SUBSET Answering(m)
  BY DEF Answering
<1>2. Cardinality(Answering(m)') <= Cardinality(Answering(m))
  BY <1>1, AnsweringFinite, FS_Subset
<1>3. Len(results[m]) + Cardinality(Answering(m)) <= Cardinality(Handlers)
  BY DEF AnswersBounded
<1>4. Len(results[m]) \in Nat
  BY DEF TypeInv, TypeOK
<1>5. Answering(m)' \in SUBSET Handlers
  BY <1>1
<1> QED
  BY <1>1, <1>2, <1>3, <1>4, <1>5, AnsweringFinite

(* A handler that answers leaves the others behind it. *)
LEMMA BoundAnswer ==
  ASSUME TypeInv, AnswersBounded, NEW h \in Handlers, NEW answer,
         answer \in {"applied"} \cup Reasons,
         pc[h] \in TxSteps \cup {"publishFailed"}, cmd[h] \in Commands,
         results' = [results EXCEPT ![cmd[h]] = Append(@, answer)],
         pc' = [pc EXCEPT ![h] = Idle],
         cmd' = [cmd EXCEPT ![h] = NoCommand]
  PROVE  AnswersBounded'
<1> SUFFICES ASSUME NEW m \in Commands
             PROVE  Len(results'[m]) + Cardinality(Answering(m)') <= Cardinality(Handlers)
  BY DEF AnswersBounded
<1> USE DEF TypeInv, TypeOK
<1>1. Len(results[m]) + Cardinality(Answering(m)) <= Cardinality(Handlers)
  BY DEF AnswersBounded
<1>2. Answering(m)' = Answering(m) \ {h}
  BY DEF Answering, TxSteps, ExecSteps, Idle
<1>3. Answering(m) \in SUBSET Handlers
  BY DEF Answering
<1>4. Cardinality(Answering(m)')
        = IF h \in Answering(m) THEN Cardinality(Answering(m)) - 1
                                ELSE Cardinality(Answering(m))
  BY <1>2, <1>3, AnsweringFinite, FS_RemoveElement
<1>5. results[m] \in Seq({"applied"} \cup Reasons)
  OBVIOUS
<1>6. CASE m = cmd[h]
  <2>1. h \in Answering(m)
    BY <1>6 DEF Answering
  <2>2. results'[m] = Append(results[m], answer)
    BY <1>6
  <2>3. Len(results'[m]) = Len(results[m]) + 1 /\ Len(results[m]) \in Nat
    BY <1>5, <2>2
  <2>4. Cardinality(Answering(m)) \in Nat /\ Cardinality(Handlers) \in Nat
    BY <1>3, AnsweringFinite
  <2> QED
    BY <1>1, <1>4, <2>1, <2>3, <2>4
<1>7. CASE m # cmd[h]
  <2>1. h \notin Answering(m) /\ results'[m] = results[m]
    BY <1>7 DEF Answering
  <2> QED
    BY <1>1, <1>4, <2>1
<1> QED
  BY <1>6, <1>7

LEMMA BoundStep == TypeInv /\ InboxInv /\ AnswersBounded /\ [Next]_vars => AnswersBounded'
<1> SUFFICES ASSUME TypeInv, InboxInv, AnswersBounded, [Next]_vars
             PROVE  AnswersBounded'
  OBVIOUS
<1>q. ASSUME UNCHANGED results,
             \A g \in Handlers :
               pc'[g] \in TxSteps \cup {"publishFailed"} =>
                 cmd'[g] = cmd[g] /\ pc[g] \in TxSteps \cup {"publishFailed"}
      PROVE  AnswersBounded'
  <2>1. \A m \in Commands : Answering(m)' \subseteq Answering(m)
    BY <1>q DEF Answering
  <2> QED
    BY <1>q, <2>1, BoundQuiet
<1> USE DEF TypeInv, TypeOK, TxSteps, ExecSteps, Idle
<1>0. ASSUME UNCHANGED vars PROVE AnswersBounded'
  BY <1>0, <1>q DEF vars, tables
<1>1. ASSUME NEW c \in Clients, CreateClient(c) PROVE AnswersBounded'
  BY <1>1, <1>q DEF CreateClient
<1>2. ASSUME NEW c \in Clients, NEW a \in Accounts, CreateAccount(c, a)
      PROVE AnswersBounded'
  BY <1>2, <1>q DEF CreateAccount
<1>3. ASSUME NEW h \in Handlers, NEW m \in Commands, Receive(h, m)
      PROVE AnswersBounded'
  BY <1>3, <1>q DEF Receive, tables
<1>4. ASSUME NEW h \in Handlers, SkipProcessed(h) PROVE AnswersBounded'
  BY <1>4, <1>q DEF SkipProcessed, Return, tables
<1>5. ASSUME NEW h \in Handlers, MarkProcessed(h) PROVE AnswersBounded'
  <2>1. cmd' = cmd /\ results' = results /\ cmd[h] \in Commands
    BY <1>5 DEF MarkProcessed, Goto, tables, Working
  <2>2. \A g \in Handlers \ {h} : pc'[g] = pc[g]
    BY <1>5 DEF MarkProcessed, Goto
  <2>3. results[cmd[h]] = << >>
    BY <1>5, <2>1 DEF MarkProcessed, InboxInv, AnsweredIffProcessed
  <2> SUFFICES ASSUME NEW m \in Commands
               PROVE  Len(results[m]) + Cardinality(Answering(m)') <= Cardinality(Handlers)
    BY <2>1 DEF AnswersBounded
  <2>4. Answering(m)' \in SUBSET Handlers
    BY DEF Answering
  <2>5. CASE m = cmd[h]
    BY <2>3, <2>4, <2>5, AnsweringFinite
  <2>6. CASE m # cmd[h]
    <3>1. Answering(m)' = Answering(m)
      BY <2>1, <2>2, <2>6 DEF Answering
    <3> QED
      BY <3>1 DEF AnswersBounded
  <2> QED
    BY <2>5, <2>6
<1>6. ASSUME NEW h \in Handlers, CheckTransfer(h) PROVE AnswersBounded'
  BY <1>6, <1>q DEF CheckTransfer, Goto, Fail, tables
<1>7. ASSUME NEW h \in Handlers, Debit(h) PROVE AnswersBounded'
  BY <1>7, <1>q DEF Debit, Goto, tables
<1>8. ASSUME NEW h \in Handlers, DebitNoRow(h) PROVE AnswersBounded'
  BY <1>8, <1>q DEF DebitNoRow, Goto, tables
<1>9. ASSUME NEW h \in Handlers, DebitReason(h) PROVE AnswersBounded'
  BY <1>9, <1>q DEF DebitReason, Fail, tables
<1>10. ASSUME NEW h \in Handlers, Credit(h) PROVE AnswersBounded'
  <2>1. UNCHANGED <<results, cmd>> /\ pc[h] = "credit"
    BY <1>10 DEF Credit, Goto, Fail, tables
  <2>2. \A g \in Handlers \ {h} : pc'[g] = pc[g]
    BY <1>10 DEF Credit, Goto, Fail
  <2> QED
    BY <2>1, <2>2, <1>q
<1>11. ASSUME NEW h \in Handlers, Commit(h) PROVE AnswersBounded'
  BY <1>11, BoundAnswer DEF Commit, Return, Working
<1>12. ASSUME NEW h \in Handlers, PublishFailed(h) PROVE AnswersBounded'
  BY <1>12, BoundAnswer DEF PublishFailed, Return, Working
<1>13. ASSUME NEW h \in Handlers, DeadlockVictim(h) PROVE AnswersBounded'
  <2>1. pc[h] \in TxSteps
    BY <1>13 DEF DeadlockVictim, Deadlocked, WaitsFor
  <2> QED
    BY <1>13, <2>1, <1>q DEF DeadlockVictim, Fail, tables
<1>14. ASSUME NEW h \in Handlers, StatementError(h) PROVE AnswersBounded'
  BY <1>14, <1>q DEF StatementError, Fail, tables
<1>15. ASSUME NEW h \in Handlers, Abort(h) PROVE AnswersBounded'
  BY <1>15, <1>q DEF Abort, Return, tables
<1> QED
  BY <1>0, <1>1, <1>2, <1>3, <1>4, <1>5, <1>6, <1>7, <1>8, <1>9, <1>10,
     <1>11, <1>12, <1>13, <1>14, <1>15
  DEF Next, Step

LEMMA AccountsAlways == SagaSafeSpec => [](TypeInv /\ InboxInv /\ AnswersBounded)
<1>1. SafeSpec => [](TypeInv /\ InboxInv /\ AnswersBounded)
  BY InboxAlways, BoundInit, BoundStep, PTL DEF SafeSpec
<1> QED
  BY <1>1, AccountsKept, PTL

-----------------------------------------------------------------------------
(***************************************************************************)
(* transactions-ms.  What accounts-ms answers is what TransactionsMs lets  *)
(* it answer: a command it handles was sent, so it was stored; and Answers *)
(* grows as results does.                                                  *)
(***************************************************************************)
CommandsAreSent ==
  /\ rows \subseteq Commands
  /\ requested = rows
  /\ \A h \in Handlers : pc[h] # Idle => cmd[h] \in requested

LEMMA SentInit == SagaInit => CommandsAreSent
BY DEF SagaInit, Init, T!Init, CommandsAreSent

(* Only storing a payment changes the rows and the commands sent. *)
LEMMA RowsStep ==
  ASSUME NEW p \in Commands, HandlePost(p)
  PROVE  \/ /\ rows' = rows \cup {p} /\ requested' = requested \cup {p}
            /\ UNCHANGED status
         \/ UNCHANGED <<rows, requested, status>>
BY DEF HandlePost, T!Submit, T!PostStep, T!Insert, T!CommitCreate, T!Lookup,
       T!PostFault, T!CommitUnheard, T!FailPost, T!Store, T!db

LEMMA WorkersKeepRows ==
  ASSUME NEW w \in Workers,
         WorkerStep(w) \/ WorkerFault(w) \/ \E e \in T!Events : ReceiveResult(w, e)
  PROVE  UNCHANGED <<rows, requested>> /\ UNCHANGED vars
BY DEF WorkerStep, T!WorkerStep, T!SkipProcessed, T!MarkProcessed, T!MarkStatus,
       T!CommitResult, WorkerFault, T!Abort, ReceiveResult, T!Receive, T!db

LEMMA SentStep == TypeInv /\ CommandsAreSent /\ [SagaNext]_sagaVars => CommandsAreSent'
<1> SUFFICES ASSUME TypeInv, CommandsAreSent, [SagaNext]_sagaVars
             PROVE  CommandsAreSent'
  OBVIOUS
<1>1. ASSUME NEW p \in Commands, HandlePost(p) PROVE CommandsAreSent'
  <2>1. UNCHANGED <<pc, cmd>>
    BY <1>1 DEF HandlePost, vars
  <2> QED
    BY <1>1, <2>1, RowsStep DEF CommandsAreSent
<1>2. ASSUME NEW h \in Handlers, HandlerStep(h) \/ HandlerFault(h)
      PROVE  CommandsAreSent'
  <2>1. UNCHANGED <<rows, requested>>
    BY <1>2 DEF HandlerStep, HandlerFault, tVars
  <2>2. Step(h) \/ StatementError(h) \/ Abort(h)
    BY <1>2 DEF HandlerStep, HandlerFault
  <2>3. pc[h] # Idle
    BY <2>2 DEF Step, SkipProcessed, MarkProcessed, CheckTransfer, Debit, DebitNoRow,
                DebitReason, Credit, Commit, PublishFailed, DeadlockVictim, Deadlocked,
                WaitsFor, StatementError, Abort, ExecSteps, Idle
  <2>4. \A g \in Handlers : pc'[g] # Idle => pc[g] # Idle /\ cmd'[g] = cmd[g]
    BY <2>2, <2>3
    DEF Step, SkipProcessed, MarkProcessed, CheckTransfer, Debit, DebitNoRow,
        DebitReason, Credit, Commit, PublishFailed, DeadlockVictim, StatementError,
        Abort, Return, Goto, Fail, TypeInv, TypeOK
  <2> QED
    BY <2>1, <2>4 DEF CommandsAreSent
<1>3. ASSUME NEW h \in Handlers, NEW m \in Commands, ReceiveCommand(h, m)
      PROVE  CommandsAreSent'
  BY <1>3 DEF ReceiveCommand, Receive, Sent, tVars, CommandsAreSent, TypeInv, TypeOK
<1>4. ASSUME NEW w \in Workers,
             WorkerStep(w) \/ WorkerFault(w) \/ \E e \in T!Events : ReceiveResult(w, e)
      PROVE  CommandsAreSent'
  BY <1>4, WorkersKeepRows DEF vars, CommandsAreSent
<1>5. CASE UNCHANGED <<vars, tVars>>
  BY <1>5 DEF vars, tVars, CommandsAreSent
<1> QED
  BY <1>1, <1>2, <1>3, <1>4, <1>5, SagaCases

LEMMA AnswersGrow ==
  ASSUME TypeInv, NEW m \in Commands, NEW answer \in {"applied"} \cup Reasons,
         results' = [results EXCEPT ![m] = Append(@, answer)],
         NEW outcome, outcome = IF answer = "applied" THEN "applied" ELSE "failed"
  PROVE  /\ Answers' = [Answers EXCEPT ![m] = Append(@, outcome)]
         /\ Len(Answers[m]) = Len(results[m])
         /\ results[m] = << >> => Answers[m] = << >>
<1> DEFINE J == results[m]
           Said(s) == [i \in DOMAIN s |-> IF s[i] = "applied" THEN "applied" ELSE "failed"]
<1>1. J \in Seq({"applied"} \cup Reasons)
  BY DEF TypeInv, TypeOK
<1>2. \A t \in Commands : Answers[t] = Said(results[t]) /\ Answers'[t] = Said(results'[t])
  BY DEF Answers
<1>3. results'[m] = Append(J, answer) /\ \A t \in Commands \ {m} : results'[t] = results[t]
  BY DEF TypeInv, TypeOK
<1> HIDE DEF J
<1>4. Said(J) \in Seq({"applied", "failed"}) /\ Len(Said(J)) = Len(J)
  BY <1>1
<1>5. Said(Append(J, answer)) = Append(Said(J), outcome)
  <2>1. DOMAIN Append(J, answer) = 1..(Len(J) + 1) /\ DOMAIN J = 1..Len(J)
    BY <1>1
  <2>2. DOMAIN Append(Said(J), outcome) = 1..(Len(J) + 1)
    BY <1>4
  <2>3. ASSUME NEW i \in 1..(Len(J) + 1)
        PROVE  Said(Append(J, answer))[i] = Append(Said(J), outcome)[i]
    BY <1>1, <1>4, <2>1
  <2>4. /\ Said(Append(J, answer)) = [i \in 1..(Len(J) + 1) |-> Said(Append(J, answer))[i]]
        /\ Append(Said(J), outcome) = [i \in 1..(Len(J) + 1) |-> Append(Said(J), outcome)[i]]
    BY <1>1, <1>4, <2>1
  <2> QED
    BY <2>1, <2>2, <2>3, <2>4
<1> HIDE DEF Said
<1>6. \A t \in Commands : Answers'[t] = [Answers EXCEPT ![m] = Append(@, outcome)][t]
  BY <1>2, <1>3, <1>5 DEF Answers, J
<1>7. Answers' = [Answers EXCEPT ![m] = Append(@, outcome)]
  BY <1>6 DEF Answers
<1>8. Answers[m] = Said(J)
  BY <1>2 DEF J
<1>9. Len(J) = 0 => Said(J) = << >>
  BY <1>4
<1> QED
  BY <1>4, <1>7, <1>8, <1>9 DEF J

(* A handler of accounts-ms that answers does what Answer of               *)
(* TransactionsMs allows.                                                  *)
LEMMA AnswerIsAllowed ==
  ASSUME TypeInv, InboxInv, AnswersBounded, CommandsAreSent, NEW h \in Handlers,
         Commit(h) \/ PublishFailed(h), UNCHANGED tVars
  PROVE  T!Next
<1> DEFINE m == cmd[h]
           answer == IF pc[h] = "commit" THEN "applied" ELSE reason[h]
           outcome == IF answer = "applied" THEN "applied" ELSE "failed"
<1> USE DEF TypeInv
<1>1. m \in Commands /\ m \in requested /\ pc[h] \in {"commit", "publishFailed"}
  BY DEF Commit, PublishFailed, Working, CommandsAreSent, Idle
<1>2. answer \in {"applied"} \cup Reasons
  BY DEF TypeOK
<1>3. results' = [results EXCEPT ![m] = Append(@, answer)]
  BY DEF Commit, PublishFailed
<1>4. Len(results[m]) < MaxAnswers
  <2>1. Answering(m) \in SUBSET Handlers /\ h \in Answering(m)
    BY <1>1 DEF Answering, TxSteps, ExecSteps
  <2>2. Cardinality(Answering(m)) \in Nat \ {0} /\ Cardinality(Handlers) \in Nat
    BY <2>1, AnsweringFinite, FS_EmptySet
  <2>3. Len(results[m]) \in Nat
    BY <1>1 DEF TypeOK
  <2>4. Len(results[m]) + Cardinality(Answering(m)) <= Cardinality(Handlers)
    BY <1>1 DEF AnswersBounded
  <2> QED
    BY <2>2, <2>3, <2>4, AnswersAssumption
<1>5. answer = "applied" => results[m] = << >>
  <2>1. ASSUME pc[h] = "commit" PROVE results[m] = << >>
    BY <1>1, <2>1 DEF InboxInv, InsertedIsNew, AnsweredIffProcessed, TxSteps, ExecSteps
  <2>2. reason[h] # "applied"
    BY DEF TypeOK, Reasons
  <2> QED
    BY <2>1, <2>2
<1>6. outcome \in {"applied", "failed"} /\ (outcome = "applied" => answer = "applied")
  OBVIOUS
<1>7. UNCHANGED <<T!db, T!posts, T!workers, tFailures>>
  BY DEF tVars, T!db, T!posts, T!workers
<1>8. /\ Answers' = [Answers EXCEPT ![m] = Append(@, outcome)]
      /\ Len(Answers[m]) = Len(results[m])
      /\ results[m] = << >> => Answers[m] = << >>
  <2>1. PICK a \in {"applied"} \cup Reasons : a = answer
    BY <1>2
  <2>2. PICK o : o = outcome
    OBVIOUS
  <2>3. o = IF a = "applied" THEN "applied" ELSE "failed"
    BY <2>1, <2>2
  <2>4. PICK c \in Commands : c = m
    BY <1>1
  <2>5. results' = [results EXCEPT ![c] = Append(@, a)]
    BY <1>3, <2>1, <2>4
  <2> HIDE DEF m, answer, outcome
  <2>6. /\ Answers' = [Answers EXCEPT ![c] = Append(@, o)]
        /\ Len(Answers[c]) = Len(results[c])
        /\ results[c] = << >> => Answers[c] = << >>
    BY <2>3, <2>5, AnswersGrow
  <2> QED
    BY <2>2, <2>4, <2>6
<1> HIDE DEF answer, outcome
<1>9. Len(Answers[m]) < MaxAnswers /\ (outcome = "applied" => Answers[m] = << >>)
  BY <1>4, <1>5, <1>6, <1>8
<1>10. T!Answer(m, outcome)
  BY <1>1, <1>7, <1>8, <1>9, Zenon DEF T!Answer
<1> QED
  BY <1>1, <1>6, <1>10 DEF T!Next

LEMMA StepOfTransactions ==
  /\ TypeInv /\ InboxInv /\ AnswersBounded /\ CommandsAreSent
  /\ [SagaNext]_sagaVars
  => [T!Next]_(T!vars)
<1> SUFFICES ASSUME TypeInv, InboxInv, AnswersBounded, CommandsAreSent,
                    [SagaNext]_sagaVars
             PROVE  T!Next \/ UNCHANGED T!vars
  OBVIOUS
<1>q. ASSUME UNCHANGED <<results, tVars>> PROVE UNCHANGED T!vars
  BY <1>q DEF tVars, Answers, T!vars, T!db, T!posts, T!workers
<1>1. ASSUME NEW p \in Commands, HandlePost(p) PROVE T!Next
  BY <1>1 DEF HandlePost, T!Next
<1>2. ASSUME NEW h \in Handlers, HandlerStep(h) PROVE T!Next \/ UNCHANGED T!vars
  <2>1. UNCHANGED tVars
    BY <1>2 DEF HandlerStep
  <2>2. CASE Commit(h) \/ PublishFailed(h)
    BY <2>1, <2>2, AnswerIsAllowed
  <2>3. CASE \/ SkipProcessed(h) \/ MarkProcessed(h) \/ CheckTransfer(h) \/ Debit(h)
             \/ DebitNoRow(h) \/ DebitReason(h) \/ Credit(h) \/ DeadlockVictim(h)
    <3>1. UNCHANGED results
      BY <2>3 DEF SkipProcessed, MarkProcessed, CheckTransfer, Debit, DebitNoRow,
                  DebitReason, Credit, DeadlockVictim, tables
    <3> QED
      BY <2>1, <3>1, <1>q
  <2> QED
    BY <1>2, <2>2, <2>3 DEF HandlerStep, Step
<1>3. ASSUME NEW h \in Handlers,
             HandlerFault(h) \/ \E m \in Commands : ReceiveCommand(h, m)
      PROVE  UNCHANGED T!vars
  BY <1>3, <1>q DEF HandlerFault, StatementError, Abort, ReceiveCommand, Receive, tables
<1>4. ASSUME NEW w \in Workers,
             WorkerStep(w) \/ WorkerFault(w) \/ \E e \in T!Events : ReceiveResult(w, e)
      PROVE  T!Next
  BY <1>4 DEF WorkerStep, WorkerFault, ReceiveResult, T!Next
<1>5. CASE UNCHANGED <<vars, tVars>>
  BY <1>5, <1>q DEF vars, tables
<1> QED
  BY <1>1, <1>2, <1>3, <1>4, <1>5, SagaCases

LEMMA SentAlways ==
  SagaSafeSpec => [](TypeInv /\ InboxInv /\ AnswersBounded /\ CommandsAreSent)
BY AccountsAlways, SentInit, SentStep, PTL DEF SagaSafeSpec

(* transactions-ms may be verified alone: whatever the number of replicas, *)
(* the deliveries and the faults, accounts-ms only answers commands of     *)
(* stored transactions, says "applied" only first, and answers a command   *)
(* at most once per replica (processInTx, publishFailedInNewTx).           *)
THEOREM AccountsMeetAssumption == SagaSafeSpec => MeetsAssumption
<1>1. SagaInit => T!Init
  BY DEF SagaInit
<1> QED
  BY <1>1, SentAlways, StepOfTransactions, PTL DEF SagaSafeSpec, MeetsAssumption, T!SafeSpec

-----------------------------------------------------------------------------
(***************************************************************************)
(* The workers of transactions-ms.  Each handles one result that exists;   *)
(* the one whose open transaction has updated the row of a payment has     *)
(* found it PENDING, and it alone, so that it closes the payment.          *)
(***************************************************************************)
WorkersOK ==
  /\ status \in [Commands -> T!Statuses]
  /\ tPc \in [Workers -> T!WorkerSteps]
  /\ evt \in [Workers -> SUBSET T!Event]
  /\ hit \in [Workers -> BOOLEAN]

OneResultEach == \A w \in Workers : \A e, f \in evt[w] : e = f

ResultsExist == \A w \in Workers : \A e \in evt[w] : e.seq \in DOMAIN results[e.tx]

HitsPending ==
  \A w \in Workers :
    hit[w] => /\ tPc[w] = "publish"
              /\ \A e \in evt[w] : status[e.tx] = "PENDING"

HitsApart ==
  \A v, w \in Workers :
    v # w /\ hit[v] /\ hit[w] => \A e \in evt[v], f \in evt[w] : e.tx # f.tx

WorkersInv == WorkersOK /\ OneResultEach /\ ResultsExist /\ HitsPending /\ HitsApart

LEMMA WorkersInit == SagaInit => WorkersInv
BY DEF SagaInit, T!Init, WorkersInv, WorkersOK, OneResultEach, ResultsExist,
       HitsPending, HitsApart, T!Statuses, T!WorkerSteps

LEMMA WorkersReturn ==
  ASSUME WorkersInv, NEW w \in Workers, T!Return(w), UNCHANGED <<status, results>>
  PROVE  WorkersInv'
<1> USE DEF WorkersInv, WorkersOK
<1>1. WorkersOK'
  BY DEF T!Return, T!WorkerSteps
<1>2. \A v \in Workers : \/ evt'[v] = {} /\ ~hit'[v]
                         \/ v # w /\ evt'[v] = evt[v] /\ hit'[v] = hit[v] /\ tPc'[v] = tPc[v]
  BY DEF T!Return
<1>3. OneResultEach' /\ ResultsExist' /\ HitsPending'
  BY <1>2 DEF OneResultEach, ResultsExist, HitsPending
<1>4. HitsApart'
  BY <1>2 DEF HitsApart
<1> QED
  BY <1>1, <1>3, <1>4

(* The steps of a worker. *)
LEMMA WorkersStep ==
  ASSUME WorkersInv, NEW w \in Workers, UNCHANGED results,
         T!WorkerStep(w) \/ T!Abort(w) \/ \E e \in T!Events : T!Receive(w, e)
  PROVE  WorkersInv'
<1> USE DEF WorkersInv, WorkersOK
<1>1. CASE T!SkipProcessed(w) \/ T!Abort(w)
  BY <1>1, WorkersReturn DEF T!SkipProcessed, T!Abort, T!db
<1>2. CASE T!MarkProcessed(w)
  <2>1. UNCHANGED <<status, evt, hit>> /\ tPc' = [tPc EXCEPT ![w] = "update"]
        /\ tPc[w] = "inbox"
    BY <1>2 DEF T!MarkProcessed, T!db
  <2>2. WorkersOK' /\ OneResultEach' /\ ResultsExist' /\ HitsApart'
    BY <2>1 DEF OneResultEach, ResultsExist, HitsApart, T!WorkerSteps
  <2>3. HitsPending'
    BY <2>1 DEF HitsPending
  <2> QED
    BY <2>2, <2>3
<1>3. CASE T!MarkStatus(w)
  <2>1. UNCHANGED <<status, evt>> /\ tPc' = [tPc EXCEPT ![w] = "publish"]
    BY <1>3 DEF T!MarkStatus, T!db
  <2>2. PICK e \in evt[w] : ~T!RowLocked(w, e.tx)
                          /\ hit' = [hit EXCEPT ![w] = (status[e.tx] = "PENDING")]
    BY <1>3 DEF T!MarkStatus
  <2>3. WorkersOK' /\ OneResultEach' /\ ResultsExist'
    BY <2>1, <2>2 DEF OneResultEach, ResultsExist, T!WorkerSteps
  <2>4. \A f \in evt[w] : f = e
    BY DEF OneResultEach
  <2>5. \A v \in Workers \ {w} : hit'[v] = hit[v] /\ (hit[v] => \A f \in evt[v] : f.tx # e.tx)
    BY <2>2 DEF T!RowLocked
  <2>6. hit'[w] => status[e.tx] = "PENDING"
    BY <2>2
  <2>7. HitsPending'
    BY <2>1, <2>4, <2>5, <2>6 DEF HitsPending
  <2>8. HitsApart'
    BY <2>1, <2>4, <2>5 DEF HitsApart
  <2> QED
    BY <2>3, <2>7, <2>8
<1>4. CASE T!CommitResult(w)
  <2>1. PICK e \in evt[w] :
          status' = IF hit[w] THEN [status EXCEPT ![e.tx] = T!StatusOf(Answers[e.tx][e.seq])]
                              ELSE status
    BY <1>4 DEF T!CommitResult
  <2>2. T!Return(w)
    BY <1>4 DEF T!CommitResult
  <2>3. \A v \in Workers : \/ evt'[v] = {} /\ ~hit'[v]
                           \/ v # w /\ evt'[v] = evt[v] /\ hit'[v] = hit[v] /\ tPc'[v] = tPc[v]
    BY <2>2 DEF T!Return
  <2>4. WorkersOK'
    <3>1. status' \in [Commands -> T!Statuses]
      BY <2>1 DEF T!StatusOf, T!Statuses
    <3> QED
      BY <2>2, <3>1 DEF T!Return, T!WorkerSteps
  <2>5. OneResultEach' /\ ResultsExist' /\ HitsApart'
    BY <2>3 DEF OneResultEach, ResultsExist, HitsApart
  <2>6. \A v \in Workers \ {w} : hit[v] => \A f \in evt[v] : status'[f.tx] = status[f.tx]
    BY <2>1 DEF HitsApart, T!Event
  <2>7. HitsPending'
    BY <2>3, <2>6 DEF HitsPending
  <2> QED
    BY <2>4, <2>5, <2>7
<1>5. ASSUME NEW e \in T!Events, T!Receive(w, e) PROVE WorkersInv'
  <2>1. /\ UNCHANGED <<status, hit>> /\ tPc' = [tPc EXCEPT ![w] = "inbox"]
        /\ evt' = [evt EXCEPT ![w] = {e}] /\ tPc[w] = "idle"
    BY <1>5 DEF T!Receive, T!db
  <2>2. e \in T!Event /\ e.seq \in DOMAIN results[e.tx]
    BY DEF T!Events, T!Event, Answers
  <2>3. ~hit[w]
    BY <2>1 DEF HitsPending
  <2>4. WorkersOK'
    BY <2>1, <2>2 DEF T!WorkerSteps
  <2>5. OneResultEach' /\ ResultsExist'
    BY <2>1, <2>2 DEF OneResultEach, ResultsExist
  <2>6. HitsPending' /\ HitsApart'
    BY <2>1, <2>3 DEF HitsPending, HitsApart
  <2> QED
    BY <2>4, <2>5, <2>6
<1> QED
  BY <1>1, <1>2, <1>3, <1>4, <1>5 DEF T!WorkerStep

(* Answers are only added. *)
LEMMA ResultsGrow ==
  TypeInv /\ [Next]_vars => \A t \in Commands : DOMAIN results[t] \subseteq DOMAIN results'[t]
<1> SUFFICES ASSUME TypeInv, [Next]_vars, NEW t \in Commands
             PROVE  DOMAIN results[t] \subseteq DOMAIN results'[t]
  OBVIOUS
<1>1. results[t] \in Seq({"applied"} \cup Reasons)
  BY DEF TypeInv, TypeOK
<1>2. ASSUME NEW h \in Handlers, Commit(h) \/ PublishFailed(h)
      PROVE  DOMAIN results[t] \subseteq DOMAIN results'[t]
  <2>1. PICK x \in {"applied"} \cup Reasons :
          results' = [results EXCEPT ![cmd[h]] = Append(@, x)]
    BY <1>2 DEF Commit, PublishFailed, TypeInv, TypeOK
  <2>2. results'[t] \in {results[t], Append(results[t], x)}
    BY <2>1 DEF TypeInv, TypeOK
  <2> QED
    BY <1>1, <2>2
<1>3. CASE UNCHANGED results
  BY <1>3
<1> QED
  BY <1>2, <1>3
  DEF Next, Step, vars, tables, CreateClient, CreateAccount, Receive, SkipProcessed,
      MarkProcessed, CheckTransfer, Debit, DebitNoRow, DebitReason, Credit,
      DeadlockVictim, StatementError, Abort

LEMMA WorkersInvStep == TypeInv /\ WorkersInv /\ [SagaNext]_sagaVars => WorkersInv'
<1> SUFFICES ASSUME TypeInv, WorkersInv, [SagaNext]_sagaVars PROVE WorkersInv'
  OBVIOUS
<1>1. ASSUME UNCHANGED <<status, tPc, evt, hit>> PROVE WorkersInv'
  <2>1. \A t \in Commands : DOMAIN results[t] \subseteq DOMAIN results'[t]
    BY StepOfAccounts, ResultsGrow
  <2>2. \A w \in Workers : \A e \in evt[w] : e.tx \in Commands
    BY DEF WorkersInv, WorkersOK, T!Event
  <2>3. ResultsExist'
    BY <1>1, <2>1, <2>2 DEF WorkersInv, ResultsExist
  <2> QED
    BY <1>1, <2>3 DEF WorkersInv, WorkersOK, OneResultEach, HitsPending, HitsApart
<1>2. ASSUME NEW p \in Commands, HandlePost(p) PROVE WorkersInv'
  BY <1>1, <1>2 DEF HandlePost, T!Submit, T!PostStep, T!Insert, T!CommitCreate, T!Lookup,
         T!PostFault, T!CommitUnheard, T!FailPost, T!Store, T!db, T!workers
<1>3. ASSUME NEW h \in Handlers,
             HandlerStep(h) \/ HandlerFault(h) \/ \E m \in Commands : ReceiveCommand(h, m)
      PROVE  WorkersInv'
  BY <1>1, <1>3 DEF HandlerStep, HandlerFault, ReceiveCommand, tVars
<1>4. ASSUME NEW w \in Workers,
             WorkerStep(w) \/ WorkerFault(w) \/ \E e \in T!Events : ReceiveResult(w, e)
      PROVE  WorkersInv'
  BY <1>4, WorkersStep DEF WorkerStep, WorkerFault, ReceiveResult, vars, tables
<1>5. CASE UNCHANGED <<vars, tVars>>
  BY <1>1, <1>5 DEF tVars
<1> QED
  BY <1>2, <1>3, <1>4, <1>5, SagaCases

-----------------------------------------------------------------------------
(***************************************************************************)
(* The refinement of Payments.  Storing a payment is Accept, a commit or a *)
(* first rejection is Decide, a rejection after "applied" is Contradict,   *)
(* and the commit of a worker that has updated the row is Close.           *)
(***************************************************************************)
Twice == {t \in Commands : Applied(t) /\ Len(results[t]) > 1}

(* P!B is the Bank of Payments; AccountsMs has an instance of its own. *)
LEMMA SameBank ==
  /\ P!B!bankVars = B!bankVars
  /\ B!Init => P!B!Init
  /\ \A m \in Commands : (B!Apply(m) => P!B!Apply(m)) /\ (B!Reject(m) => P!B!Reject(m))
BY DEF P!B!bankVars, B!bankVars, B!Init, P!B!Init, B!Apply, P!B!Apply, B!Reject, P!B!Reject,
       B!Allowed, P!B!Allowed, B!WellFormed, P!B!WellFormed, B!Touches, P!B!Touches,
       B!Debits, P!B!Debits, B!Credits, P!B!Credits, B!Effect, P!B!Effect

LEMMA PaymentsInit == SagaInit => P!Init
<1> SUFFICES ASSUME SagaInit PROVE P!Init
  OBVIOUS
<1>1. P!B!Init
  BY SameBank, BankInit DEF SagaInit
<1>2. Twice = {}
  BY DEF SagaInit, Init, Applied, Twice
<1> QED
  BY <1>1, <1>2 DEF P!Init, SagaInit, T!Init, Twice

(* A step that leaves answers and money alone leaves the bank alone. *)
LEMMA BankQuiet ==
  ASSUME UNCHANGED <<accounts, balance, results>>
  PROVE  UNCHANGED P!bank /\ UNCHANGED Twice
BY DEF P!bank, DecisionOf, Twice, Applied

LEMMA StoreIsAccept ==
  ASSUME NEW p \in Commands, HandlePost(p)
  PROVE  P!Next \/ UNCHANGED P!paymentVars
<1>1. UNCHANGED P!bank /\ UNCHANGED Twice
  BY BankQuiet DEF HandlePost, vars, tables
<1>2. CASE rows' = rows \cup {p} /\ UNCHANGED status
  <2>1. P!Accept(p)
    BY <1>1, <1>2 DEF P!Accept, Twice
  <2> QED
    BY <2>1 DEF P!Next
<1>3. CASE UNCHANGED <<rows, status>>
  BY <1>1, <1>3 DEF P!paymentVars, P!book, Twice
<1> QED
  BY <1>2, <1>3, RowsStep

(* What an answer does to the set of payments with two verdicts. *)
LEMMA TwiceStep ==
  ASSUME TypeInv, InboxInv, NEW m \in Commands, NEW answer \in {"applied"} \cup Reasons,
         results' = [results EXCEPT ![m] = Append(@, answer)],
         answer = "applied" => results[m] = << >>
  PROVE  \/ UNCHANGED Twice
         \/ /\ Twice' = Twice \cup {m} /\ DecisionOf(m) = "applied"
            /\ DecisionOf(m)' = "applied"
<1> DEFINE J == results[m]
<1>1. J \in Seq({"applied"} \cup Reasons)
  BY DEF TypeInv, TypeOK
<1>2. results'[m] = Append(J, answer) /\ \A t \in Commands \ {m} : results'[t] = results[t]
  BY DEF TypeInv, TypeOK
<1>3. \A t \in Commands \ {m} : t \in Twice' <=> t \in Twice
  BY <1>2 DEF Twice, Applied
<1> HIDE DEF J
<1>4. CASE J = << >>
  <2>1. Append(J, answer) = <<answer>>
    BY <1>4
  <2>2. m \notin Twice /\ m \notin Twice'
    BY <1>2, <1>4, <2>1 DEF Twice, J
  <2> QED
    BY <1>3, <2>2 DEF Twice
<1>5. CASE J # << >> /\ ~Applied(m)
  <2>1. answer # "applied"
    BY <1>5 DEF J
  <2>2. ~Applied(m)'
    <3>1. ASSUME NEW i \in DOMAIN Append(J, answer), Append(J, answer)[i] = "applied"
          PROVE  \E k \in DOMAIN J : J[k] = "applied"
      BY <1>1, <2>1, <3>1
    <3> QED
      BY <1>2, <1>5, <3>1 DEF Applied, J
  <2>3. m \notin Twice /\ m \notin Twice'
    BY <1>5, <2>2 DEF Twice
  <2> QED
    BY <1>3, <2>3 DEF Twice
<1>6. CASE J # << >> /\ Applied(m)
  <2>1. J[1] = "applied" /\ Len(J) \in Nat \ {0}
    BY <1>1, <1>6 DEF InboxInv, AppliedIsFirst, Applied, J
  <2>2. Append(J, answer)[1] = "applied" /\ Len(Append(J, answer)) > 1
        /\ 1 \in DOMAIN Append(J, answer) /\ Append(J, answer) # << >>
    BY <1>1, <2>1
  <2>3. Applied(m)' /\ Len(results'[m]) > 1
    BY <1>2, <2>2 DEF Applied
  <2>4. m \in Twice'
    BY <2>3 DEF Twice
  <2>5. DecisionOf(m) = "applied" /\ DecisionOf(m)' = "applied"
    BY <1>2, <1>6, <2>1, <2>2 DEF DecisionOf, J
  <2>6. Twice' = Twice \cup {m}
    BY <1>3, <2>4 DEF Twice
  <2> QED
    BY <2>5, <2>6
<1> QED
  BY <1>4, <1>5, <1>6

LEMMA AnswerIsDecide ==
  ASSUME TypeInv, InboxInv, LedgerInv, CommandsAreSent, NEW h \in Handlers,
         Commit(h) \/ PublishFailed(h), UNCHANGED tVars
  PROVE  P!Next \/ UNCHANGED P!paymentVars
<1> DEFINE answer == IF pc[h] = "commit" THEN "applied" ELSE reason[h]
<1>1. PICK m \in Commands : m = cmd[h]
  BY DEF Commit, PublishFailed, TypeInv, Working, Idle
<1>2. m \in rows /\ UNCHANGED <<rows, status>>
  BY <1>1 DEF Commit, PublishFailed, CommandsAreSent, Idle, tVars
<1>3. answer \in {"applied"} \cup Reasons
  BY DEF TypeInv, TypeOK
<1>4. results' = [results EXCEPT ![m] = Append(@, answer)]
  BY <1>1 DEF Commit, PublishFailed
<1>5. answer = "applied" => Commit(h) /\ results[m] = << >>
  <2>1. Commit(h) => results[m] = << >>
    BY <1>1 DEF Commit, InboxInv, InsertedIsNew, AnsweredIffProcessed, TxSteps, ExecSteps
  <2>2. reason[h] # "applied"
    BY DEF TypeInv, TypeOK, Reasons
  <2> QED
    BY <2>1, <2>2 DEF Commit, PublishFailed
<1>6. B!Apply(m) \/ B!Reject(m) \/ UNCHANGED B!bankVars
  BY <1>1, CommitIsApply, PublishFailedIsReject
<1>7. P!B!Decide(m) \/ UNCHANGED P!bank
  BY <1>6, SameBank DEF P!B!Decide, P!bank, B!bankVars
<1> HIDE DEF answer
<1>8. \/ UNCHANGED Twice
      \/ Twice' = Twice \cup {m} /\ DecisionOf(m) = "applied" /\ DecisionOf(m)' = "applied"
  BY <1>3, <1>4, <1>5, TwiceStep
<1>9. CASE UNCHANGED Twice /\ P!B!Decide(m)
  <2>1. P!Decide(m)
    BY <1>2, <1>9 DEF P!Decide, P!book, Twice
  <2> QED
    BY <2>1 DEF P!Next
<1>10. CASE UNCHANGED Twice /\ UNCHANGED P!bank
  BY <1>2, <1>10 DEF P!paymentVars, P!book, Twice
<1>11. CASE Twice' = Twice \cup {m} /\ DecisionOf(m) = "applied" /\ DecisionOf(m)' = "applied"
  <2>1. UNCHANGED P!bank
    <3>1. ~P!B!Decide(m)
      BY <1>11 DEF P!B!Decide, P!B!Apply, P!B!Reject
    <3> QED
      BY <1>7, <3>1
  <2>2. P!Contradict(m)
    BY <1>2, <1>11, <2>1 DEF P!Contradict, Twice
  <2> QED
    BY <2>2 DEF P!Next
<1> QED
  BY <1>7, <1>8, <1>9, <1>10, <1>11

LEMMA CommitResultIsClose ==
  ASSUME TypeInv, InboxInv, WorkersInv, NEW w \in Workers, T!CommitResult(w), UNCHANGED vars
  PROVE  P!Next \/ UNCHANGED P!paymentVars
<1> DEFINE Said(e) == IF results[e.tx][e.seq] = "applied" THEN "COMPLETED" ELSE "REJECTED"
<1>1. UNCHANGED P!bank /\ UNCHANGED Twice
  BY BankQuiet DEF vars, tables
<1>2. UNCHANGED rows
  BY DEF T!CommitResult
<1>3. PICK e \in evt[w] :
        status' = IF hit[w] THEN [status EXCEPT ![e.tx] = T!StatusOf(Answers[e.tx][e.seq])]
                            ELSE status
  BY DEF T!CommitResult
<1>4. e.tx \in Commands /\ e.seq \in DOMAIN results[e.tx] /\ e.seq \in Nat \ {0}
  BY DEF WorkersInv, WorkersOK, ResultsExist, T!Event
<1>5. T!StatusOf(Answers[e.tx][e.seq]) = Said(e)
  BY <1>4 DEF Answers, T!StatusOf
<1>6. CASE ~hit[w]
  BY <1>1, <1>2, <1>3, <1>6 DEF P!paymentVars, P!book, Twice
<1>7. CASE hit[w]
  <2> DEFINE t == e.tx
             J == results[t]
  <2>1. status[t] = "PENDING" /\ status' = [status EXCEPT ![t] = Said(e)]
    BY <1>3, <1>5, <1>7 DEF WorkersInv, HitsPending
  <2>2. J \in Seq({"applied"} \cup Reasons)
    BY <1>4 DEF TypeInv, TypeOK
  <2>3. J # << >> /\ 1 \in DOMAIN J
    BY <1>4, <2>2
  <2>4. CASE J[e.seq] = "applied"
    <3>1. DecisionOf(t) = "applied"
      BY <1>4, <2>3, <2>4 DEF InboxInv, AppliedIsFirst, DecisionOf
    <3> QED
      BY <1>1, <1>2, <1>4, <2>1, <2>4, <3>1 DEF P!Close, P!Next, Twice
  <2>5. CASE J[e.seq] # "applied"
    <3>1. DecisionOf(t) = "rejected" \/ t \in Twice
      <4>1. CASE J[1] # "applied"
        BY <2>3, <4>1 DEF DecisionOf
      <4>2. CASE J[1] = "applied"
        <5>1. Len(J) > 1
          BY <1>4, <2>2, <2>5, <4>2
        <5> QED
          BY <1>4, <2>3, <4>2, <5>1 DEF Twice, Applied
      <4> QED
        BY <4>1, <4>2
    <3> QED
      BY <1>1, <1>2, <1>4, <2>1, <2>5, <3>1 DEF P!Close, P!Next, Twice
  <2> QED
    BY <2>4, <2>5
<1> QED
  BY <1>6, <1>7

LEMMA StepOfPayments ==
  /\ TypeInv /\ InboxInv /\ LedgerInv /\ CommandsAreSent /\ WorkersInv
  /\ [SagaNext]_sagaVars
  => [P!Next]_(P!paymentVars)
<1> SUFFICES ASSUME TypeInv, InboxInv, LedgerInv, CommandsAreSent, WorkersInv,
                    [SagaNext]_sagaVars
             PROVE  P!Next \/ UNCHANGED P!paymentVars
  OBVIOUS
<1>q. ASSUME UNCHANGED <<accounts, balance, results, rows, status>>
      PROVE  UNCHANGED P!paymentVars
  BY <1>q, BankQuiet DEF P!paymentVars, P!book, Twice
<1>1. ASSUME NEW p \in Commands, HandlePost(p)
      PROVE  P!Next \/ UNCHANGED P!paymentVars
  BY <1>1, StoreIsAccept
<1>2. ASSUME NEW h \in Handlers, HandlerStep(h)
      PROVE  P!Next \/ UNCHANGED P!paymentVars
  <2>1. UNCHANGED tVars
    BY <1>2 DEF HandlerStep
  <2>2. CASE Commit(h) \/ PublishFailed(h)
    BY <2>1, <2>2, AnswerIsDecide
  <2>3. CASE \/ SkipProcessed(h) \/ MarkProcessed(h) \/ CheckTransfer(h) \/ Debit(h)
             \/ DebitNoRow(h) \/ DebitReason(h) \/ Credit(h) \/ DeadlockVictim(h)
    <3>1. UNCHANGED tables
      BY <2>3 DEF SkipProcessed, MarkProcessed, CheckTransfer, Debit, DebitNoRow,
                  DebitReason, Credit, DeadlockVictim
    <3> QED
      BY <2>1, <3>1, <1>q DEF tables, tVars
  <2> QED
    BY <1>2, <2>2, <2>3 DEF HandlerStep, Step
<1>3. ASSUME NEW h \in Handlers,
             HandlerFault(h) \/ \E m \in Commands : ReceiveCommand(h, m)
      PROVE  UNCHANGED P!paymentVars
  BY <1>3, <1>q
  DEF HandlerFault, StatementError, Abort, ReceiveCommand, Receive, tables, tVars
<1>4. ASSUME NEW w \in Workers, WorkerStep(w) \/ WorkerFault(w)
                                 \/ \E e \in T!Events : ReceiveResult(w, e)
      PROVE  P!Next \/ UNCHANGED P!paymentVars
  <2>1. UNCHANGED vars /\ UNCHANGED rows
    BY <1>4, WorkersKeepRows
  <2>2. CASE T!CommitResult(w)
    BY <2>1, <2>2, CommitResultIsClose
  <2>3. CASE ~T!CommitResult(w)
    <3>1. UNCHANGED status
      BY <1>4, <2>3 DEF WorkerStep, T!WorkerStep, T!SkipProcessed, T!MarkProcessed,
         T!MarkStatus, WorkerFault, T!Abort, ReceiveResult, T!Receive, T!db
    <3> QED
      BY <2>1, <3>1, <1>q DEF vars, tables
  <2> QED
    BY <2>2, <2>3
<1>5. CASE UNCHANGED <<vars, tVars>>
  BY <1>5, <1>q DEF vars, tables, tVars
<1> QED
  BY <1>1, <1>2, <1>3, <1>4, <1>5, SagaCases

(* The two services keep the promise of Payments together, with any number *)
(* of replicas, messages in any order and again, deadlocks, crashes and    *)
(* messages given up, as long as no amount needs rounding: only accepted   *)
(* payments move money, once and in one step, and a closed payment says    *)
(* what was decided, or that it was contradicted (Create, processInTx,     *)
(* HandleAccountsResult).                                                  *)
THEOREM ServicesImplementPayments ==
  ASSUME WholeAmounts PROVE SagaSafeSpec => ImplementsPayments
<1>1. SagaSafeSpec => [](TypeInv /\ LedgerInv)
  BY AccountsKept, LedgerAlways, PTL
<1>2. SagaSafeSpec =>
        [](TypeInv /\ InboxInv /\ AnswersBounded /\ CommandsAreSent)
  BY SentAlways
<1>3. SagaSafeSpec => [](TypeInv /\ WorkersInv)
  BY <1>2, WorkersInit, WorkersInvStep, PTL DEF SagaSafeSpec
<1> QED
  BY <1>1, <1>2, <1>3, PaymentsInit, StepOfPayments, PTL
  DEF SagaSafeSpec, ImplementsPayments, P!SafeSpec

-----------------------------------------------------------------------------
(***************************************************************************)
(* What a client may rely on, amounts that need rounding included.  A      *)
(* request that holds a key between INSERT and COMMIT is alone with it, so *)
(* the keys of stored payments differ; accounts-ms only moves money for    *)
(* stored payments.                                                        *)
(***************************************************************************)
KeysDiffer == \A p, q \in rows : Key[p] = Key[q] => p = q

KeysHeldOnce ==
  /\ post \in [Commands -> T!PostStates]
  /\ \A p \in Commands : post[p] = "commit" =>
       /\ \A q \in rows : Key[q] # Key[p]
       /\ \A q \in Commands \ {p} : post[q] = "commit" => Key[q] # Key[p]

KeysInv == KeysDiffer /\ KeysHeldOnce

LEMMA KeysInit == SagaInit => KeysInv
BY DEF SagaInit, T!Init, KeysInv, KeysDiffer, KeysHeldOnce, T!PostStates

LEMMA PostKeepsKeys ==
  ASSUME KeysInv, NEW p \in Commands, T!Submit(p) \/ T!PostStep(p) \/ T!PostFault(p)
  PROVE  KeysInv'
<1> USE DEF KeysInv, KeysHeldOnce, KeysDiffer, T!PostStates
<1>1. CASE UNCHANGED rows /\ \E s \in T!PostStates \ {"commit"} : post' = [post EXCEPT ![p] = s]
  BY <1>1
<1>2. CASE T!Insert(p)
  <2>1. UNCHANGED rows
    BY <1>2 DEF T!Insert, T!db
  <2>2. \A q \in Commands \ {p} : post[q] = "commit" => Key[q] # Key[p]
    BY <1>2 DEF T!Insert, T!KeyLocked
  <2>3. CASE \A q \in rows : Key[q] # Key[p]
    BY <1>2, <2>1, <2>2, <2>3 DEF T!Insert
  <2>4. CASE ~ \A q \in rows : Key[q] # Key[p]
    <3>1. T!KeyHolders(p) # {}
      BY <2>4 DEF T!KeyHolders
    <3>2. post' = [post EXCEPT ![p] = "lookup"]
      BY <1>2, <3>1 DEF T!Insert
    <3> QED
      BY <1>1, <2>1, <3>2
  <2> QED
    BY <2>3, <2>4
<1>3. CASE T!CommitCreate(p) \/ T!CommitUnheard(p)
  <2>1. post[p] = "commit" /\ rows' = rows \cup {p}
    BY <1>3 DEF T!CommitCreate, T!CommitUnheard, T!Store
  <2>2. \E s \in {"accepted", "failed"} : post' = [post EXCEPT ![p] = s]
    BY <1>3 DEF T!CommitCreate, T!CommitUnheard
  <2> QED
    BY <2>1, <2>2
<1>4. CASE T!Submit(p) \/ T!Lookup(p) \/ T!FailPost(p)
  BY <1>1, <1>4 DEF T!Submit, T!Lookup, T!FailPost, T!db
<1> QED
  BY <1>2, <1>3, <1>4 DEF T!PostStep, T!PostFault

LEMMA KeysStep == KeysInv /\ [SagaNext]_sagaVars => KeysInv'
<1> SUFFICES ASSUME KeysInv, [SagaNext]_sagaVars PROVE KeysInv'
  OBVIOUS
<1>q. ASSUME UNCHANGED <<rows, post>> PROVE KeysInv'
  BY <1>q DEF KeysInv, KeysDiffer, KeysHeldOnce
<1>1. ASSUME NEW p \in Commands, HandlePost(p) PROVE KeysInv'
  BY <1>1, PostKeepsKeys DEF HandlePost
<1>2. ASSUME NEW h \in Handlers,
             HandlerStep(h) \/ HandlerFault(h) \/ \E m \in Commands : ReceiveCommand(h, m)
      PROVE  KeysInv'
  BY <1>2, <1>q DEF HandlerStep, HandlerFault, ReceiveCommand, tVars
<1>3. ASSUME NEW w \in Workers,
             WorkerStep(w) \/ WorkerFault(w) \/ \E e \in T!Events : ReceiveResult(w, e)
      PROVE  KeysInv'
  BY <1>3, <1>q DEF WorkerStep, T!WorkerStep, T!SkipProcessed, T!MarkProcessed,
     T!MarkStatus, T!CommitResult, WorkerFault, T!Abort, ReceiveResult, T!Receive, T!db,
     T!posts
<1>4. CASE UNCHANGED <<vars, tVars>>
  BY <1>4, <1>q DEF tVars
<1> QED
  BY <1>1, <1>2, <1>3, <1>4, SagaCases

(* What is answered, and what the status says, agree with the money. *)
OnlyStoredIsAnswered == \A t \in Commands : results[t] # << >> => t \in rows

StatusTellsMoney ==
  \A t \in Commands :
    /\ status[t] = "COMPLETED" => Applied(t)
    /\ status[t] = "REJECTED" => results[t] # << >> /\ (Applied(t) => t \in Twice)

KeyPaysOnce ==
  \A p, q \in Commands : Applied(p) /\ Applied(q) /\ Key[p] = Key[q] => p = q

LEMMA AnswerKeepsStatus ==
  ASSUME TypeInv, InboxInv, StatusTellsMoney, NEW h \in Handlers,
         Commit(h) \/ PublishFailed(h), UNCHANGED status
  PROVE  StatusTellsMoney'
<1> DEFINE answer == IF pc[h] = "commit" THEN "applied" ELSE reason[h]
<1>1. PICK m \in Commands : m = cmd[h]
  BY DEF Commit, PublishFailed, TypeInv, Working, Idle
<1>2. results' = [results EXCEPT ![m] = Append(@, answer)]
  BY <1>1 DEF Commit, PublishFailed
<1>3. answer = "applied" => results[m] = << >>
  <2>1. Commit(h) => results[m] = << >>
    BY <1>1 DEF Commit, InboxInv, InsertedIsNew, AnsweredIffProcessed, TxSteps, ExecSteps
  <2>2. reason[h] # "applied"
    BY DEF TypeInv, TypeOK, Reasons
  <2> QED
    BY <2>1, <2>2 DEF Commit, PublishFailed
<1>4. \A t \in Commands \ {m} : results'[t] = results[t]
  BY <1>2 DEF TypeInv, TypeOK
<1>5. results'[m] = Append(results[m], answer)
  BY <1>2 DEF TypeInv, TypeOK
<1>6. PICK J \in Seq({"applied"} \cup Reasons) : J = results[m]
  BY DEF TypeInv, TypeOK
<1>7. PICK a \in {"applied"} \cup Reasons : a = answer
  BY DEF TypeInv, TypeOK
<1> HIDE DEF answer
<1>8. /\ Append(J, a) # << >> /\ Len(Append(J, a)) > Len(J)
      /\ \A k \in DOMAIN J : k \in DOMAIN Append(J, a) /\ Append(J, a)[k] = J[k]
      /\ \A k \in DOMAIN Append(J, a) : k \in DOMAIN J \/ Append(J, a)[k] = a
  BY <1>6
<1>9. Applied(m) => Applied(m)'
  BY <1>5, <1>6, <1>7, <1>8 DEF Applied
<1>10. Applied(m)' => Applied(m) \/ results[m] = << >>
  BY <1>3, <1>5, <1>6, <1>7, <1>8 DEF Applied
<1>11. m \in Twice => m \in Twice'
  BY <1>5, <1>6, <1>7, <1>8, <1>9 DEF Twice
<1>12. ASSUME NEW t \in Commands \ {m}
       PROVE  (Applied(t)' <=> Applied(t)) /\ (t \in Twice' <=> t \in Twice)
  BY <1>4, <1>12 DEF Applied, Twice
<1> QED
  BY <1>4, <1>5, <1>6, <1>7, <1>8, <1>9, <1>10, <1>11, <1>12 DEF StatusTellsMoney

LEMMA CloseKeepsStatus ==
  ASSUME TypeInv, WorkersInv, StatusTellsMoney, NEW w \in Workers,
         T!CommitResult(w), UNCHANGED vars
  PROVE  StatusTellsMoney'
<1> DEFINE Said(e) == IF results[e.tx][e.seq] = "applied" THEN "COMPLETED" ELSE "REJECTED"
<1>1. UNCHANGED results
  BY DEF vars, tables
<1>2. PICK e \in evt[w] :
        status' = IF hit[w] THEN [status EXCEPT ![e.tx] = T!StatusOf(Answers[e.tx][e.seq])]
                            ELSE status
  BY DEF T!CommitResult
<1>3. e.tx \in Commands /\ e.seq \in DOMAIN results[e.tx] /\ e.seq \in Nat \ {0}
  BY DEF WorkersInv, WorkersOK, ResultsExist, T!Event
<1>4. T!StatusOf(Answers[e.tx][e.seq]) = Said(e)
  BY <1>3 DEF Answers, T!StatusOf
<1>5. PICK J \in Seq({"applied"} \cup Reasons) : J = results[e.tx]
  BY <1>3 DEF TypeInv, TypeOK
<1>6. J # << >> /\ e.seq \in 1..Len(J)
  BY <1>3, <1>5
<1>7. J[e.seq] = "applied" => Applied(e.tx)
  BY <1>3, <1>5 DEF Applied
<1>8. J[e.seq] # "applied" /\ Applied(e.tx) => e.tx \in Twice
  <2> SUFFICES ASSUME J[e.seq] # "applied", NEW i \in DOMAIN J, J[i] = "applied"
               PROVE  Len(J) > 1
    BY <1>3, <1>5 DEF Applied, Twice
  <2>1. i \in 1..Len(J) /\ Len(J) \in Nat /\ i # e.seq
    BY <1>5
  <2> QED
    BY <1>6, <2>1
<1>9. /\ \A t \in Commands : (Applied(t)' <=> Applied(t)) /\ (t \in Twice' <=> t \in Twice)
  BY <1>1 DEF Applied, Twice
<1>10. status' \in {status, [status EXCEPT ![e.tx] = Said(e)]}
  BY <1>2, <1>4
<1>11. \A t \in Commands \ {e.tx} : status'[t] = status[t]
  BY <1>10 DEF WorkersInv, WorkersOK
<1>12. status'[e.tx] \in {status[e.tx], Said(e)}
  BY <1>3, <1>10 DEF WorkersInv, WorkersOK
<1>13. /\ status'[e.tx] = "COMPLETED" => Applied(e.tx)
       /\ status'[e.tx] = "REJECTED" =>
            results[e.tx] # << >> /\ (Applied(e.tx) => e.tx \in Twice)
  BY <1>3, <1>5, <1>6, <1>7, <1>8, <1>12 DEF StatusTellsMoney
<1> QED
  BY <1>1, <1>9, <1>11, <1>13 DEF StatusTellsMoney

LEMMA StatusStep ==
  /\ TypeInv /\ InboxInv /\ CommandsAreSent /\ WorkersInv
  /\ OnlyStoredIsAnswered /\ StatusTellsMoney /\ [SagaNext]_sagaVars
  => (OnlyStoredIsAnswered /\ StatusTellsMoney)'
<1> SUFFICES ASSUME TypeInv, InboxInv, CommandsAreSent, WorkersInv, OnlyStoredIsAnswered,
                    StatusTellsMoney, [SagaNext]_sagaVars
             PROVE  (OnlyStoredIsAnswered /\ StatusTellsMoney)'
  OBVIOUS
<1>q. ASSUME UNCHANGED <<results, status>>, rows \subseteq rows'
      PROVE  (OnlyStoredIsAnswered /\ StatusTellsMoney)'
  BY <1>q DEF OnlyStoredIsAnswered, StatusTellsMoney, Applied, Twice
<1>1. ASSUME NEW p \in Commands, HandlePost(p)
      PROVE  (OnlyStoredIsAnswered /\ StatusTellsMoney)'
  <2>1. UNCHANGED results
    BY <1>1 DEF HandlePost, vars, tables
  <2>2. UNCHANGED status /\ rows \subseteq rows'
    BY <1>1, RowsStep
  <2> QED
    BY <2>1, <2>2, <1>q
<1>2. ASSUME NEW h \in Handlers, HandlerStep(h)
      PROVE  (OnlyStoredIsAnswered /\ StatusTellsMoney)'
  <2>1. UNCHANGED <<rows, status>>
    BY <1>2 DEF HandlerStep, tVars
  <2>2. CASE Commit(h) \/ PublishFailed(h)
    <3>1. StatusTellsMoney'
      BY <2>1, <2>2, AnswerKeepsStatus
    <3>2. cmd[h] \in rows
      BY <2>2 DEF Commit, PublishFailed, CommandsAreSent, Idle
    <3>3. \A t \in Commands \ {cmd[h]} : results'[t] = results[t]
      BY <2>2 DEF Commit, PublishFailed, TypeInv, TypeOK
    <3> QED
      BY <2>1, <3>1, <3>2, <3>3 DEF OnlyStoredIsAnswered
  <2>3. CASE \/ SkipProcessed(h) \/ MarkProcessed(h) \/ CheckTransfer(h) \/ Debit(h)
             \/ DebitNoRow(h) \/ DebitReason(h) \/ Credit(h) \/ DeadlockVictim(h)
    <3>1. UNCHANGED results
      BY <2>3 DEF SkipProcessed, MarkProcessed, CheckTransfer, Debit, DebitNoRow,
                  DebitReason, Credit, DeadlockVictim, tables
    <3> QED
      BY <2>1, <3>1, <1>q
  <2> QED
    BY <1>2, <2>2, <2>3 DEF HandlerStep, Step
<1>3. ASSUME NEW h \in Handlers,
             HandlerFault(h) \/ \E m \in Commands : ReceiveCommand(h, m)
      PROVE  (OnlyStoredIsAnswered /\ StatusTellsMoney)'
  BY <1>3, <1>q
  DEF HandlerFault, StatementError, Abort, ReceiveCommand, Receive, tables, tVars
<1>4. ASSUME NEW w \in Workers, WorkerStep(w) \/ WorkerFault(w)
                                 \/ \E e \in T!Events : ReceiveResult(w, e)
      PROVE  (OnlyStoredIsAnswered /\ StatusTellsMoney)'
  <2>1. UNCHANGED vars /\ UNCHANGED <<rows, results>>
    BY <1>4, WorkersKeepRows DEF vars, tables
  <2>2. CASE T!CommitResult(w)
    BY <2>1, <2>2, CloseKeepsStatus DEF OnlyStoredIsAnswered
  <2>3. CASE ~T!CommitResult(w)
    <3>1. UNCHANGED status
      BY <1>4, <2>3 DEF WorkerStep, T!WorkerStep, T!SkipProcessed, T!MarkProcessed,
         T!MarkStatus, WorkerFault, T!Abort, ReceiveResult, T!Receive, T!db
    <3> QED
      BY <2>1, <3>1, <1>q
  <2> QED
    BY <2>2, <2>3
<1>5. CASE UNCHANGED <<vars, tVars>>
  BY <1>5, <1>q DEF vars, tables, tVars
<1> QED
  BY <1>1, <1>2, <1>3, <1>4, <1>5, SagaCases

(* A payment shown as COMPLETED has moved its money, and one shown as      *)
(* REJECTED has not, unless it also got the answer "applied" before        *)
(* another: whatever is delivered twice, late or never, and with any       *)
(* amounts (HandleAccountsResult).                                         *)
THEOREM StatusIsTrue == SagaSafeSpec => []StatusTellsMoney
<1>1. SagaInit => OnlyStoredIsAnswered /\ StatusTellsMoney
  BY DEF SagaInit, Init, T!Init, OnlyStoredIsAnswered, StatusTellsMoney
<1>2. SagaSafeSpec => [](TypeInv /\ WorkersInv)
  BY SentAlways, WorkersInit, WorkersInvStep, PTL DEF SagaSafeSpec
<1> QED
  BY <1>1, <1>2, SentAlways, StatusStep, PTL DEF SagaSafeSpec

(* However often a client retries under one idempotency key, and whatever  *)
(* fails on the way, its money moves for one payment at most, and for that *)
(* one once (Create of transactions-ms, processInTx of accounts-ms).       *)
THEOREM OneKeyPaysOnce == SagaSafeSpec => [](KeyPaysOnce /\ AppliedIsFirst)
<1>1. SagaInit => OnlyStoredIsAnswered /\ StatusTellsMoney
  BY DEF SagaInit, Init, T!Init, OnlyStoredIsAnswered, StatusTellsMoney
<1>2. SagaSafeSpec => [](TypeInv /\ WorkersInv)
  BY SentAlways, WorkersInit, WorkersInvStep, PTL DEF SagaSafeSpec
<1>3. SagaSafeSpec => []OnlyStoredIsAnswered
  BY <1>1, <1>2, SentAlways, StatusStep, PTL DEF SagaSafeSpec
<1>4. SagaSafeSpec => []KeysInv
  BY KeysInit, KeysStep, PTL DEF SagaSafeSpec
<1>5. OnlyStoredIsAnswered /\ KeysInv => KeyPaysOnce
  BY DEF OnlyStoredIsAnswered, KeysInv, KeysDiffer, KeyPaysOnce, Applied
<1>6. InboxInv => AppliedIsFirst
  BY DEF InboxInv
<1> QED
  BY <1>3, <1>4, <1>5, <1>6, SentAlways, PTL

=============================================================================
