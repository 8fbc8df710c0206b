-------------------------------- MODULE Saga --------------------------------
(***************************************************************************)
(* The whole life of a payment: transactions-ms accepts it and sends a     *)
(* command, accounts-ms decides and answers, transactions-ms closes it.    *)
(* The commands that accounts-ms receives are those in the outbox of       *)
(* transactions-ms, and the answers that transactions-ms receives are      *)
(* those in the outbox of accounts-ms; relay and topic deliver them in any *)
(* order, any number of times (OutboxRelay, KafkaConsumer).  The accounts  *)
(* are those opened before.                                                *)
(*                                                                         *)
(* A message can be lost in two ways.  When its handler returns an error,  *)
(* and that was the last of the consumer's attempts, it ends in the dead   *)
(* letter queue, which nothing reads (OnlyPoisonIsGivenUp in KafkaConsumer *)
(* says when that may happen).  And as long as a group has committed no    *)
(* offset in a partition, whoever gets the partition starts at its end:    *)
(* when the group first starts, and after a crash or a rebalance.          *)
(***************************************************************************)
EXTENDS AccountsMs

CONSTANTS
  Keys, Key,
  PartitionOf,    \* the partition, of either topic, of a payment's messages
  Workers,        \* consumer goroutines of transactions-ms
  MaxAnswers

(* MaxFailures bounds the crashes and errors of both services together.    *)
(* MaxAnswers hides no answer: each handler answers a command at most once.*)
ASSUME AnswersAssumption ==
  /\ IsFiniteSet(Handlers)
  /\ MaxAnswers \in Nat /\ MaxAnswers >= Cardinality(Handlers)
ASSUME PartitionAssumption ==
  PartitionOf \in [Commands -> {PartitionOf[t] : t \in Commands}]

VARIABLES
  rows, status, requested, events, inbox, post, reply,         \* transactions-ms
  tPc, evt, hit, tFailures,
  aOffsets,     \* partitions with a committed offset of the group accounts-ms
  aLost,        \* payments whose command is lost and not in the inbox
  tOffsets,     \* partitions with one of the group transactions-ms
  tLost,        \* PENDING payments of which a result is lost
  uncommitted   \* how often an offset was not committed: a fault as well

(* What the messages of accounts-ms tell transactions-ms: the two event    *)
(* types, AccountsTransferApplied and AccountsTransferFailed.              *)
Answers ==
  [t \in Commands |->
    [i \in DOMAIN results[t] |->
      IF results[t][i] = "applied" THEN "applied" ELSE "failed"]]

T == INSTANCE TransactionsMs
       WITH pc <- tPc, failures <- tFailures, answers <- Answers

tVars == <<rows, status, requested, events, inbox, post, reply, tPc, evt, hit,
           tFailures>>
aDelivery == <<aOffsets, aLost>>
tDelivery == <<tOffsets, tLost>>
delivery == <<aDelivery, tDelivery, uncommitted>>
sagaVars == <<vars, tVars, delivery>>

SagaInit ==
  /\ Init /\ T!Init
  /\ aOffsets = {} /\ aLost = {} /\ tOffsets = {} /\ tLost = {}
  /\ uncommitted = 0

Fault == failures + tFailures + uncommitted < MaxFailures

(***************************************************************************)
(* transactions-ms accepts payments.                                       *)
(***************************************************************************)
HandlePost(p) ==
  /\ UNCHANGED <<vars, delivery>>
  /\ T!Submit(p) \/ T!PostStep(p) \/ (Fault /\ T!PostFault(p))

(***************************************************************************)
(* accounts-ms decides them.                                               *)
(***************************************************************************)
(* Mutant: the command is sent before the transaction that stores the      *)
(* payment commits.                                                        *)
Sent_BeforeCommit == requested \cup {p \in Commands : post[p] = "commit"}

(* The commands that the relay of transactions-ms has sent, or will send. *)
Sent == requested

ReceiveCommand(h, m) ==
  /\ m \in Sent
  /\ Receive(h, m)
  /\ UNCHANGED <<tVars, delivery>>

(* The partition of m is assigned before the group has an offset in it. *)
SkipCommand(m) ==
  /\ m \in Sent \ processed
  /\ PartitionOf[m] \notin aOffsets
  /\ aLost' = aLost \cup {m}
  /\ UNCHANGED <<vars, tVars, aOffsets, tDelivery, uncommitted>>

(* CommitMessages, after the handler has returned nil or the message has   *)
(* been given up.                                                          *)
CommandDone(h) == aOffsets' = aOffsets \cup {PartitionOf[cmd[h]]}

(* It fails, or the process stops before it. *)
Uncommitted == Fault /\ uncommitted' = uncommitted + 1

HandlerStep(h) ==
  /\ Step(h)
  /\ \/ pc'[h] # Idle /\ UNCHANGED <<aOffsets, uncommitted>>
     \/ pc'[h] = Idle /\ CommandDone(h) /\ UNCHANGED uncommitted
     \/ pc'[h] = Idle /\ Uncommitted /\ UNCHANGED aOffsets
  /\ aLost' = aLost \ processed'
  /\ UNCHANGED <<tVars, tDelivery>>

HandlerFault(h) ==
  /\ Fault
  /\ \/ StatementError(h) /\ UNCHANGED aDelivery
     \/ Abort(h) /\ UNCHANGED aDelivery
     \/ Abort(h) /\ CommandDone(h) /\ aLost' = aLost \cup ({cmd[h]} \ processed)
  /\ UNCHANGED <<tVars, tDelivery, uncommitted>>

(***************************************************************************)
(* transactions-ms closes them.                                            *)
(***************************************************************************)
ReceiveResult(w, e) ==
  /\ UNCHANGED <<vars, delivery>>
  /\ T!Receive(w, e)

(* A payment that is closed misses no result. *)
Waiting(S) == {t \in S : status[t] = "PENDING"}

SkipResult(e) ==
  /\ e \in T!Events \ inbox
  /\ PartitionOf[e.tx] \notin tOffsets
  /\ tLost' = Waiting(tLost \cup {e.tx})
  /\ UNCHANGED <<vars, tVars, aDelivery, tOffsets, uncommitted>>

ResultDone(w) == \E e \in evt[w] : tOffsets' = tOffsets \cup {PartitionOf[e.tx]}

WorkerStep(w) ==
  /\ UNCHANGED <<vars, aDelivery>>
  /\ T!WorkerStep(w)
  /\ \/ tPc'[w] # "idle" /\ UNCHANGED <<tOffsets, uncommitted>>
     \/ tPc'[w] = "idle" /\ ResultDone(w) /\ UNCHANGED uncommitted
     \/ tPc'[w] = "idle" /\ Uncommitted /\ UNCHANGED tOffsets
  /\ tLost' = {t \in tLost : status'[t] = "PENDING"}

WorkerFault(w) ==
  /\ Fault
  /\ UNCHANGED <<vars, aDelivery, uncommitted>>
  /\ T!Abort(w)
  /\ \/ UNCHANGED tDelivery
     \/ ResultDone(w) /\ tLost' = Waiting(tLost \cup {e.tx : e \in evt[w]})

-----------------------------------------------------------------------------
Skip == (\E m \in Commands : SkipCommand(m)) \/ (\E e \in T!Events : SkipResult(e))

SagaNext ==
  \/ \E p \in Commands : HandlePost(p)
  \/ \E h \in Handlers :
       HandlerStep(h) \/ HandlerFault(h) \/ \E m \in Commands : ReceiveCommand(h, m)
  \/ \E w \in Workers :
       WorkerStep(w) \/ WorkerFault(w) \/ \E e \in T!Events : ReceiveResult(w, e)
  \/ Skip

SagaSafeSpec == SagaInit /\ [][SagaNext]_sagaVars

(* Statements return, and a message is delivered until it has been handled *)
(* or is lost.                                                             *)
SagaSpec ==
  /\ SagaSafeSpec
  /\ \A h \in Handlers : WF_sagaVars(HandlerStep(h))
  /\ \A w \in Workers : WF_sagaVars(WorkerStep(w))
  /\ \A m \in Commands :
       SF_sagaVars(m \notin aLost /\ \E h \in Handlers : ReceiveCommand(h, m))
  /\ \A t \in Commands, i \in 1..MaxAnswers :
       SF_sagaVars(/\ i \in DOMAIN results[t] /\ t \notin tLost
                   /\ \E w \in Workers : ReceiveResult(w, [tx |-> t, seq |-> i]))

-----------------------------------------------------------------------------
(* Both services together keep the promise of Payments: only accepted      *)
(* payments move money, each at most once and in one step, and a closed    *)
(* payment says what was decided about it.                                 *)
P == INSTANCE Payments
       WITH decision <- [t \in Commands |-> DecisionOf(t)],
            accepted <- rows,
            contradicted <- {t \in Commands : Applied(t) /\ Len(results[t]) > 1}

ImplementsPayments == P!SafeSpec

(* accounts-ms answers as TransactionsMs assumes it does (Answer): only    *)
(* about stored transactions, and "applied" only first.                    *)
MeetsAssumption == T!SafeSpec

(* An accepted payment is closed in the end, although handlers block one   *)
(* another, crash and see messages again; only when its command or a       *)
(* result of it is lost can it stay PENDING: given up after a failed       *)
(* attempt, or skipped before the group's first offset in the partition.   *)
EveryPaymentCloses ==
  \A t \in Commands : t \in rows ~> status[t] # "PENDING" \/ t \in aLost \cup tLost

(* What is announced about a payment tells whether its money moved.        *)
AnnouncedTellsMoney ==
  \A t \in Commands : \A i \in DOMAIN events[t] :
    events[t][i] = "COMPLETED" <=> Applied(t)

=============================================================================
