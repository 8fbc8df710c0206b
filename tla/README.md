# Formal models of banking-platform-go

TLA+ models of the services' own logic, model-checked with TLC on small
instances, and theorems about them that TLAPS proves for every value of the
constants. Paths are relative to the root of the repository.

## 1. The system

Three Go services, each with its own PostgreSQL database, talk over Kafka:

```
 client --POST--> transactions-ms --transactions.commands--> accounts-ms
                        ^                                        |
                        +-----------accounts.tx-results----------+
                        |                                        |
                        +--transactions.events--> llm-ms <--chat-- client
                                     accounts.events (nobody reads it)
```

A payment is a saga. `transactions-ms` stores a PENDING transaction and sends a
command; `accounts-ms` moves the money or refuses, and answers;
`transactions-ms` closes the transaction and announces the result; `llm-ms`
keeps a read model of the results and explains them. Every service writes its
messages to an outbox table in the database transaction that changes its state;
a worker sends them; every consumer remembers the events it has processed in an
inbox table.

### Inventory

| Component | State | Operations | Hard behaviour | What makes it correct |
|---|---|---|---|---|
| accounts-ms command handler (`services/accounts-ms/internal/service/transaction_handler.go`, `repo/`) | `accounts.balance`, `processed_events`, `outbox`; per goroutine an open database transaction with its locks | handle a deposit, withdrawal, transfer; publish the failure in a new transaction | redelivery and replicas, row-lock deadlocks, failures between two database transactions, rounding | money moves at most once per command, ledger = applied commands, history without gaps, one answer |
| accounts-ms clients and accounts (`account_service.go`) | `clients`, `accounts`, `outbox` | create a client, an account | accounts appear while commands that name them run | an account is announced with balance 0 before it changes |
| transactions-ms requests (`http/handlers.go`, `transaction_service.go`: `Create`) | `transactions`, `outbox` | three POST operations under an idempotency key | concurrent requests with one key, lost responses, failed commits | one transaction per key, all replies agree, accepted means durable |
| transactions-ms results (`HandleAccountsResult`) | `transactions.status`, `processed_events`, `outbox` | close a transaction, announce it | redelivered, reordered and contradictory answers | a closed transaction stays closed, one event per answer |
| outbox relay (`pkg/outbox`, `outbox_repo.go`) | `outbox.published_at`, a batch per worker | fetch, send, mark | several workers, failed and ambiguous sends, crashes | nothing lost, nothing invented, order per key |
| Kafka consumer (`pkg/kafka/consumer.go`) | group offset, position, attempt counter | fetch, handle with retries, dead letter queue, commit | rebalances, late commits, poison messages, restarts | no offset passes unfinished work, a poison message does not block |
| Kafka producer (`pkg/kafka/producer.go`) | none | send | an error although the message was written | part of the relay |
| llm-ms read model and explanations (`services/llm-ms/internal/service/event_handler.go`) | `transactions_view`, `explanations`, `processed_events` | handle an event, generate an explanation in a goroutine | goroutine started after the commit and lost in a crash, or never started; two goroutines for one transaction; events out of order or lost | a result that is not lost is shown; the language model is asked at most once per event |
| llm-ms chat (`http/handlers.go`, `explainer/`) | channels of a stream | stream an answer as server-sent events | the client goes away, the stream fails | chunks in order, no goroutine left behind |
| saga across services (`transaction_handler.go`, `transaction_service.go` between two topics) | that of both services and their outboxes | accept, decide, answer, close | contradictory answers, answers in the wrong order, messages given up or skipped, deadlocks, crashes of either side | a closed payment says what was decided, an accepted payment is closed unless a message is lost |
| start-up and shutdown (`cmd/main.go` of each service) | goroutines, a context, requests in progress, what is closed | wait for the database, serve, stop on a signal or when the HTTP server fails | stop at any moment, slow clients, order of closing | nothing closed is used, no answer is cut off early, every stop ends |
| pkg/events, pkg/httpx, configuration, migrations | none | encoding, validation, error mapping | - | - |
| web | browser state | forms, polling | a new idempotency key per submit | - |

### Interaction

The components share no memory. A service's goroutines meet in its database;
services meet in Kafka topics. The models follow that cut: `AccountsMs` and
`TransactionsMs` see Kafka as a set of events, any of which can be delivered to
any replica, in any order, any number of times. `OutboxRelay` and
`KafkaConsumer` model the two ends of a topic and show which of that really
happens (duplicates: always possible; reordering: after a failed send; loss:
when a message is given up or a group starts at the end). `LlmMs` sees
its topic the same way. `Saga` joins `AccountsMs` and `TransactionsMs`: what one has in
its outbox is what the other can receive. Both have the two ways of loss as actions,
because what they promise depends on them. `Lifecycle` shows how the
goroutines that the other modules take for granted are started and stopped.

## 2. Modules

| Module | Models | Lines of argument |
|---|---|---|
| `Requests` | the payment commands, what each asks for, and how a `NUMERIC(20,4)` column rounds | shared by the payment modules |
| `Bank` | abstract specification of accounts-ms: a command is decided once, in one step, or not yet | refined by `AccountsMs` |
| `AccountsMs` | accounts-ms, one action per SQL statement another transaction can observe or wait for | runs `accounts_*` |
| `AccountsMsProofs` | inductive invariants, theorems, the algebra of sums, refinement of `Bank` | |
| `TransactionsMs` | transactions-ms, POST requests and result handler | runs `transactions_*` |
| `TransactionsMsProofs` | inductive invariants and theorems | |
| `Payments` | abstract specification of the platform: an accepted payment is decided once by `Bank`, then closed | refined by `Saga` |
| `Saga` | `AccountsMs` (extended) and `TransactionsMs` (an instance) composed, with one budget of faults and messages that are lost | runs `saga_*` |
| `SagaProofs` | that the composition implements `Payments` and meets the assumption of `TransactionsMs`; what a client may rely on | |
| `OutboxRelay` | the outbox table, the business transactions that fill it, the workers | runs `relay_*` |
| `OutboxRelayProofs` | inductive invariant and theorems | |
| `KafkaConsumer` | `Consumer` on one partition of a consumer group | run `consumer_group` |
| `KafkaConsumerProofs` | inductive invariant and theorems | |
| `LlmMs` | llm-ms: read model, inbox, and the goroutines that explain | run `llm_results` |
| `LlmMsProofs` | inductive invariant and theorems | |
| `ChatStream` | one `POST /chat` of llm-ms: the goroutine that reads the language model's stream, its channels, the HTTP handler | run `chat_stream` |
| `ChatStreamProofs` | inductive invariant and theorems | |
| `Lifecycle` | one service process from start to exit | run `service_stop` |
| `LifecycleProofs` | inductive invariant and theorems | |
| `MC*` | instances for TLC | |

Operators named `Something_Variant` with the comment "Mutant" are not part of a
specification: they are versions of `Something` with a plausible bug, kept to
show that each property can tell them from the code.

### From the code to the models

*Money* is counted in half quanta (half of the fourth decimal). Columns hold
even numbers; a requested amount may be odd, which stands for a fifth decimal
of 5. `Round` is what PostgreSQL does when such a value is assigned.
`WholeAmounts` says that no request has such an amount. Amounts below half a
quantum (which `CHECK (amount > 0)` refuses after rounding) are not represented.

*PostgreSQL at READ COMMITTED.* A transaction's writes are kept apart (in
`writes`, or implied by `pc`) and become visible in its commit action. An UPDATE
waits while another open transaction has updated its row (`RowLocked`); an
INSERT of a key waits while another open transaction has inserted it
(`InboxLocked`, `KeyLocked`). A cycle of waiting transactions is broken by
failing one statement (`DeadlockVictim`). A statement that reads only committed
data which can no longer change is merged with its neighbour; the comments say
where. `handleTransfer`'s two reads of the accounts are such a case.

*AccountsMs.* `pc` follows `processInTx`: `inbox` (MarkProcessed), `check`
(GetByID twice), `debit`, `exists` (the extra SELECT), `credit`, `commit`
(outbox rows and COMMIT), `publishFailed` (the new transaction). The outbox is
represented by its content per key: `results` (topic accounts.tx-results by
transaction) and `journal` (accounts.events by account). The ClientCreated row
of a client is implied by `clients`. The branches of an undecodable message,
`invalid_amount` and an unknown type are not modelled: transactions-ms, the only
writer of the topic, does not produce such commands. The same-account branch is
kept, although transactions-ms refuses such requests. Account ids are chosen by
the model rather than generated: a command may name an account before it is
created, which over-approximates the code.

*TransactionsMs.* A POST request that creates a transaction gives it its id, so
a transaction is named after its request; a client's retry is another request
with the same key. `status` is PENDING for transactions not yet stored, which no
reader can tell. The answers of accounts-ms come from the action `Answer`, whose
guard is what `AccountsMs` guarantees: answers only to commands sent, "applied"
only first (`AppliedIsFirst`).

*Payments and Saga.* `Saga` extends `AccountsMs`, takes `TransactionsMs` as an
instance whose `answers` are the outbox of accounts-ms, and conjoins their
actions: `ReceiveCommand` takes a command from `requested`, the outbox of
transactions-ms, and `Answers` shows `results`, the outbox of accounts-ms, to the
result handler, with every reason mapped to the one event type
AccountsTransferFailed. Delivery is what `OutboxRelay` and `KafkaConsumer` leave
of it: any message, in any order, any number of times, or not at all. A message is lost
in two ways. A handler that returns an error may have used up the consumer's
attempts, so an aborted message may be given up. And a group that has committed no
offset in a partition starts at its end (`StartOffset: LastOffset`), so whatever was
sent before, or received and not committed before a crash, may be skipped:
`SkipCommand`, `SkipResult`. `aOffsets` and `tOffsets` are the partitions with an
offset; `aLost` and `tLost` are the payments with a lost command and those still
PENDING with a lost result, and end the promise that the message is delivered again.
A handler that returns without an error lets the offset be committed, unless
CommitMessages fails or the process stops before it, which counts as a fault
(`Uncommitted`). `PartitionOf` puts the messages of a payment into one partition,
because their key is its id (`pkg/kafka/producer.go:27`). The
decision of a payment is the first answer in the outbox of accounts-ms;
`contradicted` are the applied payments with a second answer. In `Payments` such
a payment may be closed as REJECTED: the relay sends by `created_at`, the time of
BEGIN, so the failure can be sent before the success and be handled first.
`MaxAnswers` bounds what TLC enumerates and hides no answer: a handler answers a
command once at most, so there are no more answers than handlers
(`AnswersBounded` in `SagaProofs`).

*Lifecycle.* `main` follows `run`; `http`, `worker` and `req` follow the
goroutine of ListenAndServe, those of relay and consumer, and those of the
requests. The deferred Closes run in reverse order; the pool refuses connections
from the moment its Close is called, and Close returns when all have come back.
The module stands for accounts-ms and transactions-ms; llm-ms has neither relay
nor producer, and its goroutines that explain are not waited for (their end is a
crash in `LlmMs`). That `docker stop` kills a process after ten seconds is left
out, as are panics.

*OutboxRelay.* The two services have their own copies of `outbox_repo.go` with the
same statements; the module stands for both. `begun` is the order of BEGIN, which is what `created_at DEFAULT
now()` records; `stored` is the order of COMMIT. The row locks of
`FOR UPDATE SKIP LOCKED` last from `Fetch` to `EndFetch`, because the statement
runs on the pool. A failed send may have been written all the same. `Down` holds
the keys of topics that never accept a message; `Starved` rows have a whole batch of
such rows that are as old in front of them. Shutting down in the middle of a
batch has the effect of `Abandon`: the cancelled context also fails
MarkPublished.

*KafkaConsumer.* `position` is where the reader is, `current` the message the
loop works on. `AssignTo` moves `position` only: a member that loses the
partition finishes its message, and its late commit may be accepted (the broker
checks the generation of the member, not the partition) or refused. `Stop`
cancels the context of a member: what it asks of the database or of Kafka may
then fail or still succeed, the wait before the next attempt ends `Run` without a
commit (`Leave`), and kafka-go's CommitMessages chooses between the commit and
the cancelled context. `Crash` is the end of the process at any other point.

*LlmMs.* `pc` follows `handleTransactionEvent`: `inbox` (MarkProcessed),
`upsert`, `commit`, `start` (COMMIT has returned, the statement
`go h.generateExplanation` comes next). COMMIT takes effect in `Store`; the handler is
told so (`Commit`) or gets an error all the same (`CommitUnheard`), returns it, and
never starts the goroutine, because the redelivered event is in the inbox. `Explain`
is the `go` statement; a `Crash` may come before it. `task` follows the goroutine: `ask`
(about to call ExplainTransaction), `asked` (the call is made), `done`. `view` and
`explanation` hold the event a row was made from. A crash ends the goroutines of its
replica, and so does a shutdown, which does not wait for them. `lost` holds the events
given up by the consumer (`ReturnError`) or skipped (`Skip`), `offsets` the partitions
with a committed offset, as in `Saga`.

*ChatStream.* `pump` follows the goroutine of `newClaudeStream` from one channel
operation to the next, `reader` the loop of `Chat` with `claudeStream.Next`
unfolded into it. `cancelled` is the stream's own context, `live` the request's.
`errCh` is a counter, `chunks` a bounded sequence of chunk numbers. A write to
the client never blocks in the model (the server's WriteTimeout ends it). Chats
do not share anything, so one is enough.

## 3. Runs

Three runs are expected to be violated: each checks one statement of a comment
of the repository, and the counterexample is what the code does.

| Run | Checks | Bounds |
|---|---|---|
| `accounts_safety` | types, money at most once, inbox = outbox, gapless history, ledger, reasons that apply, refinement of `Bank` | 2 replicas, 5 commands, 3 accounts (one of another currency, created during the run), 1 fault |
| `accounts_half_ledger` | *violated* `LedgerMatchesAnswers`: a fifth decimal of an amount creates money | 1 replica, 2 transfers |
| `transactions_posts` | types, one transaction per key, replies agree, accepted is durable, status = first event, one event per answer, every request ends | 3 requests (2 with one key, 1 invalid), 2 replicas, 2 answers each, 2 faults |
| `saga_payments` | refinement of `Payments`, accounts-ms meets the assumption of `TransactionsMs`, every accepted payment is closed or one of its messages was lost | 2 crossing transfers that can deadlock, 2 replicas of accounts-ms, 1 of transactions-ms, 2 answers each, one partition, 1 fault in either service, an offset that is not committed included |
| `saga_two_verdicts` | *violated* `AnnouncedTellsMoney`: a payment whose money moved is announced as rejected | the same with no fault at all, and a transfer that can only be paid after the other |
| `relay_replicas` | nothing invented, nothing marked that was not sent, a row whose topic works is sent unless a whole batch of stuck rows is as old | 2 workers, 4 rows, 2 of them on a topic that is down, batch of 2 (so that the stuck rows can fill it), 1 failed send, 1 crash |
| `relay_single` | order per key without failed sends | 1 worker as deployed, 4 rows, batch of 2, 2 failed sends, 2 crashes |
| `relay_shared_batch` | *violated* `BatchesDisjoint`: two workers hold the same row | 2 workers, 2 rows |
| `consumer_group` | offset covers finished work, order, only poison is given up, poison does not block | 2 members, 3 messages, 2 retries, 2 errors, 3 faults (stops, crashes, rebalances, Kafka errors) |
| `llm_results` | types, at most one call of the language model per event and none before COMMIT, every result reaches the view or is lost, without faults every result in the view is explained | 2 replicas, 2 events about one transaction in one partition, 2 faults |
| `chat_stream` | types, chunks in order without gaps, done means complete, every chat ends, no goroutine is left | 5 chunks, a channel of 2 |
| `service_stop` | types, nothing closed is used, a request is cut off only after the timeout, every stop ends | 2 requests, 2 pings |

**Why the bounds are enough.** The races need two actors and a victim: two
replicas handling one command or two crossing ones, two requests inserting one
key, two workers and one row, an old and a new owner of a partition,
a request that is in progress and one that comes late. A request
that comes after the race needs no third one: the loser of the INSERT already
takes the path of a retry. One fault puts a crash, a failed statement or a failed
commit at every step of a handler. Amounts are chosen so that both of two
crossing transfers can be paid, which is when they deadlock, and so that a command
can be too large on an account that exists; in `saga_two_verdicts` one transfer can
be paid only after the other. In `consumer_group` the errors are as many as the retries,
so that a stop can fail the last attempt. In `relay_replicas` as many rows are
stuck as fit into a batch, and healthy rows are both before and behind them. One
partition is enough for `saga_payments` and `llm_results`: it is where the offset
committed for one message decides whether another can be skipped; messages in
partitions of their own are each on their own. Every safety invariant and every refinement
that a run checks is also proved, without any bound (section 4); what rests on the
bounds alone are the liveness properties.

**Other divergences seen while modelling.** They are visible in the models but
no run is spent on them:

- every error while a command is executed, a deadlock or a lost connection
  included, becomes a final rejection with the reason `unknown_error`
  (`transaction_handler.go:100-108`), a reason `pkg/events/types.go:92` does not
  list;
- a retry whose first request had an amount with a fifth decimal is told the
  rounded amount of the row, the first request the unrounded one it sent;
- RETURNING computes `old_balance` from the rounded balance and the unrounded
  amount (`account_repo.go:101`), so with a fifth decimal it is not the previous
  balance;
- a send that fails in the middle of a batch leaves its row for the next poll
  while later rows of the same key go out, so the order the comment at
  `pkg/kafka/producer.go:36-37` promises per key needs sends that do not fail:
  `KeyOrderWithoutOutage` states the order with that condition;
- a group with no committed offset starts at the end of the partition
  (`consumer.go:66`), so messages sent before are `skipped`, and so is a message it
  had received when it crashed before its first commit. A command or a result that is
  skipped leaves its payment PENDING for good, a skipped event leaves llm-ms without
  the transaction;
- rows that can never be sent stay at the head of the outbox, because a failed send
  is left for the next tick (`worker.go:105`) and FetchPending takes the oldest rows
  (`outbox_repo.go:42-43`): `BatchSize` of them fill every batch, and no newer row is
  sent as long as they are stuck (`Starved`);
- a message is tried MaxRetries + 1 times (`consumer.go:129`), where the comment
  above the loop says MaxRetries;
- when the dead letter queue cannot be written, `sendToDLQ` logs the error and
  `Run` commits the offset (`consumer.go:180`): the message is `dropped`;
- a stop of the service during the last attempt counts as its failure: the
  message goes to the dead letter queue, or, as the cancelled context also fails
  Publish, nowhere, and its offset may be committed (`consumer.go:147-157`);
- a payment with two verdicts may be stored as REJECTED although its money has
  moved (`Payments`, `Close`);
- when the HTTP server cannot listen, the service logs the error, stops in order
  and exits with code 0 (`cmd/main.go:106-109` of accounts-ms); a signal while it
  waits for the database is a fatal error with code 1;
- a crash of llm-ms or its shutdown after COMMIT, a COMMIT that takes effect and
  returns an error, or an error of the language model loses an explanation for good
  (`Crash`, `CommitUnheard`, `GiveUp`): the event is in the inbox, and no redelivery
  asks again, where `README.md:262` has one for
  every result; `event_handler.go:21-25` calls view and explanation a single
  transaction, which they are not;
- of two contradictory events about one transaction, the explanation of the
  older one may stay beside the view of the newer one.

**Deadlock** is checked in the runs of `AccountsMs` and `LlmMs`, where a message can
always be delivered again. The other runs switch it off because the modelled
systems do stop there: clients stop sending requests, business transactions end,
the partition is bounded, a chat is over, a process has exited.

**Fairness.**
`Saga`: statements return (weak fairness of a handler's steps); a message is
delivered again until it is handled or lost (strong fairness of receiving it: that is
enabled whenever some handler is idle). The consumer justifies it, because it
retries a failed handler, and once the group has an offset in the partition, a crash
leaves the offset at the message. Nothing is promised about a message that is given up
(`OnlyPoisonIsGivenUp` in `KafkaConsumer` says when) or skipped before the first
offset: its payment may stay PENDING. The relay is presumed to send the rows
(`EveryRowSettles`), which a dead topic can prevent (`Starved`).
`TransactionsMs`: a POST request's statements return.
`OutboxRelay`: the ticker polls for ever and calls return. A topic in `Down` stays so.
`LlmMs`: statements return, a call of the language model ends (it has a timeout
of 30 seconds), an event is delivered until it is handled or lost, as in `Saga`.
`ChatStream`: the two goroutines run. Nothing is assumed of the language model
or the client, who may both do nothing for ever.
`KafkaConsumer`: the group has an owner in the end, and a member works on its
message; a member whose context is cancelled leaves in the end.
`Lifecycle`: main and its goroutines go on, a select does not overlook a context
that is done for ever (Go chooses at random among the ready cases), statements
return, and ten seconds pass. Nothing is assumed of a client, who may keep a
request in progress for ever. Faults are never assumed to happen and are bounded in number.

## 4. Proofs

All theorems are proved by TLAPS without unproved steps. The assumptions are
those on the constants in the modules.

`AccountsMsProofs`. `TypeInv` adds to `TypeOK` what the control state implies: which
steps hold a command, which hold uncommitted writes, that a handler about to debit
or credit has passed the checks. `InboxInv` relates inbox, outbox and open
transactions: two open transactions never hold the inbox row of one event, and a
handler past MarkProcessed works on an event nobody has committed; this is why
"applied" can only be a first answer. `LedgerInv` says that a row updated by an open
transaction is locked by nobody else, so the values RETURNING gave are still the
committed ones at COMMIT: no update is lost. `AccountsImplementBank` maps the first
answer to a command to its decision, and shows that `Commit` is `Apply`, a first
`PublishFailed` is `Reject`, `CreateAccount` is `OpenAccount` and all else stutters.

`ReasonsHaveCause` needs two more. `HistoryInv`: the last entry of an account's
history is its balance, so that a balance a failed UPDATE has seen is in the history
for ever. `CauseInv`: the reason a handler carries from the rollback to the
transaction that stores it, and every reason stored, holds and goes on holding.
Both hold with any amounts.

`LedgerMatchesAnswers` is a sum over a set, which the model computes with
`MapThenSumSet`. That operator takes the elements one by one, by CHOOSE, and the
library's induction theorems cannot be used, so its algebra is proved from the
definition by least counterexamples (`WFMin` on the order of proper subsets): the
recursion has a solution on the subsets of a finite set (`SumExists`), it is what
the operator computes (`MovedIsSum`), and one command more adds its effect, in
whatever order the elements are taken (`MovedOneMore`). `MoneyInv` then says that
every balance is the opening balance and what the applied commands moved; each
COMMIT applies one command and changes the balances by its effect.

`HistoryIsExact`, `LedgerIsExact` and `AccountsImplementBank` assume `WholeAmounts`;
the run `accounts_half_ledger` shows what an amount with half a quantum does to the
ledger.

`TransactionsMsProofs`. The key invariant says that a request between INSERT and
COMMIT is alone with its key and that a request in lookup has a stored
predecessor; uniqueness, durability and agreeing replies follow. The result
invariant says that an open transaction which has updated the row is the only
one, and that the row is PENDING until it commits. For `OneEventPerAnswer`,
`InboxInv` says that two open transactions never have the same event and that the
event of an open one is not in the inbox, so that each COMMIT adds one event to the
inbox and one to the outbox.

`OutboxRelayProofs`. `RelayInv` follows a row on its way: what a worker holds has
been committed, what it has sent is in Kafka, and so is what is marked. It
assumes that there are finitely many rows, which the size of a batch needs.
`OneWorkerKeepsOrder` has two hypotheses, both about how the services are deployed.
One worker: `docker-compose.yml` runs one replica of each service, and `main` starts
one worker (`cmd/main.go`). `SerialWriters`: the transactions that write rows of one
key do not overlap. A key is the id of a payment, an account or a client; the result
and balance events are written by the one consumer goroutine, a command or a client by
one request, and the creation of an account has been answered, so its transaction has
ended, before a payment can name the account. Without the first,
`relay_shared_batch` shows two workers with one row; without the second,
`created_at` is not the order of commits. `WritersInv` says that transactions which
share a key begin and commit in one order, so `created_at` agrees with the order of
COMMIT where it matters. `OrderInv` says that in the log a row follows those of its
key that were committed before (`Preceded`), and that a row in a batch has those
before it in the batch or in Kafka (`Ready`); a failed send breaks it, and nothing
else does. `FaultsBoundCopies` counts the copies of a row: with one worker, a row
that is neither marked nor in `publishedIDs` has at most as many copies as there
were faults.

`LlmMsProofs`. `InboxInv` is the argument for "at most one call per event": the event
of an open transaction is not in the inbox and no other open transaction has it, so
COMMIT puts it there once. `TaskInv` follows what comes after: a replica about to
start the goroutine is the only one with its event, the event is in the inbox and its
goroutine has not run, and the call is made in the goroutine's first step. Exactly one
call is not a theorem, and false of the code: the process may stop between COMMIT and
the call, or not hear of its COMMIT.

`ChatStreamProofs`. `LoopInv` says that what the pump has read has been sent, but
for the chunk in its hands, and that only a cancelled pump leaves its loop with
one. `EndInv` says what the closed channels tell the reader: without an error and
without a cancellation the pump has read the whole answer. `NothingIsLost` and
`DoneMeansComplete` need both.

`KafkaConsumerProofs`. `CommittedIsSettled` is not inductive: that a late commit is
safe depends on what its member works on. `OrderInv` says so: all that lies before
a member's message has been dealt with, the message itself once the member is
about to commit, and all before the owner's position but for the message it has
just taken. A message stays dealt with (`SettledGrows`), so a member that has lost
the partition cannot do harm. `AttemptInv` ties the attempts at a message the
handler could accept to the errors there have been, which gives
`OnlyPoisonIsGivenUp` for any number of retries.

`LifecycleProofs`. `StageInv` says what main's position implies for the
goroutines: nothing is closed before the WaitGroup is done, and then relay and
consumer are. `RequestInv` says that a request outlives Shutdown only if the
timeout has passed; both together give `ClosedUnused` and `CutNeedsTimeout`.

`SagaProofs`. Every step of `Saga` is a step of `AccountsMs` or leaves its variables
alone, as a skipped message does (`SagaCases`), so that all of
`AccountsMsProofs` holds there (`AccountsKept`). For the step to be one of
`TransactionsMs` as well, accounts-ms has to answer as `Answer` lets it: only
commands that were sent (`CommandsAreSent`: what a handler works on is in the
outbox of transactions-ms), "applied" only first (`InboxInv`), and no more often
than there are handlers (`AnswersBounded`: the answers given and the handlers that
may still answer are together at most the handlers, because nobody joins them once
the inbox has the event). This is `AccountsMeetAssumption`: the theorems of
`TransactionsMsProofs`, proved for a service alone, hold in the composition.
`ServicesImplementPayments` also needs `WorkersInv`: a worker handles one result
that exists, and the worker whose transaction has updated a row has found it
PENDING and is the only one. Then `Store` is `Accept`, a first answer is `Decide`
(through the refinement of `Bank`), a second answer to an applied payment is
`Contradict` (`TwiceStep`), and the commit of a worker that has updated the row is
`Close`.

Two consequences need no assumption on the amounts. `StatusIsTrue`: a payment shown
as COMPLETED has moved its money; one shown as REJECTED has not, unless it is one of
those with a second answer, which `saga_two_verdicts` shows to exist. `OneKeyPaysOnce`:
one idempotency key pays once at most, from the INSERT of transactions-ms
(`KeysInv`, restated here because the facts of an instance cannot be cited) to the
COMMIT of accounts-ms.

**Only model-checked** are the liveness properties (`EveryPostEnds`,
`EveryPaymentCloses`, `EveryRowSettles`, `EveryMessageSettles`,
`EveryResultReachesView`, `ExplainedWithoutFaults`, `EveryChatEnds`, `NoPumpIsLeft`,
`EveryStopEnds`): fairness and ENABLED are out of the prover's reach.

## 5. Not modelled

`pkg/httpx` (stateless), the mock explainer (a list of words), configuration and
the web front end (no state of their own that the properties depend on); the read
operations (they change nothing); the length of backoffs and timeouts; kafka-go's
internal batching; the JSON encoding; the currency in a payload, which no
statement compares with an account's.

## 6. Plan

Done: `Requests`, `Bank`, `AccountsMs` with refinement and proofs;
`TransactionsMs`, `OutboxRelay`, `KafkaConsumer`, `LlmMs`, `ChatStream` and
`Lifecycle` with proofs; `Payments`, and `Saga` with its refinement proved.

Left are proofs about `LlmMs`: what the view and the explanations say of the events
in the inbox, and that without faults no answer of the language model is lost; and
about `KafkaConsumer`: how often a message is handled, as `FaultsBoundCopies` counts
how often it is sent.

The number of runs is kept to a dozen, each with a question of its own.
