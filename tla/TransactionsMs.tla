--------------------------- MODULE TransactionsMs ---------------------------
(***************************************************************************)
(* transactions-ms: the HTTP operations that accept a deposit, withdrawal  *)
(* or transfer under an idempotency key, and the consumer of               *)
(* accounts.tx-results that closes each transaction.                       *)
(*                                                                         *)
(* The elements of Commands are POST requests here: a request that creates *)
(* a transaction gives it its id, so the transaction is named after it.    *)
(* A client that retries sends another request with the same key.          *)
(*                                                                         *)
(* The database is PostgreSQL at READ COMMITTED, as in AccountsMs.  The    *)
(* results of accounts-ms are taken from answers: any of them can be       *)
(* delivered to any worker, in any order, any number of times.             *)
(***************************************************************************)
EXTENDS Requests, Sequences, FiniteSets

CONSTANTS
  Keys,          \* idempotency keys
  Key,           \* the key each request carries
  Workers,       \* consumer goroutines: one per replica of the service
  MaxAnswers,    \* bound on the answers accounts-ms gives to one command
  MaxFailures    \* bound on crashes and infrastructure errors

ASSUME KeyAssumption == Key \in [Commands -> Keys]
ASSUME BoundsAssumption == MaxAnswers \in Nat /\ MaxFailures \in Nat

VARIABLES
  rows,        \* the transactions table: ids ...
  status,      \* ... and status (PENDING where there is no row)
  requested,   \* outbox rows of topic transactions.commands, by id
  events,      \* outbox rows of topic transactions.events, by id
  inbox,       \* the table processed_events
  answers,     \* what accounts-ms has published on accounts.tx-results
  post,        \* where each POST request is
  reply,       \* the transactions its response carries (none or one)
  pc,          \* where each worker is
  evt,         \* the result event it handles
  hit,         \* its open transaction has updated the row
  failures

db == <<rows, status, requested, events, inbox>>
posts == <<post, reply>>
workers == <<pc, evt, hit>>
vars == <<db, answers, posts, workers, failures>>

(* The event accounts-ms sends as its i-th answer about transaction t. *)
Event == [tx : Commands, seq : Nat \ {0}]
Events == {e \in [tx : Commands, seq : 1..MaxAnswers] : e.seq \in DOMAIN answers[e.tx]}

(* Mutant: a status the table's CHECK constraint does not know. *)
StatusOf_Unknown(answer) == IF answer = "applied" THEN "COMPLETED" ELSE "FAILED"

StatusOf(answer) == IF answer = "applied" THEN "COMPLETED" ELSE "REJECTED"

Init ==
  /\ rows = {}
  /\ status = [t \in Commands |-> "PENDING"]
  /\ requested = {}
  /\ events = [t \in Commands |-> << >>]
  /\ inbox = {}
  /\ answers = [t \in Commands |-> << >>]
  /\ post = [p \in Commands |-> "unsent"]
  /\ reply = [p \in Commands |-> {}]
  /\ pc = [w \in Workers |-> "idle"]
  /\ evt = [w \in Workers |-> {}]
  /\ hit = [w \in Workers |-> FALSE]
  /\ failures = 0

(***************************************************************************)
(* POST /transactions/... (handlers.go, TransactionService.Create).        *)
(***************************************************************************)
Valid(p) ==
  Request[p].type = "transfer" => Request[p].from # Request[p].to

Submit(p) ==
  /\ post[p] = "unsent"
  /\ post' = [post EXCEPT ![p] = IF Valid(p) THEN "insert" ELSE "refused"]
  /\ UNCHANGED <<db, answers, reply, workers, failures>>

(* Mutant: no unique index on idempotency_key. *)
KeyLocked_None(p) == FALSE

(* Mutant: a request that fails leaves its transaction open. *)
KeyLocked_Leaked(p) ==
  \E q \in Commands \ {p} : post[q] \in {"commit", "failed"} /\ Key[q] = Key[p]

(* The INSERT waits for an open transaction that has inserted the key. *)
KeyLocked(p) ==
  \E q \in Commands \ {p} : post[q] = "commit" /\ Key[q] = Key[p]

KeyHolders(p) == {t \in rows : Key[t] = Key[p]}

Insert(p) ==
  /\ post[p] = "insert"
  /\ ~KeyLocked(p)
  /\ post' = [post EXCEPT ![p] = IF KeyHolders(p) = {} THEN "commit" ELSE "lookup"]
  /\ UNCHANGED <<db, answers, reply, workers, failures>>

(* The row and the TransactionRequested outbox row become visible. *)
Store(p) ==
  /\ rows' = rows \cup {p}
  /\ requested' = requested \cup {p}
  /\ UNCHANGED <<status, events, inbox>>

CommitCreate(p) ==
  /\ post[p] = "commit"
  /\ Store(p)
  /\ post' = [post EXCEPT ![p] = "accepted"]
  /\ reply' = [reply EXCEPT ![p] = {[tx |-> p, amount |-> Request[p].amount]}]
  /\ UNCHANGED <<answers, workers, failures>>

(* The commit succeeds, but the response does not reach the client. *)
CommitUnheard(p) ==
  /\ post[p] = "commit"
  /\ failures < MaxFailures
  /\ failures' = failures + 1
  /\ Store(p)
  /\ post' = [post EXCEPT ![p] = "failed"]
  /\ UNCHANGED <<answers, reply, workers>>

(* Mutant: the caller is answered with the transaction it tried to create. *)
Lookup_Own(p) ==
  /\ post[p] = "lookup"
  /\ post' = [post EXCEPT ![p] = "accepted"]
  /\ reply' = [reply EXCEPT ![p] = {[tx |-> p, amount |-> Request[p].amount]}]
  /\ UNCHANGED <<db, answers, workers, failures>>

(* getByIdempotencyKey, after the rollback of the failed INSERT: what is   *)
(* read back from the table is rounded.                                    *)
Lookup(p) ==
  /\ post[p] = "lookup"
  /\ post' = [post EXCEPT ![p] = "accepted"]
  /\ reply' = [reply EXCEPT ![p] =
                {[tx |-> t, amount |-> Round(Request[t].amount)] : t \in KeyHolders(p)}]
  /\ UNCHANGED <<db, answers, workers, failures>>

(* Mutant: the error of COMMIT is dropped. *)
FailPost_Dropped(p) ==
  /\ post[p] \in {"insert", "commit", "lookup"}
  /\ failures < MaxFailures
  /\ failures' = failures + 1
  /\ post' = [post EXCEPT ![p] = "accepted"]
  /\ reply' = [reply EXCEPT ![p] = {[tx |-> p, amount |-> Request[p].amount]}]
  /\ UNCHANGED <<db, answers, workers>>

(* A statement fails, the client hangs up or the process dies. *)
FailPost(p) ==
  /\ post[p] \in {"insert", "commit", "lookup"}
  /\ failures < MaxFailures
  /\ failures' = failures + 1
  /\ post' = [post EXCEPT ![p] = "failed"]
  /\ UNCHANGED <<db, answers, reply, workers>>

(***************************************************************************)
(* accounts-ms, as AccountsMs shows it: a command gets one answer or       *)
(* several, and only the first can be "applied".                           *)
(***************************************************************************)
Answer(t, outcome) ==
  /\ t \in requested
  /\ Len(answers[t]) < MaxAnswers
  /\ outcome = "applied" => answers[t] = << >>
  /\ answers' = [answers EXCEPT ![t] = Append(@, outcome)]
  /\ UNCHANGED <<db, posts, workers, failures>>

(***************************************************************************)
(* The result handler (HandleAccountsResult).                              *)
(***************************************************************************)
(* Mutants: a lock that is not taken. *)
InboxLocked_None(w, e) == FALSE
RowLocked_None(w, t) == FALSE

InboxLocked(w, e) ==
  \E v \in Workers \ {w} : pc[v] \in {"update", "publish"} /\ evt[v] = {e}

RowLocked(w, t) ==
  \E v \in Workers \ {w} : hit[v] /\ \E e \in evt[v] : e.tx = t

Return(w) ==
  /\ pc' = [pc EXCEPT ![w] = "idle"]
  /\ evt' = [evt EXCEPT ![w] = {}]
  /\ hit' = [hit EXCEPT ![w] = FALSE]

Receive(w, e) ==
  /\ pc[w] = "idle"
  /\ pc' = [pc EXCEPT ![w] = "inbox"]
  /\ evt' = [evt EXCEPT ![w] = {e}]
  /\ UNCHANGED <<db, answers, posts, hit, failures>>

SkipProcessed(w) ==
  /\ pc[w] = "inbox"
  /\ \E e \in evt[w] : ~InboxLocked(w, e) /\ e \in inbox
  /\ Return(w)
  /\ UNCHANGED <<db, answers, posts, failures>>

MarkProcessed(w) ==
  /\ pc[w] = "inbox"
  /\ \E e \in evt[w] : ~InboxLocked(w, e) /\ e \notin inbox
  /\ pc' = [pc EXCEPT ![w] = "update"]
  /\ UNCHANGED <<db, answers, posts, evt, hit, failures>>

(* MarkCompleted or MarkRejected: UPDATE ... WHERE status = 'PENDING'.     *)
(* Whether a row was updated is not looked at.                             *)
MarkStatus(w) ==
  /\ pc[w] = "update"
  /\ \E e \in evt[w] :
       /\ ~RowLocked(w, e.tx)
       /\ hit' = [hit EXCEPT ![w] = status[e.tx] = "PENDING"]
  /\ pc' = [pc EXCEPT ![w] = "publish"]
  /\ UNCHANGED <<db, answers, posts, evt, failures>>

(* publishCompleted or publishRejected, then COMMIT. *)
CommitResult(w) ==
  /\ pc[w] = "publish"
  /\ \E e \in evt[w] :
       LET s == StatusOf(answers[e.tx][e.seq]) IN
       /\ status' = IF hit[w] THEN [status EXCEPT ![e.tx] = s] ELSE status
       /\ events' = [events EXCEPT ![e.tx] = Append(@, s)]
       /\ inbox' = inbox \cup {e}
  /\ Return(w)
  /\ UNCHANGED <<rows, requested, answers, posts, failures>>

(* The process dies or a statement fails: the error is returned, the       *)
(* transaction rolled back, and the event will be delivered again.         *)
Abort(w) ==
  /\ pc[w] # "idle"
  /\ failures < MaxFailures
  /\ failures' = failures + 1
  /\ Return(w)
  /\ UNCHANGED <<db, answers, posts>>

-----------------------------------------------------------------------------
PostStep(p) == Insert(p) \/ CommitCreate(p) \/ Lookup(p)
PostFault(p) == CommitUnheard(p) \/ FailPost(p)
WorkerStep(w) == SkipProcessed(w) \/ MarkProcessed(w) \/ MarkStatus(w) \/ CommitResult(w)

Next ==
  \/ \E p \in Commands : Submit(p) \/ PostStep(p) \/ PostFault(p)
  \/ \E t \in Commands, outcome \in {"applied", "failed"} : Answer(t, outcome)
  \/ \E w \in Workers : WorkerStep(w) \/ Abort(w) \/ \E e \in Events : Receive(w, e)

SafeSpec == Init /\ [][Next]_vars

(* Statements eventually return, and an event is delivered until it has    *)
(* been handled.                                                           *)
Spec ==
  /\ SafeSpec
  /\ \A p \in Commands : WF_vars(PostStep(p))
  /\ \A w \in Workers : WF_vars(WorkerStep(w))
  /\ \A t \in Commands, i \in 1..MaxAnswers :
       SF_vars(\E w \in Workers, e \in Events :
                 e = [tx |-> t, seq |-> i] /\ Receive(w, e))

-----------------------------------------------------------------------------
PostStates == {"unsent", "insert", "commit", "lookup", "accepted", "refused", "failed"}
WorkerSteps == {"idle", "inbox", "update", "publish"}
Statuses == {"PENDING", "COMPLETED", "REJECTED"}

TypeOK ==
  /\ rows \subseteq Commands
  /\ status \in [Commands -> Statuses]
  /\ requested \subseteq Commands
  /\ events \in [Commands -> Seq(Statuses)]
  /\ inbox \subseteq Event
  /\ answers \in [Commands -> Seq({"applied", "failed"})]
  /\ post \in [Commands -> PostStates]
  /\ reply \in [Commands -> SUBSET [tx : Commands, amount : Nat]]
  /\ pc \in [Workers -> WorkerSteps]
  /\ evt \in [Workers -> SUBSET Event]
  /\ hit \in [Workers -> BOOLEAN]
  /\ failures \in 0..MaxFailures

(* However many requests with one key race, at most one transaction is     *)
(* stored for it, and exactly the stored ones are sent to accounts-ms.     *)
OneTransactionPerKey ==
  /\ \A t, u \in rows : Key[t] = Key[u] => t = u
  /\ requested = rows

(* All accepted requests with one key are answered with the same           *)
(* transaction, the request that created it included.                      *)
RepliesAgree ==
  \A p, q \in Commands :
    Key[p] = Key[q] => \A a \in reply[p], b \in reply[q] : a = b

(* A request that was accepted names a stored transaction, whose command   *)
(* will reach accounts-ms.                                                 *)
AcceptedIsDurable ==
  \A p \in Commands :
    post[p] = "accepted" => \E a \in reply[p] : a.tx \in rows \cap requested

(* A closed transaction never changes its status again. *)
StatusIsFinal ==
  [][\A t \in Commands : status[t] # "PENDING" => status'[t] = status[t]]_vars

(* The status in the table is what the first event published about the     *)
(* transaction says; before that it is PENDING.                            *)
StatusIsFirstEvent ==
  \A t \in Commands :
    status[t] = IF events[t] = << >> THEN "PENDING" ELSE events[t][1]

(* Each answer of accounts-ms leads to one event, however often it is      *)
(* delivered.                                                              *)
OneEventPerAnswer ==
  \A t \in Commands : Len(events[t]) = Cardinality({e \in inbox : e.tx = t})

(* A request in progress is answered in the end, even when it waits for    *)
(* another one with the same key.                                          *)
EveryPostEnds ==
  \A p \in Commands : post[p] = "insert" ~> post[p] \in {"accepted", "failed"}

=============================================================================
