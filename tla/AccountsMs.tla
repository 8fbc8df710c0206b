----------------------------- MODULE AccountsMs -----------------------------
(***************************************************************************)
(* accounts-ms: the consumer of transactions.commands that executes        *)
(* deposits, withdrawals and transfers on the accounts table, and the HTTP *)
(* operations that create clients and accounts.                            *)
(*                                                                         *)
(* One step of a handler is one SQL statement that other transactions can  *)
(* observe or wait for.  The database is PostgreSQL at READ COMMITTED: a   *)
(* transaction's writes become visible at its commit, an UPDATE keeps its  *)
(* row locked until then and evaluates its WHERE on the latest committed   *)
(* row, an INSERT of a key that another open transaction has inserted      *)
(* waits for that transaction, and a cycle of waiting transactions is      *)
(* broken by failing the statement of one of them.                         *)
(*                                                                         *)
(* Any command can be delivered to any handler at any time, any number of  *)
(* times: consumer groups rebalance, offsets are committed late and a      *)
(* replica that was thought dead can still be working.                     *)
(***************************************************************************)
EXTENDS Requests, Sequences, FiniteSetsExt

CONSTANTS
  Clients,      \* e-mail addresses, which identify clients (UNIQUE)
  Opened,       \* accounts that earlier runs have created ...
  Opening,      \* ... and their balance
  MaxBalance,   \* the largest value NUMERIC(20,4) holds
  Handlers,     \* consumer goroutines: one per replica of the service
  NoCommand,    \* what an idle handler holds
  MaxFailures   \* bound on crashes and infrastructure errors

(* Amounts that a NUMERIC(20,4) column can store. *)
Quanta == {n \in Nat : n % 2 = 0}

ASSUME OpeningAssumption ==
  /\ Opened \subseteq Accounts
  /\ Opening \in [Accounts -> Quanta]
  /\ \A a \in Accounts \ Opened : Opening[a] = 0
ASSUME NoCommandAssumption == NoCommand \notin Commands
ASSUME MaxFailuresAssumption == MaxFailures \in Nat
ASSUME MaxBalanceAssumption == MaxBalance \in Nat

VARIABLES
  clients,     \* rows of clients, each with its ClientCreated outbox row
  accounts,    \* rows of accounts
  balance,     \* their balance (0 for an account that is not there)
  processed,   \* the inbox table processed_events
  results,     \* outbox rows of topic accounts.tx-results, by transaction
  journal,     \* outbox rows of topic accounts.events, by account
  pc,          \* where each handler is
  cmd,         \* the command it handles
  writes,      \* the account rows its open transaction has updated, with
               \* the balances RETURNING gave
  reason,      \* the reason of the failure it is about to publish
  failures     \* crashes and infrastructure errors so far

tables == <<clients, accounts, balance, processed, results, journal>>
vars == <<tables, pc, cmd, writes, reason, failures>>

(* mapErrToReason *)
Reasons == {"insufficient_funds", "account_not_found", "currency_mismatch",
            "same_account", "unknown_error"}

BalanceReasons ==
  {"created", "deposit", "withdraw", "transfer-out", "transfer-in"}
Entry == [old : Nat, new : Quanta, why : BalanceReasons]
Write == [account : Accounts, entry : Entry]

Idle == "idle"
ExecSteps == {"check", "debit", "credit", "commit"}
TxSteps == ExecSteps \cup {"exists"}     \* the inbox row is inserted
Steps == TxSteps \cup {Idle, "inbox", "publishFailed"}

Init ==
  /\ clients = {}
  /\ accounts = Opened
  /\ balance = Opening
  /\ processed = {}
  /\ results = [m \in Commands |-> << >>]
  /\ journal = [a \in Accounts |->
                 IF a \in Opened
                   THEN <<[old |-> 0, new |-> Opening[a], why |-> "created"]>>
                   ELSE << >>]
  /\ pc = [h \in Handlers |-> Idle]
  /\ cmd = [h \in Handlers |-> NoCommand]
  /\ writes = [h \in Handlers |-> {}]
  /\ reason = [h \in Handlers |-> "unknown_error"]
  /\ failures = 0

(***************************************************************************)
(* Clients and accounts (account_service.go).                              *)
(***************************************************************************)
CreateClient(c) ==
  /\ c \notin clients           \* ErrEmailAlreadyExists
  /\ clients' = clients \cup {c}
  /\ UNCHANGED <<accounts, balance, processed, results, journal, pc, cmd,
                 writes, reason, failures>>

CreateAccount(c, a) ==
  /\ c \in clients              \* ErrClientNotFound
  /\ a \notin accounts          \* a fresh id
  /\ accounts' = accounts \cup {a}
  /\ journal' = [journal EXCEPT
                  ![a] = Append(@, [old |-> 0, new |-> 0, why |-> "created"])]
  /\ UNCHANGED <<clients, balance, processed, results, pc, cmd, writes,
                 reason, failures>>

(***************************************************************************)
(* The command handler (transaction_handler.go).                           *)
(***************************************************************************)
(* Mutants, here and below: a lock that is not taken, *)
RowLocked_None(h, a) == FALSE
InboxLocked_None(h, m) == FALSE

(* The statement waits: another open transaction has updated row a ... *)
RowLocked(h, a) ==
  \E g \in Handlers \ {h} : \E w \in writes[g] : w.account = a

(* ... or has inserted the same event id into the inbox. *)
InboxLocked(h, m) ==
  \E g \in Handlers \ {h} : cmd[g] = m /\ pc[g] \in TxSteps

(* The handler returns; whatever its transaction holds is gone. *)
Return(h) ==
  /\ pc' = [pc EXCEPT ![h] = Idle]
  /\ cmd' = [cmd EXCEPT ![h] = NoCommand]
  /\ writes' = [writes EXCEPT ![h] = {}]
  /\ reason' = [reason EXCEPT ![h] = "unknown_error"]

Goto(h, step) ==
  /\ pc' = [pc EXCEPT ![h] = step]
  /\ UNCHANGED <<cmd, reason>>

(* execErr # nil: roll back, then publish the failure in a new transaction *)
(* (processInTx, lines 100-109).                                           *)
Fail(h, why) ==
  /\ pc' = [pc EXCEPT ![h] = "publishFailed"]
  /\ writes' = [writes EXCEPT ![h] = {}]
  /\ reason' = [reason EXCEPT ![h] = why]
  /\ UNCHANGED cmd

Receive(h, m) ==
  /\ pc[h] = Idle
  /\ pc' = [pc EXCEPT ![h] = "inbox"]
  /\ cmd' = [cmd EXCEPT ![h] = m]
  /\ UNCHANGED <<tables, writes, reason, failures>>

(* MarkProcessed found the event in the inbox: commit nothing and skip. *)
SkipProcessed(h) ==
  /\ pc[h] = "inbox"
  /\ ~InboxLocked(h, cmd[h])
  /\ cmd[h] \in processed
  /\ Return(h)
  /\ UNCHANGED <<tables, failures>>

(* The first statement of handleDeposit, handleWithdraw, handleTransfer. *)
FirstStep(m) ==
  CASE Request[m].type = "deposit"  -> "credit"
    [] Request[m].type = "withdraw" -> "debit"
    [] Request[m].type = "transfer" -> "check"

(* Mutant: the inbox is not consulted. *)
MarkProcessed_Redo(h) ==
  /\ pc[h] = "inbox"
  /\ Goto(h, FirstStep(cmd[h]))
  /\ UNCHANGED <<tables, writes, failures>>

MarkProcessed(h) ==
  /\ pc[h] = "inbox"
  /\ ~InboxLocked(h, cmd[h])
  /\ cmd[h] \notin processed
  /\ Goto(h, FirstStep(cmd[h]))
  /\ UNCHANGED <<tables, writes, failures>>

(* Why handleTransfer refuses the command before any money moves. *)
Refusal(m) ==
  LET r == Request[m] IN
  IF r.from = r.to THEN {"same_account"}
  ELSE IF ~({r.from, r.to} \subseteq accounts) THEN {"account_not_found"}
  ELSE IF CurrencyOf[r.from] # CurrencyOf[r.to] THEN {"currency_mismatch"}
  ELSE {}

(* The two reads of the accounts are one step: an account never disappears *)
(* and never changes its currency.                                         *)
CheckTransfer(h) ==
  /\ pc[h] = "check"
  /\ \/ Refusal(cmd[h]) = {} /\ Goto(h, "debit") /\ UNCHANGED writes
     \/ \E why \in Refusal(cmd[h]) : Fail(h, why)
  /\ UNCHANGED <<tables, failures>>

(* RETURNING computes the old balance from the stored (rounded) one. *)
DebitRow(m) ==
  LET r == Request[m]
      new == Round(balance[r.from] - r.amount)
  IN  [account |-> r.from,
       entry |-> [old |-> new + r.amount, new |-> new,
                  why |-> IF r.type = "withdraw" THEN "withdraw"
                                                 ELSE "transfer-out"]]

CreditRow(m) ==
  LET r == Request[m]
      new == Round(balance[r.to] + r.amount)
  IN  [account |-> r.to,
       entry |-> [old |-> new - r.amount, new |-> new,
                  why |-> IF r.type = "deposit" THEN "deposit"
                                                ELSE "transfer-in"]]

(* Mutant: neither WHERE balance >= amount nor CHECK (balance >= 0). *)
Debit_Unguarded(h) ==
  LET r == Request[cmd[h]] IN
  /\ pc[h] = "debit"
  /\ ~RowLocked(h, r.from)
  /\ r.from \in accounts
  /\ writes' = [writes EXCEPT ![h] = @ \cup {DebitRow(cmd[h])}]
  /\ Goto(h, IF r.type = "transfer" THEN "credit" ELSE "commit")
  /\ UNCHANGED <<tables, failures>>

Debit(h) ==
  LET r == Request[cmd[h]] IN
  /\ pc[h] = "debit"
  /\ ~RowLocked(h, r.from)
  /\ r.from \in accounts
  /\ balance[r.from] >= r.amount
  /\ writes' = [writes EXCEPT ![h] = @ \cup {DebitRow(cmd[h])}]
  /\ Goto(h, IF r.type = "transfer" THEN "credit" ELSE "commit")
  /\ UNCHANGED <<tables, failures>>

(* The UPDATE matched no row. *)
DebitNoRow(h) ==
  LET r == Request[cmd[h]] IN
  /\ pc[h] = "debit"
  /\ ~RowLocked(h, r.from)
  /\ ~(r.from \in accounts /\ balance[r.from] >= r.amount)
  /\ Goto(h, "exists")
  /\ UNCHANGED <<tables, writes, failures>>

(* Mutant: no row matched, so the money is not there. *)
DebitReason_NoFunds(h) ==
  /\ pc[h] = "exists"
  /\ Fail(h, "insufficient_funds")
  /\ UNCHANGED <<tables, failures>>

(* The extra SELECT EXISTS tells which of the two reasons it was. *)
DebitReason(h) ==
  /\ pc[h] = "exists"
  /\ Fail(h, IF Request[cmd[h]].from \in accounts
               THEN "insufficient_funds" ELSE "account_not_found")
  /\ UNCHANGED <<tables, failures>>

(* Mutant: the error of the UPDATE is dropped and the transaction commits. *)
Credit_ErrorDropped(h) ==
  LET r == Request[cmd[h]]
      row == CreditRow(cmd[h])
  IN
  /\ pc[h] = "credit"
  /\ ~RowLocked(h, r.to)
  /\ IF r.to \in accounts /\ row.entry.new <= MaxBalance
       THEN writes' = [writes EXCEPT ![h] = @ \cup {row}]
       ELSE UNCHANGED writes
  /\ Goto(h, "commit")
  /\ UNCHANGED <<tables, failures>>

(* A sum beyond the column's precision is an error of the statement. *)
Credit(h) ==
  LET r == Request[cmd[h]]
      row == CreditRow(cmd[h])
  IN
  /\ pc[h] = "credit"
  /\ ~RowLocked(h, r.to)
  /\ \/ r.to \notin accounts /\ Fail(h, "account_not_found")
     \/ r.to \in accounts /\ row.entry.new > MaxBalance /\ Fail(h, "unknown_error")
     \/ /\ r.to \in accounts /\ row.entry.new <= MaxBalance
        /\ writes' = [writes EXCEPT ![h] = @ \cup {row}]
        /\ Goto(h, "commit")
  /\ UNCHANGED <<tables, failures>>

(* writeBalanceUpdated for each row, writeApplied, COMMIT. *)
Commit(h) ==
  /\ pc[h] = "commit"
  /\ processed' = processed \cup {cmd[h]}
  /\ results' = [results EXCEPT ![cmd[h]] = Append(@, "applied")]
  /\ balance' = [a \in Accounts |->
                  IF \E w \in writes[h] : w.account = a
                    THEN (CHOOSE w \in writes[h] : w.account = a).entry.new
                    ELSE balance[a]]
  /\ journal' = [a \in Accounts |->
                  IF \E w \in writes[h] : w.account = a
                    THEN Append(journal[a],
                           (CHOOSE w \in writes[h] : w.account = a).entry)
                    ELSE journal[a]]
  /\ Return(h)
  /\ UNCHANGED <<clients, accounts, failures>>

(* Mutant: the failure is published without marking the event. *)
PublishFailed_NoInbox(h) ==
  /\ pc[h] = "publishFailed"
  /\ ~InboxLocked(h, cmd[h])
  /\ results' = [results EXCEPT ![cmd[h]] = Append(@, reason[h])]
  /\ Return(h)
  /\ UNCHANGED <<clients, accounts, balance, processed, journal, failures>>

(* publishFailedInNewTx: whether MarkProcessed inserted the event or found *)
(* it there is not looked at.                                              *)
PublishFailed(h) ==
  /\ pc[h] = "publishFailed"
  /\ ~InboxLocked(h, cmd[h])
  /\ processed' = processed \cup {cmd[h]}
  /\ results' = [results EXCEPT ![cmd[h]] = Append(@, reason[h])]
  /\ Return(h)
  /\ UNCHANGED <<clients, accounts, balance, journal, failures>>

(***************************************************************************)
(* What can go wrong.                                                      *)
(***************************************************************************)
(* g's statement waits for a row that k has locked. *)
WaitsFor(g, k) ==
  /\ k # g
  /\ \/ pc[g] = "debit" /\ \E w \in writes[k] : w.account = Request[cmd[g]].from
     \/ pc[g] = "credit" /\ \E w \in writes[k] : w.account = Request[cmd[g]].to

(* Mutant: nobody detects the deadlock. *)
Deadlocked_Unseen(S) == FALSE

(* The set S of handlers waits in a circle (or several): each waits for    *)
(* one of S, and each is waited for by one of S.                           *)
Deadlocked(S) ==
  \A g \in S : /\ \E k \in S : WaitsFor(g, k)
               /\ \E k \in S : WaitsFor(k, g)

(* PostgreSQL fails the statement of one transaction of a deadlock; the    *)
(* handler treats that error like every other.                             *)
DeadlockVictim(h) ==
  /\ \E S \in SUBSET Handlers : h \in S /\ Deadlocked(S)
  /\ Fail(h, "unknown_error")
  /\ UNCHANGED <<tables, failures>>

(* A statement of the handler fails for a reason of the infrastructure.    *)
StatementError(h) ==
  /\ failures < MaxFailures
  /\ failures' = failures + 1
  /\ \/ pc[h] \in ExecSteps /\ Fail(h, "unknown_error")
     \/ pc[h] = "exists" /\ Fail(h, "account_not_found")   \* error ignored
  /\ UNCHANGED tables

(* The process dies, or BEGIN, the inbox INSERT or COMMIT fails and the    *)
(* handler returns the error: the open transaction is rolled back, and the *)
(* command will be delivered again.                                        *)
Abort(h) ==
  /\ failures < MaxFailures
  /\ failures' = failures + 1
  /\ pc[h] # Idle
  /\ Return(h)
  /\ UNCHANGED tables

Step(h) ==
  \/ SkipProcessed(h) \/ MarkProcessed(h)
  \/ CheckTransfer(h) \/ Debit(h) \/ DebitNoRow(h) \/ DebitReason(h) \/ Credit(h)
  \/ Commit(h) \/ PublishFailed(h)
  \/ DeadlockVictim(h)

Next ==
  \/ \E c \in Clients : CreateClient(c)
  \/ \E c \in Clients, a \in Accounts : CreateAccount(c, a)
  \/ \E h \in Handlers, m \in Commands : Receive(h, m)
  \/ \E h \in Handlers : Step(h) \/ StatementError(h) \/ Abort(h)

SafeSpec == Init /\ [][Next]_vars

(* A handler's statements eventually return, and a command whose handling  *)
(* failed is delivered again: the consumer retries, and does not commit    *)
(* its offset before.                                                      *)
Spec ==
  /\ SafeSpec
  /\ \A h \in Handlers : WF_vars(Step(h))
  /\ \A m \in Commands : SF_vars(\E h \in Handlers : Receive(h, m))

-----------------------------------------------------------------------------
TypeOK ==
  /\ clients \subseteq Clients
  /\ accounts \subseteq Accounts
  /\ balance \in [Accounts -> Quanta]
  /\ processed \subseteq Commands
  /\ results \in [Commands -> Seq({"applied"} \cup Reasons)]
  /\ journal \in [Accounts -> Seq(Entry)]
  /\ pc \in [Handlers -> Steps]
  /\ cmd \in [Handlers -> Commands \cup {NoCommand}]
  /\ writes \in [Handlers -> SUBSET Write]
  /\ reason \in [Handlers -> Reasons]
  /\ failures \in 0..MaxFailures

Applied(m) == \E i \in DOMAIN results[m] : results[m][i] = "applied"

(* However often a command is delivered, to however many replicas, its     *)
(* money moves at most once, and never after it has been rejected: of all  *)
(* the answers to one command, only the first can be "applied".            *)
AppliedIsFirst ==
  \A m \in Commands : \A i \in DOMAIN results[m] :
    results[m][i] = "applied" => i = 1

(* The inbox and the outbox agree at every commit: an event is marked      *)
(* processed exactly when an answer to it is on its way.                   *)
AnsweredIffProcessed ==
  \A m \in Commands : m \in processed <=> results[m] # << >>

(* The BalanceUpdated events of an account, in commit order, tell its      *)
(* whole history: each starts from the balance the previous one ended      *)
(* with, and the last one ends with the balance in the table.              *)
JournalIsChain ==
  \A a \in Accounts :
    /\ a \in accounts <=> journal[a] # << >>
    /\ a \in accounts => journal[a][Len(journal[a])].new = balance[a]
    /\ \A i \in 2..Len(journal[a]) : journal[a][i].old = journal[a][i - 1].new

(* Every balance is the opening balance plus what the applied commands     *)
(* asked for: no update is lost, a rolled back debit leaves no trace, and  *)
(* a transfer neither creates nor destroys money.                          *)
LedgerMatchesAnswers ==
  \A a \in Accounts :
    balance[a] = Opening[a]
      + MapThenSumSet(LAMBDA m : Effect(m, a), {m \in Commands : Applied(m)})

(* A rejection gives the reason that applies: when it says that funds were *)
(* insufficient, the account has really been short of the amount at some   *)
(* time (an error, a deadlock or a transaction that was rolled back never  *)
(* passes for that), and an account that exists is called missing only     *)
(* when the query itself failed.                                           *)
WasShort(a, amount) == \E i \in DOMAIN journal[a] : journal[a][i].new < amount

ReasonHolds(m, why) ==
  LET r == Request[m] IN
  CASE why = "insufficient_funds" -> Debits(m) /\ WasShort(r.from, r.amount)
    [] why = "account_not_found" -> failures > 0 \/ ~(Touches(m) \subseteq Opened)
    [] why = "currency_mismatch" -> CurrencyOf[r.from] # CurrencyOf[r.to]
    [] why = "same_account" -> r.from = r.to
    [] OTHER -> TRUE

ReasonsHaveCause ==
  \A m \in Commands : \A i \in DOMAIN results[m] : ReasonHolds(m, results[m][i])

(* The promise of Bank, where the first answer to a command is its         *)
(* decision: every step here is a step of Bank or changes nothing there.   *)
DecisionOf(m) ==
  IF results[m] = << >> THEN "pending"
  ELSE IF results[m][1] = "applied" THEN "applied" ELSE "rejected"

B == INSTANCE Bank WITH decision <- [m \in Commands |-> DecisionOf(m)]

ImplementsBank == B!SafeSpec

=============================================================================
