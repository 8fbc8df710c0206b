-------------------------- MODULE AccountsMsProofs --------------------------
(***************************************************************************)
(* What TLAPS proves about AccountsMs, for every set of accounts, commands *)
(* and replicas.                                                           *)
(***************************************************************************)
EXTENDS AccountsMs, FiniteSetTheorems, WellFoundedInduction, TLAPS

(***************************************************************************)
(* Types.  A handler that is not idle holds a command; without this the    *)
(* types of what it computes from the command cannot be known.             *)
(***************************************************************************)
Working == \A h \in Handlers : pc[h] # Idle => cmd[h] \in Commands

TypeInv == TypeOK /\ Working

(* Rounding to the column's scale gives a storable value, never a smaller  *)
(* one, and changes nothing that can be stored.                            *)
LEMMA RoundProperties ==
  ASSUME NEW x \in Nat
  PROVE  /\ Round(x) \in Quanta
         /\ Round(x) >= x
         /\ x \in Quanta => Round(x) = x
BY DEF Round, Quanta

(* The rows a debit and a credit return are rows of the table: the old     *)
(* balance RETURNING computes is never negative.                           *)
LEMMA DebitRowType ==
  ASSUME TypeOK, NEW m \in Commands,
         balance[Request[m].from] >= Request[m].amount
  PROVE  DebitRow(m) \in Write
<1> DEFINE r == Request[m]
           left == balance[r.from] - r.amount
<1>1. r \in Payload
  BY RequestAssumption
<1>2. left \in Nat /\ r.amount \in Nat
  BY <1>1 DEF Payload, TypeOK, Quanta
<1>3. Round(left) \in Quanta /\ Round(left) + r.amount \in Nat
  BY <1>2, RoundProperties DEF Quanta
<1> QED
  BY <1>1, <1>3 DEF DebitRow, Write, Entry, BalanceReasons, Payload

LEMMA CreditRowType ==
  ASSUME TypeOK, NEW m \in Commands
  PROVE  CreditRow(m) \in Write
<1> DEFINE r == Request[m]
           sum == balance[r.to] + r.amount
<1>1. r \in Payload
  BY RequestAssumption
<1>2. sum \in Nat /\ r.amount \in Nat /\ balance[r.to] \in Nat
  BY <1>1 DEF Payload, TypeOK, Quanta
<1>3. Round(sum) \in Quanta /\ Round(sum) >= sum
  BY <1>2, RoundProperties
<1>4. Round(sum) - r.amount \in Nat
  BY <1>2, <1>3 DEF Quanta
<1> QED
  BY <1>1, <1>3, <1>4 DEF CreditRow, Write, Entry, BalanceReasons, Payload

LEMMA TypeInit == Init => TypeInv
<1> SUFFICES ASSUME Init PROVE TypeInv
  OBVIOUS
<1>1. journal \in [Accounts -> Seq(Entry)]
  <2>1. \A a \in Accounts :
          [old |-> 0, new |-> Opening[a], why |-> "created"] \in Entry
    BY OpeningAssumption DEF Entry, BalanceReasons
  <2> QED
    BY <2>1 DEF Init
<1>2. TypeOK
  BY <1>1, OpeningAssumption, MaxFailuresAssumption
  DEF Init, TypeOK, Steps, Idle, Reasons
<1>3. Working
  BY DEF Init, Working
<1> QED
  BY <1>2, <1>3 DEF TypeInv

(* Returning, failing and moving on keep the handler's own variables typed. *)
LEMMA ReturnType ==
  ASSUME TypeInv, NEW h \in Handlers, Return(h)
  PROVE  /\ pc' \in [Handlers -> Steps]
         /\ cmd' \in [Handlers -> Commands \cup {NoCommand}]
         /\ writes' \in [Handlers -> SUBSET Write]
         /\ reason' \in [Handlers -> Reasons]
         /\ Working'
BY DEF TypeInv, TypeOK, Working, Return, Steps, Idle, Reasons

LEMMA FailType ==
  ASSUME TypeInv, NEW h \in Handlers, pc[h] # Idle,
         NEW why \in Reasons, Fail(h, why)
  PROVE  /\ pc' \in [Handlers -> Steps]
         /\ cmd' \in [Handlers -> Commands \cup {NoCommand}]
         /\ writes' \in [Handlers -> SUBSET Write]
         /\ reason' \in [Handlers -> Reasons]
         /\ Working'
BY DEF TypeInv, TypeOK, Working, Fail, Steps, Idle

LEMMA GotoType ==
  ASSUME TypeInv, NEW h \in Handlers, pc[h] # Idle,
         NEW step \in Steps, Goto(h, step)
  PROVE  /\ pc' \in [Handlers -> Steps]
         /\ cmd' \in [Handlers -> Commands \cup {NoCommand}]
         /\ reason' \in [Handlers -> Reasons]
         /\ Working'
BY DEF TypeInv, TypeOK, Working, Goto

LEMMA TypeStep == TypeInv /\ [Next]_vars => TypeInv'
<1> SUFFICES ASSUME TypeInv, [Next]_vars PROVE TypeInv'
  OBVIOUS
<1> USE DEF TypeInv
<1>0. ASSUME UNCHANGED vars PROVE TypeInv'
  BY <1>0 DEF vars, tables, TypeOK, Working
<1>1. ASSUME NEW c \in Clients, CreateClient(c) PROVE TypeInv'
  BY <1>1 DEF CreateClient, TypeOK, Working
<1>2. ASSUME NEW c \in Clients, NEW a \in Accounts, CreateAccount(c, a)
      PROVE TypeInv'
  <2>1. [old |-> 0, new |-> 0, why |-> "created"] \in Entry
    BY DEF Entry, Quanta, BalanceReasons
  <2> QED
    BY <1>2, <2>1 DEF CreateAccount, TypeOK, Working
<1>3. ASSUME NEW h \in Handlers, NEW m \in Commands, Receive(h, m)
      PROVE TypeInv'
  BY <1>3 DEF Receive, tables, TypeOK, Working, Steps
<1>4. ASSUME NEW h \in Handlers, SkipProcessed(h) PROVE TypeInv'
  BY <1>4, ReturnType DEF SkipProcessed, tables, TypeOK
<1>5. ASSUME NEW h \in Handlers, MarkProcessed(h) PROVE TypeInv'
  <2>1. cmd[h] \in Commands /\ pc[h] # Idle
    BY <1>5 DEF MarkProcessed, Working, Idle
  <2>2. FirstStep(cmd[h]) \in Steps
    BY <2>1, RequestAssumption
    DEF FirstStep, Payload, TxTypes, Steps, TxSteps, ExecSteps
  <2> QED
    BY <1>5, <2>1, <2>2, GotoType DEF MarkProcessed, tables, TypeOK
<1>6. ASSUME NEW h \in Handlers, CheckTransfer(h) PROVE TypeInv'
  <2>1. pc[h] # Idle /\ "debit" \in Steps /\ Refusal(cmd[h]) \subseteq Reasons
    BY <1>6 DEF CheckTransfer, Idle, Steps, TxSteps, ExecSteps, Refusal, Reasons
  <2>2. CASE Goto(h, "debit") /\ UNCHANGED writes
    BY <1>6, <2>1, <2>2, GotoType DEF CheckTransfer, tables, TypeOK
  <2>3. CASE \E why \in Refusal(cmd[h]) : Fail(h, why)
    BY <1>6, <2>1, <2>3, FailType DEF CheckTransfer, tables, TypeOK
  <2> QED
    BY <1>6, <2>2, <2>3 DEF CheckTransfer
<1>7. ASSUME NEW h \in Handlers, Debit(h) PROVE TypeInv'
  <2>1. cmd[h] \in Commands /\ pc[h] # Idle
    BY <1>7 DEF Debit, Working, Idle
  <2>2. DebitRow(cmd[h]) \in Write
    BY <1>7, <2>1, DebitRowType DEF Debit
  <2>3. PICK step \in {"credit", "commit"} : Goto(h, step)
    BY <1>7 DEF Debit
  <2>4. step \in Steps
    BY DEF Steps, TxSteps, ExecSteps
  <2> QED
    BY <1>7, <2>1, <2>2, <2>3, <2>4, GotoType DEF Debit, tables, TypeOK
<1>8. ASSUME NEW h \in Handlers, DebitNoRow(h) PROVE TypeInv'
  <2>1. pc[h] # Idle /\ "exists" \in Steps
    BY <1>8 DEF DebitNoRow, Idle, Steps, TxSteps
  <2> QED
    BY <1>8, <2>1, GotoType DEF DebitNoRow, tables, TypeOK
<1>9. ASSUME NEW h \in Handlers, DebitReason(h) PROVE TypeInv'
  <2>1. pc[h] # Idle
    BY <1>9 DEF DebitReason, Idle
  <2>2. PICK why \in Reasons : Fail(h, why)
    BY <1>9 DEF DebitReason, Reasons
  <2> QED
    BY <1>9, <2>1, <2>2, FailType DEF DebitReason, tables, TypeOK
<1>10. ASSUME NEW h \in Handlers, Credit(h) PROVE TypeInv'
  <2>1. cmd[h] \in Commands /\ pc[h] # Idle
    BY <1>10 DEF Credit, Working, Idle
  <2>2. CreditRow(cmd[h]) \in Write
    BY <2>1, CreditRowType
  <2>3. CASE \E why \in Reasons : Fail(h, why)
    BY <1>10, <2>1, <2>3, FailType DEF Credit, tables, TypeOK
  <2>4. CASE Goto(h, "commit")
             /\ writes' = [writes EXCEPT ![h] = @ \cup {CreditRow(cmd[h])}]
    <3>1. "commit" \in Steps
      BY DEF Steps, TxSteps, ExecSteps
    <3> QED
      BY <1>10, <2>1, <2>2, <2>4, <3>1, GotoType DEF Credit, tables, TypeOK
  <2> QED
    BY <1>10, <2>3, <2>4 DEF Credit, Reasons
<1>11. ASSUME NEW h \in Handlers, Commit(h) PROVE TypeInv'
  <2> DEFINE Wrote(a) == \E w \in writes[h] : w.account = a
             Row(a) == CHOOSE w \in writes[h] : w.account = a
  <2>1. cmd[h] \in Commands
    BY <1>11 DEF Commit, Working, Idle
  <2>2. \A a \in Accounts : Wrote(a) => Row(a).entry \in Entry
    <3>1. \A a \in Accounts : Wrote(a) => Row(a) \in writes[h]
      OBVIOUS
    <3> QED
      BY <3>1 DEF TypeOK, Write
  <2>3. balance' \in [Accounts -> Quanta]
    BY <1>11, <2>2 DEF Commit, TypeOK, Entry
  <2>4. journal' \in [Accounts -> Seq(Entry)]
    <3>1. \A a \in Accounts : journal'[a] \in Seq(Entry)
      BY <1>11, <2>2 DEF Commit, TypeOK
    <3> QED
      BY <1>11, <3>1 DEF Commit
  <2>5. results' \in [Commands -> Seq({"applied"} \cup Reasons)]
    BY <1>11, <2>1 DEF Commit, TypeOK
  <2> QED
    BY <1>11, <2>1, <2>3, <2>4, <2>5, ReturnType DEF Commit, TypeOK
<1>12. ASSUME NEW h \in Handlers, PublishFailed(h) PROVE TypeInv'
  <2>1. cmd[h] \in Commands
    BY <1>12 DEF PublishFailed, Working, Idle
  <2>2. results' \in [Commands -> Seq({"applied"} \cup Reasons)]
    BY <1>12, <2>1 DEF PublishFailed, TypeOK
  <2> QED
    BY <1>12, <2>1, <2>2, ReturnType DEF PublishFailed, TypeOK
<1>13. ASSUME NEW h \in Handlers, DeadlockVictim(h) PROVE TypeInv'
  <2>1. pc[h] # Idle /\ "unknown_error" \in Reasons
    BY <1>13 DEF DeadlockVictim, Deadlocked, WaitsFor, Idle, Reasons
  <2> QED
    BY <1>13, <2>1, FailType DEF DeadlockVictim, tables, TypeOK
<1>14. ASSUME NEW h \in Handlers, StatementError(h) PROVE TypeInv'
  <2>1. failures' \in 0..MaxFailures
    BY <1>14, MaxFailuresAssumption DEF StatementError, TypeOK
  <2>2. pc[h] # Idle /\ \E why \in Reasons : Fail(h, why)
    BY <1>14 DEF StatementError, ExecSteps, Idle, Reasons
  <2> QED
    BY <1>14, <2>1, <2>2, FailType DEF StatementError, tables, TypeOK
<1>15. ASSUME NEW h \in Handlers, Abort(h) PROVE TypeInv'
  <2>1. failures' \in 0..MaxFailures
    BY <1>15, MaxFailuresAssumption DEF Abort, TypeOK
  <2> QED
    BY <1>15, <2>1, ReturnType DEF Abort, tables, TypeOK
<1> QED
  BY <1>0, <1>1, <1>2, <1>3, <1>4, <1>5, <1>6, <1>7, <1>8, <1>9, <1>10,
     <1>11, <1>12, <1>13, <1>14, <1>15
  DEF Next, Step

(* Every variable keeps its type: balances are always values the column    *)
(* can store, none of them negative (account_repo.go, Debit).              *)
THEOREM TypeCorrect == SafeSpec => []TypeOK
<1>1. TypeInv => TypeOK
  BY DEF TypeInv
<1> QED
  BY <1>1, TypeInit, TypeStep, PTL DEF SafeSpec

-----------------------------------------------------------------------------
(***************************************************************************)
(* The inbox.  A transaction that has inserted its event id is the only    *)
(* one that has, and the event is not processed yet: so whoever commits    *)
(* first finds no answer there, and "applied" is written only that way.    *)
(***************************************************************************)
InsertedIsNew == \A h \in Handlers : pc[h] \in TxSteps => cmd[h] \notin processed

InsertedOnce ==
  \A g, h \in Handlers :
    g # h /\ pc[g] \in TxSteps /\ pc[h] \in TxSteps => cmd[g] # cmd[h]

InboxInv ==
  AnsweredIffProcessed /\ AppliedIsFirst /\ InsertedIsNew /\ InsertedOnce

LEMMA InboxInit == Init => InboxInv
BY DEF Init, InboxInv, AnsweredIffProcessed, AppliedIsFirst, InsertedIsNew,
       InsertedOnce, TxSteps, ExecSteps, Idle

(* Steps that leave the tables alone and after which at most the same      *)
(* handlers are in their transaction, with the same commands.              *)
LEMMA InboxQuiet ==
  ASSUME InboxInv, UNCHANGED <<processed, results>>,
         \A h \in Handlers :
           pc'[h] \in TxSteps => pc[h] \in TxSteps /\ cmd'[h] = cmd[h]
  PROVE  InboxInv'
BY DEF InboxInv, AnsweredIffProcessed, AppliedIsFirst, InsertedIsNew, InsertedOnce

LEMMA InboxStep == TypeInv /\ InboxInv /\ [Next]_vars => InboxInv'
<1> SUFFICES ASSUME TypeInv, InboxInv, [Next]_vars PROVE InboxInv'
  OBVIOUS
<1> USE DEF TypeInv, TypeOK, TxSteps, ExecSteps, Idle
<1>0. ASSUME UNCHANGED vars PROVE InboxInv'
  BY <1>0, InboxQuiet DEF vars, tables
<1>1. ASSUME NEW c \in Clients, CreateClient(c) PROVE InboxInv'
  BY <1>1, InboxQuiet DEF CreateClient
<1>2. ASSUME NEW c \in Clients, NEW a \in Accounts, CreateAccount(c, a)
      PROVE InboxInv'
  BY <1>2, InboxQuiet DEF CreateAccount
<1>3. ASSUME NEW h \in Handlers, NEW m \in Commands, Receive(h, m)
      PROVE InboxInv'
  BY <1>3, InboxQuiet DEF Receive, tables
<1>4. ASSUME NEW h \in Handlers, SkipProcessed(h) PROVE InboxInv'
  BY <1>4, InboxQuiet DEF SkipProcessed, Return, tables
<1>5. ASSUME NEW h \in Handlers, MarkProcessed(h) PROVE InboxInv'
  <2>1. cmd' = cmd /\ processed' = processed /\ results' = results
    BY <1>5 DEF MarkProcessed, Goto, tables
  <2>2. \A g \in Handlers \ {h} : pc'[g] = pc[g]
    BY <1>5 DEF MarkProcessed, Goto
  <2>3. cmd[h] \notin processed
    BY <1>5 DEF MarkProcessed
  <2>4. \A g \in Handlers \ {h} : pc[g] \in TxSteps => cmd[g] # cmd[h]
    BY <1>5 DEF MarkProcessed, InboxLocked
  <2> QED
    BY <2>1, <2>2, <2>3, <2>4
    DEF InboxInv, AnsweredIffProcessed, AppliedIsFirst, InsertedIsNew, InsertedOnce
<1>6. ASSUME NEW h \in Handlers, CheckTransfer(h) PROVE InboxInv'
  BY <1>6, InboxQuiet DEF CheckTransfer, Goto, Fail, tables
<1>7. ASSUME NEW h \in Handlers, Debit(h) PROVE InboxInv'
  BY <1>7, InboxQuiet DEF Debit, Goto, tables
<1>8. ASSUME NEW h \in Handlers, DebitNoRow(h) PROVE InboxInv'
  BY <1>8, InboxQuiet DEF DebitNoRow, Goto, tables
<1>9. ASSUME NEW h \in Handlers, DebitReason(h) PROVE InboxInv'
  BY <1>9, InboxQuiet DEF DebitReason, Fail, tables
<1>10. ASSUME NEW h \in Handlers, Credit(h) PROVE InboxInv'
  <2>1. UNCHANGED <<processed, results, cmd>>
    BY <1>10 DEF Credit, Goto, Fail, tables
  <2>2. \A g \in Handlers : pc'[g] \in TxSteps => pc[g] \in TxSteps
    BY <1>10 DEF Credit, Goto, Fail
  <2> QED
    BY <2>1, <2>2, InboxQuiet
<1>11. ASSUME NEW h \in Handlers, Commit(h) PROVE InboxInv'
  <2>1. cmd[h] \in Commands /\ cmd[h] \notin processed /\ results[cmd[h]] = << >>
    BY <1>11 DEF Commit, Working, InboxInv, InsertedIsNew, AnsweredIffProcessed
  <2>2. results' = [results EXCEPT ![cmd[h]] = <<"applied">>]
    BY <1>11, <2>1 DEF Commit
  <2>3. AnsweredIffProcessed' /\ AppliedIsFirst'
    BY <1>11, <2>1, <2>2
    DEF Commit, InboxInv, AnsweredIffProcessed, AppliedIsFirst
  <2>4. InsertedIsNew' /\ InsertedOnce'
    BY <1>11, <2>1 DEF Commit, Return, InboxInv, InsertedIsNew, InsertedOnce
  <2> QED
    BY <2>3, <2>4 DEF InboxInv
<1>12. ASSUME NEW h \in Handlers, PublishFailed(h) PROVE InboxInv'
  <2> DEFINE m == cmd[h]
             before == results[m]
  <2>1. m \in Commands
    BY <1>12 DEF PublishFailed, Working
  <2>2. results' = [results EXCEPT ![m] = Append(before, reason[h])]
    BY <1>12, <2>1 DEF PublishFailed
  <2>3. reason[h] # "applied"
    BY DEF Reasons
  <2>4. AnsweredIffProcessed'
    BY <1>12, <2>1, <2>2 DEF PublishFailed, InboxInv, AnsweredIffProcessed
  <2>5. AppliedIsFirst'
    BY <2>1, <2>2, <2>3 DEF InboxInv, AppliedIsFirst
  <2>6. \A g \in Handlers \ {h} : pc[g] \in TxSteps => cmd[g] # m
    BY <1>12 DEF PublishFailed, InboxLocked
  <2>7. InsertedIsNew' /\ InsertedOnce'
    BY <1>12, <2>6
    DEF PublishFailed, Return, InboxInv, InsertedIsNew, InsertedOnce
  <2> QED
    BY <2>4, <2>5, <2>7 DEF InboxInv
<1>13. ASSUME NEW h \in Handlers, DeadlockVictim(h) PROVE InboxInv'
  BY <1>13, InboxQuiet DEF DeadlockVictim, Fail, tables
<1>14. ASSUME NEW h \in Handlers, StatementError(h) PROVE InboxInv'
  BY <1>14, InboxQuiet DEF StatementError, Fail, tables
<1>15. ASSUME NEW h \in Handlers, Abort(h) PROVE InboxInv'
  BY <1>15, InboxQuiet DEF Abort, Return, tables
<1> QED
  BY <1>0, <1>1, <1>2, <1>3, <1>4, <1>5, <1>6, <1>7, <1>8, <1>9, <1>10,
     <1>11, <1>12, <1>13, <1>14, <1>15
  DEF Next, Step

LEMMA InboxAlways == SafeSpec => [](TypeInv /\ InboxInv)
BY TypeInit, TypeStep, InboxInit, InboxStep, PTL DEF SafeSpec

(* Of all the answers a command gets, only the first can be "applied"      *)
(* (transaction_handler.go, processInTx): no number of replicas,           *)
(* redeliveries or crashes moves the money of one command twice.           *)
THEOREM AppliedOnce == SafeSpec => []AppliedIsFirst
<1>1. InboxInv => AppliedIsFirst
  BY DEF InboxInv
<1> QED
  BY <1>1, InboxAlways, PTL

(* An event is in the inbox exactly when an answer is in the outbox: the   *)
(* service never marks a command processed and then stays silent.          *)
THEOREM InboxAgreesWithOutbox == SafeSpec => []AnsweredIffProcessed
<1>1. InboxInv => AnsweredIffProcessed
  BY DEF InboxInv
<1> QED
  BY <1>1, InboxAlways, PTL

-----------------------------------------------------------------------------
(***************************************************************************)
(* The money.  As long as no amount has a fraction of a quantum, what an   *)
(* open transaction has written is the latest committed balance plus the   *)
(* effect of its command: the rows it has written stay locked, so nobody   *)
(* can change them under it.                                               *)
(***************************************************************************)
Written(h) == {w.account : w \in writes[h]}

WritesFit ==
  \A h \in Handlers : \A w \in writes[h] :
    /\ w.account \in accounts
    /\ w.entry.old = balance[w.account]
    /\ w.entry.new = balance[w.account] + Effect(cmd[h], w.account)

WritesComplete ==
  \A h \in Handlers :
    CASE pc[h] = "commit" -> Written(h) = Touches(cmd[h])
      [] pc[h] = "credit" -> Written(h) = Touches(cmd[h]) \ {Request[cmd[h]].to}
      [] OTHER            -> Written(h) = {}

RowsExclusive ==
  \A g, h \in Handlers : g # h => Written(g) \cap Written(h) = {}

Checked ==
  \A h \in Handlers :
    /\ pc[h] = "check" => Request[cmd[h]].type = "transfer"
    /\ pc[h] \in {"debit", "credit", "commit"} => WellFormed(cmd[h])
    /\ pc[h] = "debit" => Debits(cmd[h])
    /\ pc[h] = "credit" => Credits(cmd[h])

UnopenedEmpty == \A a \in Accounts \ accounts : balance[a] = 0

WritesInv == WritesFit /\ WritesComplete /\ RowsExclusive /\ Checked

LedgerInv == WritesInv /\ UnopenedEmpty /\ JournalIsChain

LEMMA LedgerInit == Init => LedgerInv
<1> SUFFICES ASSUME Init PROVE LedgerInv
  OBVIOUS
<1>1. WritesInv
  BY DEF Init, WritesInv, WritesFit, WritesComplete, RowsExclusive, Checked,
         Written, Idle
<1>2. UnopenedEmpty
  BY OpeningAssumption DEF Init, UnopenedEmpty
<1>3. ASSUME NEW a \in Accounts
      PROVE  /\ a \in accounts <=> journal[a] # << >>
             /\ a \in accounts => journal[a][Len(journal[a])].new = balance[a]
             /\ 2..Len(journal[a]) = {}
  <2>1. CASE a \in Opened
    <3>1. journal[a] = <<[old |-> 0, new |-> Opening[a], why |-> "created"]>>
      BY <2>1 DEF Init
    <3>2. Len(journal[a]) = 1 /\ journal[a] # << >>
      BY <3>1
    <3> QED
      BY <2>1, <3>1, <3>2 DEF Init
  <2>2. CASE a \notin Opened
    BY <2>2 DEF Init
  <2> QED
    BY <2>1, <2>2
<1>4. JournalIsChain
  BY <1>3 DEF JournalIsChain
<1> QED
  BY <1>1, <1>2, <1>4 DEF LedgerInv

(* What RETURNING reports of a whole amount is what happened to the row.   *)
LEMMA DebitRowFits ==
  ASSUME WholeAmounts, TypeOK, NEW m \in Commands, WellFormed(m), Debits(m),
         balance[Request[m].from] >= Request[m].amount
  PROVE  /\ DebitRow(m).account = Request[m].from
         /\ DebitRow(m).entry.old = balance[Request[m].from]
         /\ DebitRow(m).entry.new
              = balance[Request[m].from] + Effect(m, Request[m].from)
<1> DEFINE r == Request[m]
           left == balance[r.from] - r.amount
<1>1. r \in Payload /\ r.amount % 2 = 0
  BY RequestAssumption DEF WholeAmounts
<1>2. balance[r.from] \in Quanta /\ r.amount \in Nat
  BY <1>1 DEF Payload, TypeOK
<1>3. left \in Quanta
  BY <1>1, <1>2 DEF Quanta
<1>4. Round(left) = left
  BY <1>3 DEF Round, Quanta
<1>5. Effect(m, r.from) = 0 - r.amount
  BY <1>1, <1>2 DEF Effect, Debits, Credits, WellFormed
<1> QED
  BY <1>2, <1>4, <1>5 DEF DebitRow, Quanta

LEMMA CreditRowFits ==
  ASSUME WholeAmounts, TypeOK, NEW m \in Commands, WellFormed(m), Credits(m)
  PROVE  /\ CreditRow(m).account = Request[m].to
         /\ CreditRow(m).entry.old = balance[Request[m].to]
         /\ CreditRow(m).entry.new
              = balance[Request[m].to] + Effect(m, Request[m].to)
<1> DEFINE r == Request[m]
           sum == balance[r.to] + r.amount
<1>1. r \in Payload /\ r.amount % 2 = 0
  BY RequestAssumption DEF WholeAmounts
<1>2. balance[r.to] \in Quanta /\ r.amount \in Nat
  BY <1>1 DEF Payload, TypeOK
<1>3. sum \in Quanta
  BY <1>1, <1>2 DEF Quanta
<1>4. Round(sum) = sum
  BY <1>3 DEF Round, Quanta
<1>5. Effect(m, r.to) = r.amount
  BY <1>1, <1>2 DEF Effect, Debits, Credits, WellFormed
<1> QED
  BY <1>2, <1>4, <1>5 DEF CreditRow, Quanta

(* A step of one handler that moves no money and leaves it outside the     *)
(* statements that do.                                                     *)
LEMMA LedgerQuiet ==
  ASSUME LedgerInv, UNCHANGED <<accounts, balance, journal>>,
         \A h \in Handlers :
           \/ pc'[h] = pc[h] /\ cmd'[h] = cmd[h] /\ writes'[h] = writes[h]
           \/ /\ writes'[h] = {}
              /\ pc'[h] \notin {"debit", "credit", "commit"}
              /\ pc'[h] = "check" => Request[cmd'[h]].type = "transfer"
  PROVE  LedgerInv'
<1>1. WritesFit'
  BY DEF LedgerInv, WritesInv, WritesFit
<1>2. WritesComplete'
  BY DEF LedgerInv, WritesInv, WritesComplete, Written
<1>3. RowsExclusive'
  BY DEF LedgerInv, WritesInv, RowsExclusive, Written
<1>4. Checked'
  BY DEF LedgerInv, WritesInv, Checked
<1>5. UnopenedEmpty' /\ JournalIsChain'
  BY DEF LedgerInv, UnopenedEmpty, JournalIsChain
<1> QED
  BY <1>1, <1>2, <1>3, <1>4, <1>5 DEF LedgerInv, WritesInv

(* A step of handler h that adds to its own writes a row nobody has        *)
(* locked, or no row, and goes on.                                         *)
LEMMA LedgerWrite ==
  ASSUME LedgerInv, TypeInv, UNCHANGED <<accounts, balance, journal, cmd>>,
         NEW h \in Handlers, NEW step \in {"debit", "credit", "commit"},
         pc' = [pc EXCEPT ![h] = step],
         WellFormed(cmd[h]),
         step = "debit" => Debits(cmd[h]),
         step = "credit" => Credits(cmd[h]),
         NEW W \in SUBSET Write,
         writes' = [writes EXCEPT ![h] = writes[h] \cup W],
         \A w \in W :
           /\ w.account \in accounts
           /\ ~RowLocked(h, w.account)
           /\ w.entry.old = balance[w.account]
           /\ w.entry.new = balance[w.account] + Effect(cmd[h], w.account),
         step = "commit" => Written(h)' = Touches(cmd[h]),
         step = "credit" =>
           Written(h)' = Touches(cmd[h]) \ {Request[cmd[h]].to},
         step = "debit" => Written(h)' = {}
  PROVE  LedgerInv'
<1> USE DEF TypeInv, TypeOK
<1>1. WritesFit'
  BY DEF LedgerInv, WritesInv, WritesFit
<1>2. \A g \in Handlers \ {h} : pc'[g] = pc[g] /\ Written(g)' = Written(g)
  BY DEF Written
<1>3. WritesComplete'
  <2> SUFFICES ASSUME NEW g \in Handlers
               PROVE  CASE pc'[g] = "commit" -> Written(g)' = Touches(cmd[g])
                        [] pc'[g] = "credit" ->
                             Written(g)' = Touches(cmd[g]) \ {Request[cmd[g]].to}
                        [] OTHER -> Written(g)' = {}
    BY DEF WritesComplete, Touches, Debits, Credits
  <2>1. CASE g = h
    <3>1. pc'[g] = step
      BY <2>1
    <3> QED
      BY <2>1, <3>1
  <2>2. CASE g # h
    BY <1>2, <2>2 DEF LedgerInv, WritesInv, WritesComplete
  <2> QED
    BY <2>1, <2>2
<1>4. RowsExclusive'
  <2>1. Written(h)' = Written(h) \cup {w.account : w \in W}
    BY DEF Written
  <2>2. \A w \in W : \A g \in Handlers \ {h} : w.account \notin Written(g)
    BY DEF RowLocked, Written
  <2>3. \A g \in Handlers \ {h} : Written(g)' \cap Written(h)' = {}
    BY <1>2, <2>1, <2>2 DEF LedgerInv, WritesInv, RowsExclusive
  <2>4. \A f, g \in Handlers \ {h} : f # g => Written(f)' \cap Written(g)' = {}
    BY <1>2 DEF LedgerInv, WritesInv, RowsExclusive
  <2> QED
    BY <2>3, <2>4 DEF RowsExclusive
<1>5. Checked'
  BY <1>2 DEF LedgerInv, WritesInv, Checked, WellFormed, Debits, Credits
<1>6. UnopenedEmpty' /\ JournalIsChain'
  BY DEF LedgerInv, UnopenedEmpty, JournalIsChain
<1> QED
  BY <1>1, <1>3, <1>4, <1>5, <1>6 DEF LedgerInv, WritesInv

LEMMA LedgerStep ==
  WholeAmounts /\ TypeInv /\ LedgerInv /\ [Next]_vars => LedgerInv'
<1> SUFFICES ASSUME WholeAmounts, TypeInv, LedgerInv, [Next]_vars
             PROVE  LedgerInv'
  OBVIOUS
<1> USE DEF TypeInv, Idle
<1>a. ASSUME NEW h \in Handlers, pc[h] \notin {"credit", "commit"}
      PROVE  writes[h] = {}
  BY <1>a DEF LedgerInv, WritesInv, WritesComplete, Written
<1>b. ASSUME NEW h \in Handlers, Return(h), UNCHANGED <<accounts, balance, journal>>
      PROVE  LedgerInv'
  BY <1>b, LedgerQuiet DEF Return, TypeOK
<1>c. ASSUME NEW h \in Handlers, NEW why \in Reasons, Fail(h, why),
             UNCHANGED <<accounts, balance, journal>>
      PROVE  LedgerInv'
  BY <1>c, LedgerQuiet DEF Fail, TypeOK
<1>0. ASSUME UNCHANGED vars PROVE LedgerInv'
  BY <1>0, LedgerQuiet DEF vars, tables
<1>1. ASSUME NEW c \in Clients, CreateClient(c) PROVE LedgerInv'
  BY <1>1, LedgerQuiet DEF CreateClient
<1>3. ASSUME NEW h \in Handlers, NEW m \in Commands, Receive(h, m)
      PROVE LedgerInv'
  BY <1>3, <1>a, LedgerQuiet DEF Receive, tables, TypeOK
<1>4. ASSUME NEW h \in Handlers, SkipProcessed(h) PROVE LedgerInv'
  BY <1>4, <1>b DEF SkipProcessed, tables
<1>8. ASSUME NEW h \in Handlers, DebitNoRow(h) PROVE LedgerInv'
  BY <1>8, <1>a, LedgerQuiet DEF DebitNoRow, Goto, tables, TypeOK
<1>9. ASSUME NEW h \in Handlers, DebitReason(h) PROVE LedgerInv'
  BY <1>9, <1>c DEF DebitReason, tables, Reasons
<1>12. ASSUME NEW h \in Handlers, PublishFailed(h) PROVE LedgerInv'
  BY <1>12, <1>b DEF PublishFailed
<1>13. ASSUME NEW h \in Handlers, DeadlockVictim(h) PROVE LedgerInv'
  BY <1>13, <1>c DEF DeadlockVictim, tables, Reasons
<1>14. ASSUME NEW h \in Handlers, StatementError(h) PROVE LedgerInv'
  BY <1>14, <1>c DEF StatementError, tables, Reasons
<1>15. ASSUME NEW h \in Handlers, Abort(h) PROVE LedgerInv'
  BY <1>15, <1>b DEF Abort, tables
<1>2. ASSUME NEW c \in Clients, NEW a \in Accounts, CreateAccount(c, a)
      PROVE LedgerInv'
  <2>1. WritesInv'
    BY <1>2 DEF CreateAccount, LedgerInv, WritesInv, WritesFit, WritesComplete,
                RowsExclusive, Checked, Written
  <2>2. UnopenedEmpty'
    BY <1>2 DEF CreateAccount, LedgerInv, UnopenedEmpty
  <2>3. balance[a] = 0 /\ journal[a] = << >>
    BY <1>2 DEF CreateAccount, LedgerInv, UnopenedEmpty, JournalIsChain
  <2>4. journal' = [journal EXCEPT ![a] = <<[old |-> 0, new |-> 0, why |-> "created"]>>]
    BY <1>2, <2>3 DEF CreateAccount, TypeOK
  <2>5. JournalIsChain'
    BY <1>2, <2>3, <2>4 DEF CreateAccount, LedgerInv, JournalIsChain, TypeOK
  <2> QED
    BY <2>1, <2>2, <2>5 DEF LedgerInv
<1>5. ASSUME NEW h \in Handlers, MarkProcessed(h) PROVE LedgerInv'
  <2> DEFINE m == cmd[h]
  <2>1. m \in Commands /\ Request[m] \in Payload /\ writes[h] = {}
    BY <1>5, <1>a, RequestAssumption DEF MarkProcessed, Working
  <2>2. CASE Request[m].type = "transfer"
    <3>1. pc' = [pc EXCEPT ![h] = "check"]
      BY <1>5, <2>2 DEF MarkProcessed, Goto, FirstStep
    <3> QED
      BY <1>5, <2>1, <2>2, <3>1, LedgerQuiet DEF MarkProcessed, Goto, tables, TypeOK
  <2>3. CASE Request[m].type # "transfer"
    <3>1. PICK step \in {"debit", "credit"} :
            /\ pc' = [pc EXCEPT ![h] = step]
            /\ step = "debit" => Request[m].type = "withdraw"
            /\ step = "credit" => Request[m].type = "deposit"
      BY <1>5, <2>1, <2>3 DEF MarkProcessed, Goto, FirstStep, Payload, TxTypes
    <3>2. WellFormed(m)
      BY <2>3 DEF WellFormed
    <3>3. Written(h)' = {}
      BY <1>5, <2>1 DEF MarkProcessed, Written
    <3>4. step = "credit" => Touches(m) = {Request[m].to}
      BY <2>1, <3>1 DEF Touches, Debits, Credits, Payload
    <3>7. (step = "debit" => Debits(m)) /\ (step = "credit" => Credits(m))
      BY <3>1 DEF Debits, Credits
    <3>5. writes' = [writes EXCEPT ![h] = writes[h] \cup {}]
      BY <1>5 DEF MarkProcessed, TypeOK
    <3>6. UNCHANGED <<accounts, balance, journal, cmd>>
      BY <1>5 DEF MarkProcessed, Goto, tables
    <3> QED
      BY <3>1, <3>2, <3>3, <3>4, <3>5, <3>6, <3>7, LedgerWrite
  <2> QED
    BY <2>2, <2>3
<1>6. ASSUME NEW h \in Handlers, CheckTransfer(h) PROVE LedgerInv'
  <2> DEFINE m == cmd[h]
  <2>1. m \in Commands /\ writes[h] = {} /\ Refusal(m) \subseteq Reasons
    BY <1>6, <1>a DEF CheckTransfer, Working, Refusal, Reasons
  <2>2. CASE \E why \in Refusal(m) : Fail(h, why)
    BY <1>6, <2>1, <2>2, <1>c DEF CheckTransfer, tables
  <2>3. CASE Refusal(m) = {} /\ Goto(h, "debit") /\ UNCHANGED writes
    <3>1. WellFormed(m) /\ Debits(m)
      BY <1>6, <2>3
      DEF Refusal, WellFormed, Debits, CheckTransfer, LedgerInv, WritesInv, Checked
    <3>2. Written(h)' = {}
      BY <2>1, <2>3 DEF Written
    <3>3. writes' = [writes EXCEPT ![h] = writes[h] \cup {}]
      BY <2>3 DEF TypeOK
    <3>4. UNCHANGED <<accounts, balance, journal, cmd>>
      BY <1>6, <2>3 DEF CheckTransfer, Goto, tables
    <3>5. pc' = [pc EXCEPT ![h] = "debit"]
      BY <2>3 DEF Goto
    <3> QED
      BY <3>1, <3>2, <3>3, <3>4, <3>5, LedgerWrite
  <2> QED
    BY <1>6, <2>2, <2>3 DEF CheckTransfer
<1>7. ASSUME NEW h \in Handlers, Debit(h) PROVE LedgerInv'
  <2> DEFINE m == cmd[h]
             r == Request[m]
             step == IF r.type = "transfer" THEN "credit" ELSE "commit"
  <2>1. m \in Commands /\ r \in Payload /\ writes[h] = {}
    BY <1>7, <1>a, RequestAssumption DEF Debit, Working
  <2>2. WellFormed(m) /\ Debits(m)
    BY <1>7 DEF Debit, LedgerInv, WritesInv, Checked
  <2>3. /\ DebitRow(m) \in Write
        /\ DebitRow(m).account = r.from
        /\ DebitRow(m).entry.old = balance[r.from]
        /\ DebitRow(m).entry.new = balance[r.from] + Effect(m, r.from)
    BY <1>7, <2>1, <2>2, DebitRowType, DebitRowFits DEF Debit
  <2>4. writes' = [writes EXCEPT ![h] = writes[h] \cup {DebitRow(m)}]
    BY <1>7 DEF Debit
  <2>5. writes'[h] = {DebitRow(m)}
    BY <2>1, <2>4 DEF TypeOK
  <2>6. Written(h)' = {r.from}
    BY <2>3, <2>5 DEF Written
  <2>7. step = "commit" => Touches(m) = {r.from}
    BY <2>1, <2>2 DEF Touches, Debits, Credits, Payload
  <2>8. step = "credit" => Touches(m) \ {r.to} = {r.from}
    BY <2>1, <2>2, <2>4 DEF Touches, Debits, Credits, Payload, WellFormed
  <2>9. UNCHANGED <<accounts, balance, journal, cmd>>
    BY <1>7 DEF Debit, Goto, tables
  <2>10. pc' = [pc EXCEPT ![h] = step] /\ step \in {"credit", "commit"}
    BY <1>7 DEF Debit, Goto
  <2>11. r.from \in accounts /\ ~RowLocked(h, r.from)
    BY <1>7 DEF Debit
  <2>12. step = "credit" => Credits(m)
    BY DEF Credits
  <2> HIDE DEF step
  <2> DEFINE W == {DebitRow(m)}
  <2>13. \A w \in W :
          /\ w.account \in accounts
          /\ ~RowLocked(h, w.account)
          /\ w.entry.old = balance[w.account]
          /\ w.entry.new = balance[w.account] + Effect(m, w.account)
    BY <2>3, <2>11
  <2>14. W \in SUBSET Write /\ writes' = [writes EXCEPT ![h] = writes[h] \cup W]
    BY <2>3, <2>4
  <2>15. /\ step \in {"debit", "credit", "commit"} /\ step # "debit"
         /\ step = "commit" => Written(h)' = Touches(m)
         /\ step = "credit" => Written(h)' = Touches(m) \ {r.to}
    BY <2>6, <2>7, <2>8, <2>10
  <2> HIDE DEF W
  <2> QED
    BY <2>2, <2>9, <2>10, <2>12, <2>13, <2>14, <2>15, LedgerWrite
<1>10. ASSUME NEW h \in Handlers, Credit(h) PROVE LedgerInv'
  <2> DEFINE m == cmd[h]
             r == Request[m]
  <2>1. m \in Commands /\ r \in Payload
    BY <1>10, RequestAssumption DEF Credit, Working
  <2>2. CASE \E why \in Reasons : Fail(h, why)
    BY <1>10, <2>2, <1>c DEF Credit, tables
  <2>3. CASE /\ r.to \in accounts
             /\ writes' = [writes EXCEPT ![h] = @ \cup {CreditRow(m)}]
             /\ Goto(h, "commit")
    <3>1. WellFormed(m) /\ Written(h) = Touches(m) \ {r.to}
      BY <1>10 DEF Credit, LedgerInv, WritesInv, Checked, WritesComplete
    <3>2. Credits(m)
      BY <1>10 DEF Credit, LedgerInv, WritesInv, Checked
    <3>3. /\ CreditRow(m) \in Write
          /\ CreditRow(m).account = r.to
          /\ CreditRow(m).entry.old = balance[r.to]
          /\ CreditRow(m).entry.new = balance[r.to] + Effect(m, r.to)
      BY <2>1, <3>1, <3>2, CreditRowType, CreditRowFits
    <3>4. writes' = [writes EXCEPT ![h] = writes[h] \cup {CreditRow(m)}]
      BY <2>3
    <3>5. writes'[h] = writes[h] \cup {CreditRow(m)}
      BY <3>4 DEF TypeOK
    <3>6. Written(h)' = Written(h) \cup {r.to}
      BY <3>3, <3>5 DEF Written
    <3>7. r.to \in Touches(m)
      BY <2>1, <3>2 DEF Touches, Payload
    <3>8. Written(h)' = Touches(m)
      BY <3>1, <3>6, <3>7
    <3>9. UNCHANGED <<accounts, balance, journal, cmd>>
      BY <1>10, <2>3 DEF Credit, Goto, tables
    <3>10. pc' = [pc EXCEPT ![h] = "commit"] /\ ~RowLocked(h, r.to)
      BY <1>10, <2>3 DEF Credit, Goto
    <3> DEFINE W == {CreditRow(m)}
    <3>11. \A w \in W :
             /\ w.account \in accounts
             /\ ~RowLocked(h, w.account)
             /\ w.entry.old = balance[w.account]
             /\ w.entry.new = balance[w.account] + Effect(m, w.account)
      BY <2>3, <3>3, <3>10
    <3>12. W \in SUBSET Write /\ writes' = [writes EXCEPT ![h] = writes[h] \cup W]
      BY <3>3, <3>4
    <3> HIDE DEF W
    <3> QED
      BY <3>1, <3>8, <3>9, <3>10, <3>11, <3>12, LedgerWrite
  <2> QED
    BY <1>10, <2>2, <2>3 DEF Credit, Reasons
<1>11. ASSUME NEW h \in Handlers, Commit(h) PROVE LedgerInv'
  <2> DEFINE m == cmd[h]
             Wrote(a) == \E w \in writes[h] : w.account = a
             Row(a) == CHOOSE w \in writes[h] : w.account = a
  <2>1. UNCHANGED accounts /\ m \in Commands
    BY <1>11 DEF Commit, Working
  <2>2. \A a \in Accounts : Wrote(a) => Row(a) \in writes[h] /\ Row(a).account = a
    OBVIOUS
  <2>3. ASSUME NEW a \in Accounts, Wrote(a)
        PROVE  /\ balance'[a] = Row(a).entry.new
               /\ journal'[a] = Append(journal[a], Row(a).entry)
               /\ Row(a).entry.old = balance[a]
               /\ a \in accounts
    BY <1>11, <2>2, <2>3 DEF Commit, LedgerInv, WritesInv, WritesFit
  <2>4. ASSUME NEW a \in Accounts, ~Wrote(a)
        PROVE  balance'[a] = balance[a] /\ journal'[a] = journal[a]
    BY <1>11, <2>4 DEF Commit
  <2>5. \A g \in Handlers \ {h} : \A w \in writes[g] :
          w.account \in Accounts /\ ~Wrote(w.account)
    <3> SUFFICES ASSUME NEW g \in Handlers \ {h}, NEW w \in writes[g]
                 PROVE  w.account \in Accounts /\ ~Wrote(w.account)
      OBVIOUS
    <3>1. w.account \in Accounts
      BY DEF TypeOK, Write
    <3>2. w.account \in Written(g) /\ Written(g) \cap Written(h) = {}
      BY DEF Written, LedgerInv, WritesInv, RowsExclusive
    <3>3. \A v \in writes[h] : v.account \in Written(h)
      BY DEF Written
    <3> QED
      BY <3>1, <3>2, <3>3
  <2>6. /\ writes' = [writes EXCEPT ![h] = {}]
        /\ pc' = [pc EXCEPT ![h] = "idle"]
        /\ cmd' = [cmd EXCEPT ![h] = NoCommand]
        /\ writes'[h] = {} /\ pc'[h] = "idle"
        /\ \A g \in Handlers \ {h} :
             writes'[g] = writes[g] /\ pc'[g] = pc[g] /\ cmd'[g] = cmd[g]
    BY <1>11 DEF Commit, Return, TypeOK
  <2>7. WritesFit'
    <3> SUFFICES ASSUME NEW g \in Handlers, NEW w \in writes'[g]
                 PROVE  /\ w.account \in accounts'
                        /\ w.entry.old = balance'[w.account]
                        /\ w.entry.new
                             = balance'[w.account] + Effect(cmd'[g], w.account)
      BY DEF WritesFit, Effect, Debits, Credits
    <3>1. g # h /\ w \in writes[g] /\ cmd'[g] = cmd[g]
      BY <2>6
    <3>2. balance'[w.account] = balance[w.account]
      BY <2>4, <2>5, <3>1
    <3> QED
      BY <2>1, <3>1, <3>2 DEF LedgerInv, WritesInv, WritesFit
  <2>8. WritesComplete' /\ RowsExclusive' /\ Checked'
    <3>1. Written(h)' = {} /\ \A g \in Handlers \ {h} : Written(g)' = Written(g)
      BY <2>6 DEF Written
    <3>2. WritesComplete'
      BY <2>6, <3>1 DEF LedgerInv, WritesInv, WritesComplete
    <3>3. RowsExclusive'
      BY <3>1 DEF LedgerInv, WritesInv, RowsExclusive
    <3>4. Checked'
      BY <2>6 DEF LedgerInv, WritesInv, Checked
    <3> QED
      BY <3>2, <3>3, <3>4
  <2>9. UnopenedEmpty'
    BY <2>1, <2>3, <2>4 DEF LedgerInv, UnopenedEmpty
  <2>10. ASSUME NEW a \in Accounts
         PROVE  /\ a \in accounts' <=> journal'[a] # << >>
                /\ a \in accounts' => journal'[a][Len(journal'[a])].new = balance'[a]
                /\ \A i \in 2..Len(journal'[a]) :
                     journal'[a][i].old = journal'[a][i - 1].new
    <3>1. CASE ~Wrote(a)
      BY <2>1, <2>4, <3>1 DEF LedgerInv, JournalIsChain
    <3>2. CASE Wrote(a)
      <4> DEFINE J == journal[a]
                 e == Row(a).entry
      <4>1. J \in Seq(Entry) /\ J # << >> /\ J[Len(J)].new = balance[a]
        BY <2>3, <3>2 DEF LedgerInv, JournalIsChain, TypeOK
      <4>2. /\ journal'[a] = Append(J, e)
            /\ e.old = balance[a] /\ balance'[a] = e.new /\ a \in accounts'
        BY <2>1, <2>3, <3>2
      <4>3. \A i \in 2..Len(J) : J[i].old = J[i - 1].new
        BY DEF LedgerInv, JournalIsChain
      <4> HIDE DEF J, e
      <4>4. /\ Len(Append(J, e)) = Len(J) + 1 /\ Len(J) \in Nat \ {0}
            /\ Append(J, e)[Len(J) + 1] = e
            /\ \A i \in 1..Len(J) : Append(J, e)[i] = J[i]
        BY <4>1
      <4>5. ASSUME NEW i \in 2..(Len(J) + 1)
            PROVE  Append(J, e)[i].old = Append(J, e)[i - 1].new
        <5>1. CASE i = Len(J) + 1
          BY <4>1, <4>2, <4>4, <5>1
        <5>2. CASE i \in 2..Len(J)
          BY <4>3, <4>4, <5>2
        <5> QED
          BY <4>4, <5>1, <5>2
      <4> QED
        BY <4>2, <4>4, <4>5
    <3> QED
      BY <3>1, <3>2
  <2>11. JournalIsChain'
    BY <2>10 DEF JournalIsChain
  <2> QED
    BY <2>7, <2>8, <2>9, <2>11 DEF LedgerInv, WritesInv
<1> QED
  BY <1>0, <1>1, <1>2, <1>3, <1>4, <1>5, <1>6, <1>7, <1>8, <1>9, <1>10,
     <1>11, <1>12, <1>13, <1>14, <1>15
  DEF Next, Step

LEMMA LedgerAlways ==
  ASSUME WholeAmounts PROVE SafeSpec => [](TypeInv /\ LedgerInv)
<1>1. Init => TypeInv /\ LedgerInv
  BY TypeInit, LedgerInit
<1>2. TypeInv /\ LedgerInv /\ [Next]_vars => (TypeInv /\ LedgerInv)'
  BY TypeStep, LedgerStep
<1> QED
  BY <1>1, <1>2, PTL DEF SafeSpec

(* The BalanceUpdated events of every account are its exact history, as    *)
(* long as no amount needs rounding: no update is lost between replicas,   *)
(* and the old and new balances of consecutive events meet                 *)
(* (account_repo.go, Credit and Debit).                                    *)
THEOREM HistoryIsExact ==
  ASSUME WholeAmounts PROVE SafeSpec => []JournalIsChain
<1>1. LedgerInv => JournalIsChain
  BY DEF LedgerInv
<1> QED
  BY <1>1, LedgerAlways, PTL

-----------------------------------------------------------------------------
(***************************************************************************)
(* The refinement.  A commit is Bank's Apply: its command is undecided     *)
(* because the event is not in the inbox, and the rows it wrote are        *)
(* exactly the effect of the command on the current balances.              *)
(***************************************************************************)
LEMMA EffectOutside ==
  ASSUME NEW m \in Commands, NEW a \in Accounts, a \notin Touches(m)
  PROVE  Effect(m, a) = 0
BY DEF Touches, Effect

LEMMA CommitIsApply ==
  ASSUME TypeInv, InboxInv, LedgerInv, NEW h \in Handlers, Commit(h),
         NEW m \in Commands, m = cmd[h]
  PROVE  B!Apply(m)
<1> DEFINE r == Request[m]
<1> USE DEF TypeInv
<1>1. r \in Payload
  BY RequestAssumption
<1>2. m \notin processed /\ results[m] = << >>
  BY <1>1 DEF Commit, InboxInv, InsertedIsNew, AnsweredIffProcessed, TxSteps, ExecSteps
<1>3. Written(h) = Touches(m) /\ WellFormed(m)
  BY DEF Commit, LedgerInv, WritesInv, WritesComplete, Checked
<1>4. \A w \in writes[h] :
        /\ w.account \in accounts
        /\ w.entry.new = balance[w.account] + Effect(m, w.account)
        /\ w.entry.new \in Nat
  BY DEF LedgerInv, WritesInv, WritesFit, TypeOK, Write, Entry, Quanta
<1>5. B!Allowed(m)
  <2>1. Touches(m) \subseteq accounts
    BY <1>3, <1>4 DEF Written
  <2>2. ASSUME Debits(m) PROVE balance[r.from] >= r.amount
    <3>1. r.from \in Touches(m) /\ r.from \in Accounts /\ r.amount \in Nat
      BY <1>1, <2>2 DEF Touches, Payload
    <3>2. PICK w \in writes[h] : w.account = r.from
      BY <1>3, <3>1 DEF Written
    <3>3. Effect(m, r.from) = 0 - r.amount
      BY <1>1, <1>3, <2>2 DEF Effect, Payload, Debits, Credits, WellFormed
    <3>4. balance[r.from] \in Nat
      BY <3>1 DEF TypeOK, Quanta
    <3> QED
      BY <1>4, <3>1, <3>2, <3>3, <3>4
  <2> QED
    BY <1>3, <2>1, <2>2
    DEF B!Allowed, B!Touches, Touches, B!WellFormed, WellFormed, B!Debits, Debits,
        B!Credits, Credits
<1>6. balance' = [a \in Accounts |-> balance[a] + Effect(m, a)]
  <2>1. ASSUME NEW a \in Accounts PROVE balance'[a] = balance[a] + Effect(m, a)
    <3>1. CASE \E w \in writes[h] : w.account = a
      <4> DEFINE w == CHOOSE w \in writes[h] : w.account = a
      <4>1. w \in writes[h] /\ w.account = a
        BY <3>1
      <4> QED
        BY <1>4, <3>1, <4>1 DEF Commit
    <3>2. CASE ~ \E w \in writes[h] : w.account = a
      <4>1. Effect(m, a) = 0
        BY <1>1, <1>3, <3>2, EffectOutside DEF Written
      <4>2. balance[a] \in Nat
        BY DEF TypeOK, Quanta
      <4> QED
        BY <3>2, <4>1, <4>2 DEF Commit
    <3> QED
      BY <3>1, <3>2
  <2> QED
    BY <2>1 DEF Commit
<1>7. results' = [results EXCEPT ![m] = <<"applied">>]
  BY <1>1, <1>2 DEF Commit
<1>8. /\ DecisionOf(m) = "pending" /\ DecisionOf(m)' = "applied"
      /\ \A n \in Commands \ {m} : DecisionOf(n)' = DecisionOf(n)
  BY <1>1, <1>2, <1>7 DEF DecisionOf, TypeOK
<1> QED
  BY <1>1, <1>5, <1>6, <1>8
  DEF B!Apply, B!Effect, Effect, B!Debits, Debits, B!Credits, Credits, Commit

LEMMA PublishFailedIsReject ==
  ASSUME TypeInv, NEW h \in Handlers, PublishFailed(h),
         NEW m \in Commands, m = cmd[h]
  PROVE  B!Reject(m) \/ UNCHANGED B!bankVars
<1> USE DEF TypeInv
<1>1. reason[h] # "applied"
  BY DEF TypeOK, Reasons
<1>2. results' = [results EXCEPT ![m] = Append(results[m], reason[h])]
  BY <1>1 DEF PublishFailed
<1>3. \A n \in Commands \ {m} : DecisionOf(n)' = DecisionOf(n)
  BY <1>1, <1>2 DEF DecisionOf, TypeOK
<1>4. UNCHANGED <<accounts, balance>>
  BY DEF PublishFailed
<1>5. CASE results[m] = << >>
  <2>1. DecisionOf(m) = "pending" /\ DecisionOf(m)' = "rejected"
    BY <1>1, <1>2, <1>5 DEF DecisionOf, TypeOK
  <2> QED
    BY <1>1, <1>3, <1>4, <2>1 DEF B!Reject
<1>6. CASE results[m] # << >>
  <2>1. PICK J \in Seq({"applied"} \cup Reasons) : J = results[m] /\ J # << >>
    BY <1>6 DEF TypeOK
  <2>2. results'[m] = Append(J, reason[h])
    BY <1>1, <1>2, <2>1 DEF TypeOK
  <2>3. Append(J, reason[h])[1] = J[1] /\ Append(J, reason[h]) # << >>
    BY <2>1
  <2>4. DecisionOf(m)' = DecisionOf(m)
    BY <2>1, <2>2, <2>3 DEF DecisionOf
  <2> QED
    BY <1>3, <1>4, <2>4 DEF B!bankVars
<1> QED
  BY <1>5, <1>6

LEMMA BankStep ==
  TypeInv /\ InboxInv /\ LedgerInv /\ [Next]_vars => [B!Next]_(B!bankVars)
<1> SUFFICES ASSUME TypeInv, InboxInv, LedgerInv, [Next]_vars
             PROVE  [B!Next]_(B!bankVars)
  OBVIOUS
<1>q. ASSUME UNCHANGED <<accounts, balance, results>> PROVE UNCHANGED B!bankVars
  BY <1>q DEF B!bankVars, DecisionOf
<1>1. ASSUME NEW c \in Clients, NEW a \in Accounts, CreateAccount(c, a)
      PROVE  B!Next
  <2>1. B!OpenAccount(a)
    BY <1>1 DEF CreateAccount, B!OpenAccount, DecisionOf
  <2> QED
    BY <2>1 DEF B!Next
<1>2. ASSUME NEW h \in Handlers, Commit(h) PROVE B!Next
  <2>1. PICK m \in Commands : m = cmd[h]
    BY <1>2 DEF Commit, TypeInv, Working, Idle
  <2> QED
    BY <1>2, <2>1, CommitIsApply DEF B!Next, B!Decide
<1>3. ASSUME NEW h \in Handlers, PublishFailed(h)
      PROVE  B!Next \/ UNCHANGED B!bankVars
  <2>1. PICK m \in Commands : m = cmd[h]
    BY <1>3 DEF PublishFailed, TypeInv, Working, Idle
  <2> QED
    BY <1>3, <2>1, PublishFailedIsReject DEF B!Next, B!Decide
<1>4. CASE UNCHANGED vars
  BY <1>4, <1>q DEF vars, tables
<1>5. ASSUME NEW c \in Clients, CreateClient(c) PROVE UNCHANGED B!bankVars
  BY <1>5, <1>q DEF CreateClient
<1>6. ASSUME NEW h \in Handlers,
             \/ SkipProcessed(h) \/ MarkProcessed(h) \/ CheckTransfer(h)
             \/ Debit(h) \/ DebitNoRow(h) \/ DebitReason(h) \/ Credit(h)
             \/ DeadlockVictim(h) \/ StatementError(h) \/ Abort(h)
      PROVE  UNCHANGED B!bankVars
  <2>1. UNCHANGED tables
    BY <1>6 DEF SkipProcessed, MarkProcessed, CheckTransfer, Debit, DebitNoRow,
                DebitReason, Credit, DeadlockVictim, StatementError, Abort
  <2> QED
    BY <2>1, <1>q DEF tables
<1>7. ASSUME NEW h \in Handlers, NEW m \in Commands, Receive(h, m)
      PROVE  UNCHANGED B!bankVars
  BY <1>7, <1>q DEF Receive, tables
<1> QED
  BY <1>1, <1>2, <1>3, <1>4, <1>5, <1>6, <1>7 DEF Next, Step

LEMMA BankInit == Init => B!Init
BY DEF Init, B!Init, DecisionOf

(* accounts-ms keeps Bank's promise whatever the number of replicas and    *)
(* however often and in whatever order commands are delivered, as long as  *)
(* no amount needs rounding: a command is decided once, in one step that   *)
(* moves exactly its money or none (transaction_handler.go, processInTx).  *)
THEOREM AccountsImplementBank ==
  ASSUME WholeAmounts PROVE SafeSpec => ImplementsBank
<1>1. SafeSpec => [](TypeInv /\ InboxInv /\ LedgerInv)
  BY InboxAlways, LedgerAlways, PTL
<1> QED
  BY <1>1, BankInit, BankStep, PTL DEF ImplementsBank, SafeSpec, B!SafeSpec

-----------------------------------------------------------------------------
(***************************************************************************)
(* The end of the history.  Rounded or not, the last BalanceUpdated event  *)
(* of an account carries the balance in the table, and an account that is  *)
(* not there has neither.                                                  *)
(***************************************************************************)
RowsExist == \A h \in Handlers : \A w \in writes[h] : w.account \in accounts

HistoryEnds ==
  \A a \in Accounts :
    /\ a \in accounts <=> journal[a] # << >>
    /\ a \in accounts => journal[a][Len(journal[a])].new = balance[a]

HistoryInv == RowsExist /\ UnopenedEmpty /\ HistoryEnds

LEMMA HistoryInit == Init => HistoryInv
<1> SUFFICES ASSUME Init PROVE HistoryInv
  OBVIOUS
<1>1. RowsExist
  BY DEF Init, RowsExist
<1> QED
  BY <1>1, LedgerInit DEF LedgerInv, JournalIsChain, HistoryInv, HistoryEnds

LEMMA HistoryQuiet ==
  ASSUME HistoryInv, UNCHANGED <<accounts, balance, journal>>,
         \A h \in Handlers : \A w \in writes'[h] : w \in writes[h] \/ w.account \in accounts
  PROVE  HistoryInv'
<1>1. RowsExist'
  BY DEF HistoryInv, RowsExist
<1>2. UnopenedEmpty' /\ HistoryEnds'
  BY DEF HistoryInv, UnopenedEmpty, HistoryEnds
<1> QED
  BY <1>1, <1>2 DEF HistoryInv

LEMMA HistoryStep == TypeInv /\ HistoryInv /\ [Next]_vars => HistoryInv'
<1> SUFFICES ASSUME TypeInv, HistoryInv, [Next]_vars PROVE HistoryInv'
  OBVIOUS
<1> USE DEF TypeInv
<1>0. ASSUME UNCHANGED vars PROVE HistoryInv'
  BY <1>0, HistoryQuiet DEF vars, tables
<1>1. ASSUME NEW c \in Clients, CreateClient(c) PROVE HistoryInv'
  BY <1>1, HistoryQuiet DEF CreateClient
<1>2. ASSUME NEW c \in Clients, NEW a \in Accounts, CreateAccount(c, a)
      PROVE HistoryInv'
  <2>1. balance[a] = 0 /\ journal[a] = << >>
    BY <1>2 DEF CreateAccount, HistoryInv, UnopenedEmpty, HistoryEnds
  <2>2. journal' = [journal EXCEPT ![a] = <<[old |-> 0, new |-> 0, why |-> "created"]>>]
    BY <1>2, <2>1 DEF CreateAccount, TypeOK
  <2>3. /\ journal'[a] # << >> /\ journal'[a][Len(journal'[a])].new = 0
        /\ \A b \in Accounts \ {a} : journal'[b] = journal[b]
    BY <2>2 DEF TypeOK
  <2>4. HistoryEnds'
    BY <1>2, <2>1, <2>3 DEF CreateAccount, HistoryInv, HistoryEnds
  <2>5. RowsExist' /\ UnopenedEmpty'
    BY <1>2 DEF CreateAccount, HistoryInv, RowsExist, UnopenedEmpty
  <2> QED
    BY <2>4, <2>5 DEF HistoryInv
<1>3. ASSUME NEW h \in Handlers, NEW m \in Commands, Receive(h, m) PROVE HistoryInv'
  BY <1>3, HistoryQuiet DEF Receive, tables
<1>4. ASSUME NEW h \in Handlers, Return(h), UNCHANGED <<accounts, balance, journal>>
      PROVE HistoryInv'
  BY <1>4, HistoryQuiet DEF Return, TypeOK
<1>5. ASSUME NEW h \in Handlers, NEW why, Fail(h, why), UNCHANGED tables
      PROVE HistoryInv'
  BY <1>5, HistoryQuiet DEF Fail, TypeOK, tables
<1>6. ASSUME NEW h \in Handlers,
             MarkProcessed(h) \/ (CheckTransfer(h) /\ UNCHANGED writes) \/ DebitNoRow(h)
      PROVE HistoryInv'
  BY <1>6, HistoryQuiet DEF MarkProcessed, CheckTransfer, DebitNoRow, tables
<1>7. ASSUME NEW h \in Handlers, NEW row, row.account \in accounts,
             writes' = [writes EXCEPT ![h] = @ \cup {row}], UNCHANGED tables
      PROVE HistoryInv'
  BY <1>7, HistoryQuiet DEF TypeOK, tables
<1>8. ASSUME NEW h \in Handlers, Debit(h) PROVE HistoryInv'
  <2>1. DebitRow(cmd[h]).account \in accounts
    BY <1>8 DEF Debit, DebitRow
  <2> QED
    BY <1>7, <1>8, <2>1 DEF Debit
<1>9. ASSUME NEW h \in Handlers, Credit(h) PROVE HistoryInv'
  <2>1. CASE \E why \in Reasons : Fail(h, why)
    BY <1>5, <1>9, <2>1 DEF Credit
  <2>2. CASE /\ Request[cmd[h]].to \in accounts
             /\ writes' = [writes EXCEPT ![h] = @ \cup {CreditRow(cmd[h])}]
    <3>1. CreditRow(cmd[h]).account \in accounts
      BY <2>2 DEF CreditRow
    <3> QED
      BY <1>7, <1>9, <2>2, <3>1 DEF Credit
  <2> QED
    BY <1>9, <2>1, <2>2 DEF Credit, Reasons
<1>10. ASSUME NEW h \in Handlers, Commit(h) PROVE HistoryInv'
  <2> DEFINE Wrote(a) == \E w \in writes[h] : w.account = a
             Row(a) == CHOOSE w \in writes[h] : w.account = a
  <2>1. UNCHANGED accounts
    BY <1>10 DEF Commit
  <2>2. ASSUME NEW a \in Accounts, Wrote(a)
        PROVE  /\ a \in accounts /\ balance'[a] = Row(a).entry.new
               /\ journal'[a] = Append(journal[a], Row(a).entry)
    BY <1>10, <2>2 DEF Commit, HistoryInv, RowsExist
  <2>3. ASSUME NEW a \in Accounts, ~Wrote(a)
        PROVE  balance'[a] = balance[a] /\ journal'[a] = journal[a]
    BY <1>10, <2>3 DEF Commit
  <2>4. RowsExist'
    BY <1>10, <2>1 DEF Commit, Return, TypeOK, HistoryInv, RowsExist
  <2>5. UnopenedEmpty'
    BY <2>1, <2>2, <2>3 DEF HistoryInv, UnopenedEmpty
  <2>6. ASSUME NEW a \in Accounts
        PROVE  /\ a \in accounts' <=> journal'[a] # << >>
               /\ a \in accounts' => journal'[a][Len(journal'[a])].new = balance'[a]
    <3>1. CASE ~Wrote(a)
      BY <2>1, <2>3, <3>1 DEF HistoryInv, HistoryEnds
    <3>2. CASE Wrote(a)
      <4> DEFINE J == journal[a]
                 e == Row(a).entry
      <4>1. J \in Seq(Entry) /\ journal'[a] = Append(J, e) /\ e.new = balance'[a]
        BY <2>2, <3>2 DEF TypeOK
      <4>2. a \in accounts'
        BY <2>1, <2>2, <3>2
      <4> HIDE DEF J, e
      <4>3. /\ Append(J, e) # << >> /\ Len(Append(J, e)) = Len(J) + 1
            /\ Append(J, e)[Len(J) + 1] = e
        BY <4>1
      <4> QED
        BY <4>1, <4>2, <4>3
    <3> QED
      BY <3>1, <3>2
  <2>7. HistoryEnds'
    BY <2>6 DEF HistoryEnds
  <2> QED
    BY <2>4, <2>5, <2>7 DEF HistoryInv
<1> QED
  BY <1>0, <1>1, <1>2, <1>3, <1>4, <1>5, <1>6, <1>8, <1>9, <1>10
  DEF Next, Step, SkipProcessed, CheckTransfer, DebitReason, PublishFailed,
      DeadlockVictim, StatementError, Abort, tables

(***************************************************************************)
(* Why commands are rejected.  A handler carries the cause of a failure    *)
(* from the statement that found it to the event that tells it; what it    *)
(* found stays true, because histories and failures only grow and          *)
(* accounts never disappear.                                               *)
(***************************************************************************)
CauseFor(h) ==
  LET r == Request[cmd[h]] IN
  /\ pc[h] = "check" => r.type = "transfer"
  /\ pc[h] \in {"debit", "exists"} => Debits(cmd[h])
  /\ pc[h] = "credit" => Credits(cmd[h])
  /\ pc[h] = "exists" /\ r.from \in accounts => WasShort(r.from, r.amount)
  /\ pc[h] = "publishFailed" => ReasonHolds(cmd[h], reason[h])

CauseInv ==
  /\ Opened \subseteq accounts
  /\ \A h \in Handlers : CauseFor(h)
  /\ ReasonsHaveCause

LEMMA CauseInit == Init => CauseInv
BY DEF Init, CauseInv, CauseFor, ReasonsHaveCause, Idle

(* An account is opened with nothing, which is less than any amount. *)
LEMMA HistoriesGrow ==
  ASSUME TypeInv, [Next]_vars
  PROVE  /\ accounts \subseteq accounts' /\ failures' >= failures
         /\ \A a \in Accounts, n \in Nat \ {0} :
              WasShort(a, n) \/ a \in accounts' \ accounts => WasShort(a, n)'
<1> DEFINE Grown ==
             /\ accounts \subseteq accounts' /\ failures' >= failures
             /\ \A a \in Accounts, n \in Nat \ {0} :
                  WasShort(a, n) \/ a \in accounts' \ accounts => WasShort(a, n)'
<1> USE DEF TypeInv, TypeOK
<1>q. ASSUME UNCHANGED <<accounts, journal, failures>>
      PROVE  Grown
  BY <1>q DEF WasShort
<1>a. ASSUME NEW a \in Accounts, NEW n \in Nat \ {0}, NEW e \in Entry,
             journal'[a] = Append(journal[a], e), WasShort(a, n) \/ e.new < n
      PROVE  WasShort(a, n)'
  <2> DEFINE J == journal[a]
  <2>1. J \in Seq(Entry)
    OBVIOUS
  <2> HIDE DEF J
  <2>2. /\ DOMAIN Append(J, e) = 1..(Len(J) + 1) /\ DOMAIN J = 1..Len(J)
        /\ Len(J) \in Nat /\ Append(J, e)[Len(J) + 1] = e
        /\ \A i \in 1..Len(J) : Append(J, e)[i] = J[i]
    BY <2>1
  <2>3. CASE e.new < n
    <3>1. Len(J) + 1 \in DOMAIN Append(J, e)
      BY <2>2
    <3> QED
      BY <1>a, <2>2, <2>3, <3>1 DEF WasShort, J
  <2>4. CASE WasShort(a, n)
    <3>1. PICK i \in 1..Len(J) : J[i].new < n
      BY <2>2, <2>4 DEF WasShort, J
    <3>2. i \in DOMAIN Append(J, e) /\ Append(J, e)[i] = J[i]
      BY <2>2, <3>1
    <3> QED
      BY <1>a, <3>1, <3>2 DEF WasShort, J
  <2> QED
    BY <1>a, <2>3, <2>4
<1>1. ASSUME NEW c \in Clients, NEW a \in Accounts, CreateAccount(c, a)
      PROVE  Grown
  <2> DEFINE e == [old |-> 0, new |-> 0, why |-> "created"]
  <2>1. e \in Entry /\ e.new = 0
    BY DEF Entry, Quanta, BalanceReasons
  <2>2. /\ journal'[a] = Append(journal[a], e)
        /\ \A b \in Accounts \ {a} : journal'[b] = journal[b]
        /\ accounts' = accounts \cup {a} /\ failures' = failures
    BY <1>1 DEF CreateAccount
  <2> HIDE DEF e
  <2>3. ASSUME NEW b \in Accounts, NEW n \in Nat \ {0},
               WasShort(b, n) \/ b \in accounts' \ accounts
        PROVE  WasShort(b, n)'
    <3>1. CASE b = a
      BY <1>a, <2>1, <2>2, <3>1
    <3>2. CASE b # a
      BY <2>2, <2>3, <3>2 DEF WasShort
    <3> QED
      BY <3>1, <3>2
  <2> QED
    BY <2>2, <2>3
<1>2. ASSUME NEW h \in Handlers, Commit(h)
      PROVE  Grown
  <2>1. UNCHANGED <<accounts, failures>>
    BY <1>2 DEF Commit
  <2>2. ASSUME NEW a \in Accounts, NEW n \in Nat \ {0}, WasShort(a, n)
        PROVE  WasShort(a, n)'
    <3>1. CASE \E w \in writes[h] : w.account = a
      <4> DEFINE e == (CHOOSE w \in writes[h] : w.account = a).entry
      <4>1. journal'[a] = Append(journal[a], e) /\ e \in Entry
        BY <1>2, <3>1 DEF Commit, Write
      <4> QED
        BY <1>a, <2>2, <4>1
    <3>2. CASE ~ \E w \in writes[h] : w.account = a
      BY <1>2, <2>2, <3>2 DEF Commit, WasShort
    <3> QED
      BY <3>1, <3>2
  <2> QED
    BY <2>1, <2>2
<1>3. ASSUME NEW h \in Handlers, StatementError(h) \/ Abort(h)
      PROVE  Grown
  BY <1>3 DEF StatementError, Abort, tables, WasShort
<1> QED
  BY <1>q, <1>1, <1>2, <1>3
  DEF Next, Step, vars, tables, CreateClient, Receive, SkipProcessed, MarkProcessed,
      CheckTransfer, Debit, DebitNoRow, DebitReason, Credit, PublishFailed, DeadlockVictim

(* A cause once found stays a cause. *)
LEMMA ReasonStays ==
  ASSUME TypeInv, CauseInv, [Next]_vars, NEW m \in Commands, NEW why, ReasonHolds(m, why)
  PROVE  ReasonHolds(m, why)'
<1>1. Request[m] \in Payload
  BY RequestAssumption
<1>2. why = "insufficient_funds" =>
        Debits(m) /\ WasShort(Request[m].from, Request[m].amount)'
  BY <1>1, HistoriesGrow DEF ReasonHolds, Payload
<1>3. failures > 0 => failures' > 0
  BY HistoriesGrow, TypeInv, TypeStep DEF TypeInv, TypeOK
<1>4. why = "account_not_found" => failures' > 0 \/ ~(Touches(m) \subseteq Opened)
  BY <1>3 DEF ReasonHolds
<1> QED
  BY <1>2, <1>4 DEF ReasonHolds, Debits, Touches, Credits

LEMMA CauseStays ==
  ASSUME TypeInv, CauseInv, [Next]_vars,
         NEW h \in Handlers, pc'[h] = pc[h], cmd'[h] = cmd[h], reason'[h] = reason[h]
  PROVE  CauseFor(h)'
<1>1. CauseFor(h)
  BY DEF CauseInv
<1>2. CASE pc[h] = "exists"
  <2>1. PICK m \in Commands : m = cmd[h]
    BY <1>2 DEF TypeInv, Working, Idle
  <2>2. Request[m].from \in Accounts /\ Request[m].amount \in Nat \ {0}
    BY RequestAssumption DEF Payload
  <2>3. Request[m].from \in accounts' =>
          WasShort(Request[m].from, Request[m].amount)'
    BY <1>1, <1>2, <2>1, <2>2, HistoriesGrow DEF CauseFor
  <2>4. Debits(m) /\ cmd'[h] = m /\ pc'[h] = "exists"
    BY <1>1, <1>2, <2>1 DEF CauseFor
  <2> QED
    BY <2>3, <2>4 DEF CauseFor, Debits, WasShort
<1>3. CASE pc[h] = "publishFailed"
  <2>1. PICK m \in Commands : m = cmd[h]
    BY <1>3 DEF TypeInv, Working, Idle
  <2>2. PICK why \in Reasons : why = reason[h]
    BY DEF TypeInv, TypeOK
  <2>3. ReasonHolds(m, why)
    BY <1>1, <1>3, <2>1, <2>2 DEF CauseFor
  <2>4. ReasonHolds(m, why)'
    BY <2>3, ReasonStays
  <2>5. cmd'[h] = m /\ reason'[h] = why /\ pc'[h] = "publishFailed"
    BY <1>3, <2>1, <2>2
  <2> QED
    BY <2>4, <2>5 DEF CauseFor, ReasonHolds, WasShort, Debits, Touches, Credits
<1>4. CASE pc[h] \notin {"exists", "publishFailed"}
  BY <1>1, <1>4 DEF CauseFor, Debits, Credits
<1> QED
  BY <1>2, <1>3, <1>4

LEMMA CauseKept ==
  ASSUME TypeInv, CauseInv, [Next]_vars, UNCHANGED results,
         \A h \in Handlers :
           \/ pc'[h] = pc[h] /\ cmd'[h] = cmd[h] /\ reason'[h] = reason[h]
           \/ CauseFor(h)'
  PROVE  CauseInv'
<1>1. ReasonsHaveCause'
  BY ReasonStays DEF CauseInv, ReasonsHaveCause
<1>2. \A h \in Handlers : CauseFor(h)'
  BY CauseStays
<1>3. Opened \subseteq accounts'
  BY HistoriesGrow DEF CauseInv
<1> QED
  BY <1>1, <1>2, <1>3 DEF CauseInv


(* A handler that moves on, fails or answers with a cause keeps the invariant. *)
LEMMA GotoHasCause ==
  ASSUME TypeInv, CauseInv, [Next]_vars, UNCHANGED results,
         NEW h \in Handlers, NEW step, Goto(h, step), CauseFor(h)'
  PROVE  CauseInv'
<1>1. \A g \in Handlers \ {h} :
        pc'[g] = pc[g] /\ cmd'[g] = cmd[g] /\ reason'[g] = reason[g]
  BY DEF Goto, TypeInv, TypeOK
<1> QED
  BY <1>1, CauseKept

LEMMA FailHasCause ==
  ASSUME TypeInv, CauseInv, [Next]_vars, UNCHANGED results,
         NEW h \in Handlers, NEW why \in Reasons, Fail(h, why),
         NEW m \in Commands, m = cmd[h], ReasonHolds(m, why) \/ ReasonHolds(m, why)'
  PROVE  CauseInv'
<1>1. \A g \in Handlers \ {h} :
        pc'[g] = pc[g] /\ cmd'[g] = cmd[g] /\ reason'[g] = reason[g]
  BY DEF Fail, TypeInv, TypeOK
<1>2. pc'[h] = "publishFailed" /\ cmd'[h] = m /\ reason'[h] = why
  BY DEF Fail, TypeInv, TypeOK
<1>3. ReasonHolds(m, why)'
  BY ReasonStays
<1>4. CauseFor(h)'
  BY <1>2, <1>3 DEF CauseFor, ReasonHolds, WasShort, Debits, Touches, Credits
<1> QED
  BY <1>1, <1>4, CauseKept

LEMMA AnswerHasCause ==
  ASSUME TypeInv, CauseInv, [Next]_vars,
         NEW h \in Handlers, Return(h),
         NEW m \in Commands, NEW why, ReasonHolds(m, why),
         results' = [results EXCEPT ![m] = Append(@, why)]
  PROVE  CauseInv'
<1>1. ReasonsHaveCause'
  <2> SUFFICES ASSUME NEW n \in Commands, NEW i \in DOMAIN results'[n],
                      NEW now, now = results'[n][i]
               PROVE  ReasonHolds(n, now)'
    BY DEF ReasonsHaveCause, ReasonHolds, WasShort, Debits, Touches, Credits
  <2>1. ReasonHolds(n, now)
    <3> DEFINE J == results[n]
    <3>1. J \in Seq({"applied"} \cup Reasons)
      BY DEF TypeInv, TypeOK
    <3>2. \A j \in DOMAIN J : ReasonHolds(n, J[j])
      BY DEF CauseInv, ReasonsHaveCause
    <3>3. results'[n] = IF n = m THEN Append(J, why) ELSE J
      BY DEF TypeInv, TypeOK
    <3> HIDE DEF J
    <3>4. CASE n = m
      <4>1. i \in 1..(Len(J) + 1) /\ now = Append(J, why)[i]
        BY <3>1, <3>3, <3>4
      <4>2. i = Len(J) + 1 \/ i \in DOMAIN J
        BY <3>1, <4>1
      <4>3. i = Len(J) + 1 => now = why
        BY <3>1, <4>1
      <4>4. i \in DOMAIN J => now = J[i]
        BY <3>1, <4>1
      <4> QED
        BY <3>2, <3>4, <4>2, <4>3, <4>4
    <3>5. CASE n # m
      BY <3>2, <3>3, <3>5
    <3> QED
      BY <3>4, <3>5
  <2> QED
    BY <2>1, ReasonStays
<1>2. ASSUME NEW g \in Handlers PROVE CauseFor(g)'
  <2>1. CASE g = h
    BY <2>1 DEF Return, TypeInv, TypeOK, CauseFor, Idle
  <2>2. CASE g # h
    <3>1. pc'[g] = pc[g] /\ cmd'[g] = cmd[g] /\ reason'[g] = reason[g]
      BY <2>2 DEF Return, TypeInv, TypeOK
    <3> QED
      BY <3>1, CauseStays
  <2> QED
    BY <2>1, <2>2
<1>3. Opened \subseteq accounts'
  BY HistoriesGrow DEF CauseInv
<1> QED
  BY <1>1, <1>2, <1>3 DEF CauseInv

LEMMA CauseStep == TypeInv /\ HistoryInv /\ CauseInv /\ [Next]_vars => CauseInv'
<1> SUFFICES ASSUME TypeInv, HistoryInv, CauseInv, [Next]_vars PROVE CauseInv'
  OBVIOUS
<1>q. ASSUME UNCHANGED <<results, pc, cmd, reason>> PROVE CauseInv'
  BY <1>q, CauseKept
<1>r. ASSUME NEW h \in Handlers, Return(h), UNCHANGED results PROVE CauseInv'
  <2>1. pc'[h] = Idle
    BY <1>r DEF Return, TypeInv, TypeOK
  <2>2. CauseFor(h)'
    BY <2>1 DEF CauseFor, Idle
  <2>3. \A g \in Handlers \ {h} :
          pc'[g] = pc[g] /\ cmd'[g] = cmd[g] /\ reason'[g] = reason[g]
    BY <1>r DEF Return, TypeInv, TypeOK
  <2> QED
    BY <1>r, <2>2, <2>3, CauseKept
<1>w. ASSUME NEW h \in Handlers, pc[h] # Idle
      PROVE  /\ cmd[h] \in Commands /\ Request[cmd[h]] \in Payload
             /\ Opened \subseteq accounts /\ CauseFor(h)
  BY <1>w, RequestAssumption DEF TypeInv, Working, CauseInv
<1>0. ASSUME UNCHANGED vars PROVE CauseInv'
  BY <1>0, <1>q DEF vars, tables
<1>1. ASSUME NEW c \in Clients, CreateClient(c) PROVE CauseInv'
  BY <1>1, <1>q DEF CreateClient
<1>2. ASSUME NEW c \in Clients, NEW a \in Accounts, CreateAccount(c, a)
      PROVE CauseInv'
  BY <1>2, <1>q DEF CreateAccount
<1>3. ASSUME NEW h \in Handlers, NEW m \in Commands, Receive(h, m) PROVE CauseInv'
  <2>1. CauseFor(h)'
    BY <1>3 DEF Receive, TypeInv, TypeOK, CauseFor
  <2>2. \A g \in Handlers \ {h} :
          pc'[g] = pc[g] /\ cmd'[g] = cmd[g] /\ reason'[g] = reason[g]
    BY <1>3 DEF Receive, TypeInv, TypeOK
  <2> QED
    BY <1>3, <2>1, <2>2, CauseKept DEF Receive, tables
<1>4. ASSUME NEW h \in Handlers, SkipProcessed(h) PROVE CauseInv'
  BY <1>4, <1>r DEF SkipProcessed, tables
<1>5. ASSUME NEW h \in Handlers, MarkProcessed(h) PROVE CauseInv'
  <2>1. pc'[h] = FirstStep(cmd[h]) /\ cmd' = cmd /\ UNCHANGED results
    BY <1>5 DEF MarkProcessed, Goto, TypeInv, TypeOK, tables
  <2>2. CauseFor(h)'
    BY <1>5, <1>w, <2>1
    DEF MarkProcessed, Idle, CauseFor, FirstStep, Debits, Credits, Payload, TxTypes
  <2> QED
    BY <1>5, <2>1, <2>2, GotoHasCause DEF MarkProcessed
<1>6. ASSUME NEW h \in Handlers, CheckTransfer(h) PROVE CauseInv'
  <2>1. PICK m \in Commands : m = cmd[h]
    BY <1>6, <1>w DEF CheckTransfer, Idle
  <2>2. Request[m].type = "transfer" /\ UNCHANGED results
    BY <1>6, <1>w, <2>1 DEF CheckTransfer, Idle, CauseFor, tables
  <2>3. CASE Goto(h, "debit")
    <3>1. pc'[h] = "debit" /\ cmd'[h] = m
      BY <2>1, <2>3 DEF Goto, TypeInv, TypeOK
    <3>2. CauseFor(h)'
      BY <2>2, <3>1 DEF CauseFor, Debits
    <3> QED
      BY <2>2, <2>3, <3>2, GotoHasCause
  <2>4. CASE \E why \in Refusal(m) : Fail(h, why)
    <3>1. PICK why \in Refusal(m) : Fail(h, why)
      BY <2>4
    <3>2. why \in Reasons
      BY DEF Refusal, Reasons
    <3>3. Touches(m) = {Request[m].from, Request[m].to}
      BY <2>1, <2>2, RequestAssumption DEF Touches, Debits, Credits, Payload
    <3>4. ReasonHolds(m, why)
      BY <2>2, <3>1, <3>3 DEF Refusal, ReasonHolds, CauseInv
    <3> QED
      BY <2>1, <2>2, <3>1, <3>2, <3>4, FailHasCause
  <2> QED
    BY <1>6, <2>1, <2>3, <2>4 DEF CheckTransfer
<1>7. ASSUME NEW h \in Handlers, Debit(h) PROVE CauseInv'
  <2>1. PICK step \in {"credit", "commit"} :
          /\ Goto(h, step)
          /\ step = "credit" => Request[cmd[h]].type = "transfer"
    BY <1>7 DEF Debit
  <2>2. pc'[h] = step /\ cmd'[h] = cmd[h]
    BY <2>1 DEF Goto, TypeInv, TypeOK
  <2>3. CauseFor(h)'
    BY <2>1, <2>2 DEF CauseFor, Credits
  <2> QED
    BY <1>7, <2>1, <2>3, GotoHasCause DEF Debit, tables
<1>8. ASSUME NEW h \in Handlers, DebitNoRow(h) PROVE CauseInv'
  <2>1. PICK m \in Commands : m = cmd[h]
    BY <1>8, <1>w DEF DebitNoRow, Idle
  <2> DEFINE from == Request[m].from
             amount == Request[m].amount
             J == journal[from]
  <2>2. Debits(m) /\ from \in Accounts /\ amount \in Nat
    BY <1>8, <1>w, <2>1 DEF DebitNoRow, Idle, CauseFor, Payload
  <2>3. from \in accounts => balance[from] \in Nat /\ balance[from] < amount
    BY <1>8, <2>1, <2>2 DEF DebitNoRow, TypeInv, TypeOK, Quanta
  <2>4. from \in accounts =>
          J # << >> /\ J[Len(J)].new = balance[from]
    BY <2>2 DEF HistoryInv, HistoryEnds
  <2>5. J \in Seq(Entry)
    BY <2>2 DEF TypeInv, TypeOK
  <2>6. from \in accounts => WasShort(from, amount)
    <3> HIDE DEF J
    <3>1. J # << >> => Len(J) \in DOMAIN J
      BY <2>5
    <3> QED
      BY <2>3, <2>4, <3>1 DEF WasShort, J
  <2>7. /\ pc'[h] = "exists" /\ cmd'[h] = m
        /\ UNCHANGED <<results, accounts, journal>>
    BY <1>8, <2>1 DEF DebitNoRow, Goto, TypeInv, TypeOK, tables
  <2>8. CauseFor(h)'
    BY <2>2, <2>6, <2>7 DEF CauseFor, Debits, WasShort
  <2> QED
    BY <1>8, <2>7, <2>8, GotoHasCause DEF DebitNoRow
<1>9. ASSUME NEW h \in Handlers, DebitReason(h) PROVE CauseInv'
  <2>1. PICK m \in Commands : m = cmd[h]
    BY <1>9, <1>w DEF DebitReason, Idle
  <2>2. PICK why \in Reasons :
          /\ Fail(h, why)
          /\ why = IF Request[m].from \in accounts
                     THEN "insufficient_funds" ELSE "account_not_found"
    BY <1>9, <2>1 DEF DebitReason, Reasons
  <2>3. /\ Debits(m)
        /\ Request[m].from \in accounts => WasShort(Request[m].from, Request[m].amount)
    BY <1>9, <1>w, <2>1 DEF DebitReason, Idle, CauseFor
  <2>4. Request[m].from \in Touches(m)
    BY <2>1, <2>3, RequestAssumption DEF Touches, Payload
  <2>5. ReasonHolds(m, why)
    BY <2>2, <2>3, <2>4 DEF ReasonHolds, CauseInv
  <2> QED
    BY <1>9, <2>1, <2>2, <2>5, FailHasCause DEF DebitReason, tables
<1>u. ASSUME NEW h \in Handlers, pc[h] # Idle, Fail(h, "unknown_error"),
             UNCHANGED results
      PROVE  CauseInv'
  <2>1. PICK m \in Commands : m = cmd[h]
    BY <1>u, <1>w
  <2>2. ReasonHolds(m, "unknown_error") /\ "unknown_error" \in Reasons
    BY DEF ReasonHolds, Reasons
  <2> QED
    BY <1>u, <2>1, <2>2, FailHasCause
<1>10. ASSUME NEW h \in Handlers, Credit(h) PROVE CauseInv'
  <2>1. PICK m \in Commands : m = cmd[h]
    BY <1>10, <1>w DEF Credit, Idle
  <2>2. UNCHANGED results /\ pc[h] # Idle
    BY <1>10 DEF Credit, tables, Idle
  <2>3. CASE Request[m].to \notin accounts /\ Fail(h, "account_not_found")
    <3>1. Credits(m)
      BY <1>10, <1>w, <2>1 DEF Credit, Idle, CauseFor
    <3>2. Request[m].to \in Touches(m)
      BY <2>1, <3>1, RequestAssumption DEF Touches, Payload
    <3>3. ReasonHolds(m, "account_not_found") /\ "account_not_found" \in Reasons
      BY <2>3, <3>2 DEF ReasonHolds, CauseInv, Reasons
    <3> QED
      BY <2>1, <2>2, <2>3, <3>3, FailHasCause
  <2>4. CASE Goto(h, "commit")
    <3>1. CauseFor(h)'
      BY <2>4 DEF Goto, TypeInv, TypeOK, CauseFor
    <3> QED
      BY <2>2, <2>4, <3>1, GotoHasCause
  <2> QED
    BY <1>10, <1>u, <2>1, <2>2, <2>3, <2>4 DEF Credit
<1>11. ASSUME NEW h \in Handlers, Commit(h) PROVE CauseInv'
  <2>1. PICK m \in Commands : m = cmd[h]
    BY <1>11, <1>w DEF Commit, Idle
  <2>2. ReasonHolds(m, "applied")
    BY DEF ReasonHolds
  <2> QED
    BY <1>11, <2>1, <2>2, AnswerHasCause DEF Commit
<1>12. ASSUME NEW h \in Handlers, PublishFailed(h) PROVE CauseInv'
  <2>1. PICK m \in Commands : m = cmd[h]
    BY <1>12, <1>w DEF PublishFailed, Idle
  <2>2. PICK why \in Reasons : why = reason[h]
    BY DEF TypeInv, TypeOK
  <2>3. ReasonHolds(m, why)
    BY <1>12, <1>w, <2>1, <2>2 DEF PublishFailed, Idle, CauseFor
  <2> QED
    BY <1>12, <2>1, <2>2, <2>3, AnswerHasCause DEF PublishFailed
<1>13. ASSUME NEW h \in Handlers, DeadlockVictim(h) PROVE CauseInv'
  <2>1. pc[h] # Idle
    BY <1>13 DEF DeadlockVictim, Deadlocked, WaitsFor, Idle
  <2> QED
    BY <1>13, <1>u, <2>1 DEF DeadlockVictim, tables
<1>14. ASSUME NEW h \in Handlers, StatementError(h) PROVE CauseInv'
  <2>1. UNCHANGED results
    BY <1>14 DEF StatementError, tables
  <2>2. CASE pc[h] \in ExecSteps /\ Fail(h, "unknown_error")
    BY <1>u, <2>1, <2>2 DEF ExecSteps, Idle
  <2>3. CASE pc[h] = "exists" /\ Fail(h, "account_not_found")
    <3>1. PICK m \in Commands : m = cmd[h]
      BY <1>w, <2>3 DEF Idle
    <3>2. failures' > 0
      BY <1>14 DEF StatementError, TypeInv, TypeOK
    <3>3. ReasonHolds(m, "account_not_found")' /\ "account_not_found" \in Reasons
      BY <3>2 DEF ReasonHolds, Reasons
    <3> QED
      BY <2>1, <2>3, <3>1, <3>3, FailHasCause
  <2> QED
    BY <1>14, <2>2, <2>3 DEF StatementError
<1>15. ASSUME NEW h \in Handlers, Abort(h) PROVE CauseInv'
  BY <1>15, <1>r DEF Abort, tables
<1> QED
  BY <1>0, <1>1, <1>2, <1>3, <1>4, <1>5, <1>6, <1>7, <1>8, <1>9, <1>10,
     <1>11, <1>12, <1>13, <1>14, <1>15
  DEF Next, Step

(* A rejection gives the reason that applies, whatever failed, deadlocked  *)
(* or was delivered again on the way: "insufficient_funds" is only said of *)
(* an account that was short of the amount, and an account that exists is  *)
(* called missing only when the query itself failed                        *)
(* (transaction_handler.go, processInTx and mapErrToReason).               *)
THEOREM RejectionsHaveCause == SafeSpec => []ReasonsHaveCause
<1>1. Init => TypeInv /\ HistoryInv /\ CauseInv
  BY TypeInit, HistoryInit, CauseInit
<1>2. TypeInv /\ HistoryInv /\ CauseInv /\ [Next]_vars
        => (TypeInv /\ HistoryInv /\ CauseInv)'
  BY TypeStep, HistoryStep, CauseStep
<1>3. CauseInv => ReasonsHaveCause
  BY DEF CauseInv
<1> QED
  BY <1>1, <1>2, <1>3, PTL DEF SafeSpec

-----------------------------------------------------------------------------
(***************************************************************************)
(* The sum of the effects of a finite set of commands, which the model     *)
(* writes with MapThenSumSet.  That operator takes the commands one by one *)
(* in an order CHOOSE fixes; a sum that can be taken in any order exists,  *)
(* and is the only one the recursion allows.                               *)
(***************************************************************************)
Moved(S, a) == MapThenSumSet(LAMBDA m : Effect(m, a), S)

Recursion(S, a, sum) ==
  sum = [s \in SUBSET S |->
          IF s = {} THEN 0
          ELSE LET m == CHOOSE m \in s : TRUE
               IN  Effect(m, a) + sum[s \ {m}]]

IsSum(S, a, sum) ==
  /\ sum \in [SUBSET S -> Int]
  /\ sum[{}] = 0
  /\ \A s \in SUBSET S : \A m \in s : sum[s] = Effect(m, a) + sum[s \ {m}]

LEMMA MovedByRecursion ==
  ASSUME NEW S, NEW a
  PROVE  Moved(S, a) = (CHOOSE sum : Recursion(S, a, sum))[S]
BY DEF Moved, MapThenSumSet, MapThenFoldSet, Recursion

LEMMA EffectType ==
  ASSUME NEW m \in Commands, NEW a PROVE Effect(m, a) \in Int
BY RequestAssumption DEF Effect, Payload

(* Of the subsets of a finite set, some least one is Bad if any is. *)
LEMMA LeastSubset ==
  ASSUME NEW S, IsFiniteSet(S), NEW Bad \in SUBSET (SUBSET S), Bad # {}
  PROVE  \E T \in Bad : \A U \in SUBSET T : U # T => U \notin Bad
<1>1. IsWellFoundedOn(StrictSubsetOrdering(S), SUBSET S)
  BY FS_StrictSubsetOrderingWellFounded, FS_FiniteSubsetsOfFinite
<1>2. PICK T \in Bad : \A U \in Bad : <<U, T>> \notin StrictSubsetOrdering(S)
  BY <1>1, WFMin
<1>3. ASSUME NEW U \in SUBSET T, U # T PROVE U \notin Bad
  <2>1. <<U, T>> \in StrictSubsetOrdering(S)
    BY <1>3 DEF StrictSubsetOrdering
  <2> QED
    BY <1>2, <2>1
<1> QED
  BY <1>3

LEMMA SumOneMore ==
  ASSUME NEW a, NEW T \in SUBSET Commands, NEW x \in Commands, x \notin T,
         NEW sum, IsSum(T, a, sum)
  PROVE  \E more : IsSum(T \cup {x}, a, more)
<1> DEFINE more == [s \in SUBSET (T \cup {x}) |->
                     IF x \in s THEN Effect(x, a) + sum[s \ {x}] ELSE sum[s]]
<1>1. more \in [SUBSET (T \cup {x}) -> Int] /\ more[{}] = 0
  <2>1. \A s \in SUBSET (T \cup {x}) : s \ {x} \in SUBSET T
    OBVIOUS
  <2>2. \A s \in SUBSET (T \cup {x}) : x \notin s => s \in SUBSET T
    OBVIOUS
  <2> QED
    BY <2>1, <2>2, EffectType DEF IsSum
<1>2. ASSUME NEW s \in SUBSET (T \cup {x}), NEW m \in s
      PROVE  more[s] = Effect(m, a) + more[s \ {m}]
  <2>1. s \ {m} \in SUBSET (T \cup {x}) /\ s \ {x} \in SUBSET T
    OBVIOUS
  <2>2. CASE x \notin s
    <3>1. s \in SUBSET T /\ s \ {m} \in SUBSET T /\ x \notin s \ {m}
      BY <2>2
    <3> QED
      BY <2>1, <2>2, <3>1 DEF IsSum
  <2>3. CASE m = x
    BY <2>1, <2>3
  <2>4. CASE x \in s /\ m # x
    <3>1. m \in s \ {x} /\ x \in s \ {m} /\ (s \ {m}) \ {x} = (s \ {x}) \ {m}
      BY <2>4
    <3>2. sum[s \ {x}] = Effect(m, a) + sum[(s \ {x}) \ {m}]
      BY <2>1, <3>1 DEF IsSum
    <3>3. /\ more[s] = Effect(x, a) + sum[s \ {x}]
          /\ more[s \ {m}] = Effect(x, a) + sum[(s \ {x}) \ {m}]
      BY <2>1, <2>4, <3>1
    <3>4. Effect(m, a) \in Int /\ Effect(x, a) \in Int /\ sum[(s \ {x}) \ {m}] \in Int
      <4>1. (s \ {x}) \ {m} \in SUBSET T /\ m \in Commands
        BY <2>1, <3>1
      <4> QED
        BY <4>1, EffectType DEF IsSum
    <3> QED
      BY <3>2, <3>3, <3>4
  <2> QED
    BY <2>2, <2>3, <2>4
<1>3. IsSum(T \cup {x}, a, more)
  <2> HIDE DEF more
  <2> QED
    BY <1>1, <1>2 DEF IsSum
<1> QED
  BY <1>3

LEMMA SumExists ==
  ASSUME NEW a, NEW S \in SUBSET Commands, IsFiniteSet(S)
  PROVE  \E sum : IsSum(S, a, sum)
<1> DEFINE Bad == {T \in SUBSET S : ~ \E sum : IsSum(T, a, sum)}
<1>1. ASSUME Bad # {} PROVE FALSE
  <2>0. Bad \in SUBSET (SUBSET S)
    OBVIOUS
  <2>1. PICK T \in Bad : \A U \in SUBSET T : U # T => U \notin Bad
    <3> HIDE DEF Bad
    <3> QED
      BY <1>1, <2>0, LeastSubset
  <2>2. IsSum({}, a, [s \in SUBSET {} |-> 0])
    BY DEF IsSum
  <2>3. PICK x \in T : TRUE
    BY <2>2
  <2>4. PICK sum : IsSum(T \ {x}, a, sum)
    BY <2>1
  <2>5. T = (T \ {x}) \cup {x}
    OBVIOUS
  <2>6. \E more : IsSum((T \ {x}) \cup {x}, a, more)
    BY <2>4, SumOneMore
  <2> QED
    BY <2>5, <2>6
<1> QED
  BY <1>1

LEMMA MovedIsSum ==
  ASSUME NEW a, NEW S \in SUBSET Commands, IsFiniteSet(S),
         NEW sum, IsSum(S, a, sum)
  PROVE  Moved(S, a) = sum[S]
<1>1. Recursion(S, a, sum)
  <2>1. ASSUME NEW s \in SUBSET S, s # {}
        PROVE  LET m == CHOOSE m \in s : TRUE
               IN  sum[s] = Effect(m, a) + sum[s \ {m}]
    BY <2>1 DEF IsSum
  <2> QED
    BY <2>1 DEF Recursion, IsSum
<1>2. ASSUME NEW other, Recursion(S, a, other) PROVE other = sum
  <2> DEFINE Bad == {s \in SUBSET S : other[s] # sum[s]}
  <2>1. ASSUME Bad # {} PROVE FALSE
    <3>0. Bad \in SUBSET (SUBSET S)
      OBVIOUS
    <3>1. PICK T \in Bad : \A U \in SUBSET T : U # T => U \notin Bad
      <4> HIDE DEF Bad
      <4> QED
        BY <2>1, <3>0, LeastSubset
    <3>2. CASE T = {}
      BY <1>2, <3>2 DEF Recursion, IsSum
    <3>3. CASE T # {}
      <4> DEFINE m == CHOOSE m \in T : TRUE
      <4>1. m \in T /\ T \ {m} \in SUBSET S
        BY <3>3
      <4>2. T \ {m} \notin Bad
        BY <3>1, <4>1
      <4>3. other[T] = Effect(m, a) + other[T \ {m}]
        BY <1>2, <3>3 DEF Recursion
      <4>4. sum[T] = Effect(m, a) + sum[T \ {m}]
        BY <4>1 DEF IsSum
      <4> QED
        BY <4>1, <4>2, <4>3, <4>4
    <3> QED
      BY <3>2, <3>3
  <2>2. /\ other = [s \in SUBSET S |-> other[s]]
        /\ sum = [s \in SUBSET S |-> sum[s]]
    BY <1>2 DEF Recursion, IsSum
  <2> QED
    BY <2>1, <2>2
<1>3. (CHOOSE other : Recursion(S, a, other)) = sum
  BY <1>1, <1>2
<1> QED
  BY <1>3, MovedByRecursion

(* Another command adds its effect. *)
LEMMA MovedOneMore ==
  ASSUME NEW a, NEW S \in SUBSET Commands, IsFiniteSet(S),
         NEW m \in Commands, m \notin S
  PROVE  /\ Moved(S, a) \in Int
         /\ Moved(S \cup {m}, a) = Moved(S, a) + Effect(m, a)
<1> DEFINE T == S \cup {m}
<1>1. IsFiniteSet(T) /\ T \in SUBSET Commands
  BY FS_AddElement
<1>2. PICK sum : IsSum(T, a, sum)
  BY <1>1, SumExists
<1> DEFINE part == [s \in SUBSET S |-> sum[s]]
<1>3. IsSum(S, a, part)
  BY <1>2 DEF IsSum
<1>4. Moved(S, a) = sum[S] /\ sum[S] \in Int
  <2>1. part[S] = sum[S] /\ sum[S] \in Int
    BY <1>2 DEF IsSum
  <2> HIDE DEF part
  <2>2. Moved(S, a) = part[S]
    BY <1>3, MovedIsSum
  <2> QED
    BY <2>1, <2>2
<1>5. Moved(T, a) = sum[T]
  BY <1>1, <1>2, MovedIsSum
<1>6. sum[T] = Effect(m, a) + sum[S]
  <2>1. T \ {m} = S
    OBVIOUS
  <2> QED
    BY <1>2, <2>1 DEF IsSum
<1> QED
  BY <1>4, <1>5, <1>6, EffectType

LEMMA MovedNothing ==
  ASSUME NEW a PROVE Moved({}, a) = 0
<1>1. IsSum({}, a, [s \in SUBSET {} |-> 0])
  BY DEF IsSum
<1> QED
  BY <1>1, MovedIsSum, FS_EmptySet

(* The commands that have been applied: finitely many, and the ledger is   *)
(* their sum.                                                              *)
AppliedSet == {m \in Commands : Applied(m)}

Accounted == \A a \in Accounts : balance[a] = Opening[a] + Moved(AppliedSet, a)

MoneyInv == IsFiniteSet(AppliedSet) /\ Accounted

LEMMA MoneyInit == Init => MoneyInv
<1> SUFFICES ASSUME Init PROVE MoneyInv
  OBVIOUS
<1>1. AppliedSet = {}
  BY DEF Init, AppliedSet, Applied
<1>2. \A a \in Accounts : balance[a] = Opening[a] + Moved(AppliedSet, a)
  <2>1. \A a \in Accounts : Opening[a] \in Nat
    BY OpeningAssumption DEF Quanta
  <2>2. balance = Opening
    BY DEF Init
  <2>3. \A a \in Accounts : Moved(AppliedSet, a) = 0
    <3>1. \A a \in Accounts : Moved({}, a) = 0
      BY MovedNothing
    <3> QED
      BY <1>1, <3>1
  <2>4. \A n \in Nat : n + 0 = n
    OBVIOUS
  <2> QED
    BY <2>1, <2>2, <2>3, <2>4
<1> QED
  BY <1>1, <1>2, FS_EmptySet DEF MoneyInv, Accounted

LEMMA MoneyQuiet ==
  ASSUME MoneyInv, UNCHANGED balance, AppliedSet' = AppliedSet
  PROVE  MoneyInv'
BY DEF MoneyInv, Accounted

LEMMA MoneyStep ==
  TypeInv /\ InboxInv /\ LedgerInv /\ MoneyInv /\ [Next]_vars => MoneyInv'
<1> SUFFICES ASSUME TypeInv, InboxInv, LedgerInv, MoneyInv, [Next]_vars
             PROVE  MoneyInv'
  OBVIOUS
<1>q. ASSUME UNCHANGED <<balance, results>> PROVE MoneyInv'
  <2>1. AppliedSet' = AppliedSet
    BY <1>q DEF AppliedSet, Applied
  <2> QED
    BY <1>q, <2>1, MoneyQuiet
<1>1. ASSUME NEW h \in Handlers, Commit(h) PROVE MoneyInv'
  <2>1. PICK m \in Commands : m = cmd[h]
    BY <1>1 DEF Commit, TypeInv, Working, Idle
  <2>2. results[m] = << >>
    BY <1>1, <2>1
    DEF Commit, InboxInv, InsertedIsNew, AnsweredIffProcessed, TxSteps, ExecSteps
  <2>3. results' = [results EXCEPT ![m] = <<"applied">>]
    BY <1>1, <2>1, <2>2 DEF Commit
  <2>4. m \notin AppliedSet /\ AppliedSet' = AppliedSet \cup {m}
    <3>1. ~Applied(m)
      BY <2>2 DEF Applied
    <3>2. results'[m] = <<"applied">>
      BY <2>3 DEF TypeInv, TypeOK
    <3>3. Applied(m)'
      BY <3>2 DEF Applied
    <3>4. \A n \in Commands \ {m} : Applied(n)' <=> Applied(n)
      BY <2>3 DEF Applied, TypeInv, TypeOK
    <3> QED
      BY <3>1, <3>3, <3>4 DEF AppliedSet
  <2>5. \A a \in Accounts : balance'[a] = balance[a] + Effect(m, a)
    <3>1. B!Apply(m)
      BY <1>1, <2>1, CommitIsApply
    <3> QED
      BY <3>1 DEF B!Apply, B!Effect, Effect, B!Debits, Debits, B!Credits, Credits
  <2>6. IsFiniteSet(AppliedSet) /\ IsFiniteSet(AppliedSet')
    BY <2>4, FS_AddElement DEF MoneyInv
  <2>7. \A a \in Accounts : balance[a] = Opening[a] + Moved(AppliedSet, a)
    BY DEF MoneyInv, Accounted
  <2>8. ASSUME NEW a \in Accounts
        PROVE  balance'[a] = Opening[a] + Moved(AppliedSet', a)
    <3>1. AppliedSet \in SUBSET Commands
      BY DEF AppliedSet
    <3>2. /\ Moved(AppliedSet, a) \in Int
          /\ Moved(AppliedSet', a) = Moved(AppliedSet, a) + Effect(m, a)
      BY <2>4, <2>6, <3>1, MovedOneMore
    <3>3. Opening[a] \in Int /\ Effect(m, a) \in Int
      BY OpeningAssumption, EffectType DEF Quanta
    <3> QED
      BY <2>5, <2>7, <3>2, <3>3
  <2>9. Accounted'
    BY <2>8 DEF Accounted
  <2> QED
    BY <2>6, <2>9 DEF MoneyInv
<1>2. ASSUME NEW h \in Handlers, PublishFailed(h) PROVE MoneyInv'
  <2>1. PICK m \in Commands : m = cmd[h]
    BY <1>2 DEF PublishFailed, TypeInv, Working, Idle
  <2> DEFINE J == results[m]
             why == reason[h]
  <2>2. J \in Seq({"applied"} \cup Reasons) /\ why # "applied"
    BY DEF TypeInv, TypeOK, Reasons
  <2>3. results' = [results EXCEPT ![m] = Append(J, why)]
    BY <1>2, <2>1 DEF PublishFailed
  <2>4. Applied(m)' <=> Applied(m)
    <3>1. results'[m] = Append(J, why)
      BY <2>3 DEF TypeInv, TypeOK
    <3> HIDE DEF J, why
    <3>2. /\ DOMAIN Append(J, why) = 1..(Len(J) + 1) /\ DOMAIN J = 1..Len(J)
          /\ Len(J) \in Nat /\ Append(J, why)[Len(J) + 1] = why
          /\ \A i \in 1..Len(J) : Append(J, why)[i] = J[i]
      BY <2>2
    <3>3. (\E i \in DOMAIN Append(J, why) : Append(J, why)[i] = "applied")
            <=> \E i \in DOMAIN J : J[i] = "applied"
      BY <2>2, <3>2
    <3> QED
      BY <3>1, <3>3 DEF Applied, J
  <2>5. \A n \in Commands \ {m} : Applied(n)' <=> Applied(n)
    BY <2>3 DEF Applied, TypeInv, TypeOK
  <2>6. AppliedSet' = AppliedSet
    BY <2>4, <2>5 DEF AppliedSet
  <2> QED
    BY <1>2, <2>6, MoneyQuiet DEF PublishFailed
<1>3. CASE UNCHANGED vars
  BY <1>3, <1>q DEF vars, tables
<1>4. ASSUME NEW c \in Clients, CreateClient(c) PROVE MoneyInv'
  BY <1>4, <1>q DEF CreateClient
<1>5. ASSUME NEW c \in Clients, NEW a \in Accounts, CreateAccount(c, a)
      PROVE  MoneyInv'
  BY <1>5, <1>q DEF CreateAccount
<1>6. ASSUME NEW h \in Handlers, NEW m \in Commands, Receive(h, m) PROVE MoneyInv'
  BY <1>6, <1>q DEF Receive, tables
<1>7. ASSUME NEW h \in Handlers,
             \/ SkipProcessed(h) \/ MarkProcessed(h) \/ CheckTransfer(h)
             \/ Debit(h) \/ DebitNoRow(h) \/ DebitReason(h) \/ Credit(h)
             \/ DeadlockVictim(h) \/ StatementError(h) \/ Abort(h)
      PROVE  MoneyInv'
  <2>1. UNCHANGED tables
    BY <1>7 DEF SkipProcessed, MarkProcessed, CheckTransfer, Debit, DebitNoRow,
                DebitReason, Credit, DeadlockVictim, StatementError, Abort
  <2> QED
    BY <2>1, <1>q DEF tables
<1> QED
  BY <1>1, <1>2, <1>3, <1>4, <1>5, <1>6, <1>7 DEF Next, Step

(* Every balance is the opening balance plus the effects of the commands   *)
(* whose answer is "applied", and of nothing else: no update is lost       *)
(* between replicas, a transaction that was rolled back leaves no trace    *)
(* and no delivery counts twice (transaction_handler.go, processInTx).     *)
THEOREM LedgerIsExact ==
  ASSUME WholeAmounts PROVE SafeSpec => []LedgerMatchesAnswers
<1>1. SafeSpec => [](TypeInv /\ InboxInv /\ LedgerInv)
  BY InboxAlways, LedgerAlways, PTL
<1>2. TypeInv /\ InboxInv /\ LedgerInv /\ MoneyInv /\ [Next]_vars => MoneyInv'
  BY MoneyStep
<1>3. Init => MoneyInv
  BY MoneyInit
<1>4. MoneyInv => LedgerMatchesAnswers
  BY DEF MoneyInv, Accounted, LedgerMatchesAnswers, Moved, AppliedSet
<1> QED
  BY <1>1, <1>2, <1>3, <1>4, PTL DEF SafeSpec

=============================================================================
