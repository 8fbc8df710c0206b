------------------------------ MODULE Requests ------------------------------
(***************************************************************************)
(* The payment commands that travel on the topic transactions.commands     *)
(* (events.TransactionRequestedPayload) and what each of them asks for.    *)
(*                                                                         *)
(* Money is counted in HALF QUANTA.  The columns accounts.balance and      *)
(* transactions.amount are NUMERIC(20,4), so a stored amount is an even    *)
(* number of half quanta.  A requested amount travels unrounded, as the    *)
(* decimal string the client sent; the only fractions of a quantum that    *)
(* rounding can treat unfairly are exact halves, so an odd number stands   *)
(* for an amount that ends in ...5 at the fifth decimal.                   *)
(***************************************************************************)
EXTENDS Integers

CONSTANTS
  Accounts,     \* account ids a command may name, created or not
  CurrencyOf,   \* the currency each account is (or will be) opened with
  Commands,     \* TransactionRequested events, one per transaction
  Request       \* the payload of each command

TxTypes == {"deposit", "withdraw", "transfer"}

Payload == [type : TxTypes, from : Accounts, to : Accounts, amount : Nat \ {0}]

ASSUME RequestAssumption == Request \in [Commands -> Payload]

Debits(m) == Request[m].type \in {"withdraw", "transfer"}
Credits(m) == Request[m].type \in {"deposit", "transfer"}

(* The value a NUMERIC(20,4) column takes when x is assigned to it: halves *)
(* are rounded away from zero.                                             *)
Round(x) == x + (x % 2)

(* The accounts a command moves money out of or into. *)
Touches(m) ==
  {a \in Accounts : \/ Debits(m) /\ a = Request[m].from
                    \/ Credits(m) /\ a = Request[m].to}

(* What an applied command is meant to add to the balance of account a. *)
Effect(m, a) ==
  (IF Credits(m) /\ a = Request[m].to THEN Request[m].amount ELSE 0)
    - (IF Debits(m) /\ a = Request[m].from THEN Request[m].amount ELSE 0)

(* handleTransfer moves money only between two different accounts of the   *)
(* same currency; deposits and withdrawals have no such condition.         *)
WellFormed(m) ==
  Request[m].type = "transfer" =>
    /\ Request[m].from # Request[m].to
    /\ CurrencyOf[Request[m].from] = CurrencyOf[Request[m].to]

(* No requested amount has a fraction of a quantum. *)
WholeAmounts == \A m \in Commands : Request[m].amount % 2 = 0

=============================================================================
