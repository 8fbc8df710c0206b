-------------------------------- MODULE Bank --------------------------------
(***************************************************************************)
(* What accounts-ms promises to the rest of the platform, with its         *)
(* handlers, database transactions and redeliveries taken away: an account *)
(* is opened empty, and each command is decided once, in one indivisible   *)
(* step that either moves exactly the requested money or moves none.       *)
(***************************************************************************)
EXTENDS Requests

CONSTANTS
  Opened,     \* the accounts that exist at the start
  Opening     \* and the balance each of them starts with

VARIABLES
  accounts,   \* the accounts opened so far
  balance,
  decision    \* "pending", "applied" or "rejected", for each command

bankVars == <<accounts, balance, decision>>

Init ==
  /\ accounts = Opened
  /\ balance = Opening
  /\ decision = [m \in Commands |-> "pending"]

OpenAccount(a) ==
  /\ a \notin accounts
  /\ accounts' = accounts \cup {a}
  /\ UNCHANGED <<balance, decision>>

(* The command may be carried out: the accounts exist, and the account     *)
(* money leaves has it.                                                    *)
Allowed(m) ==
  /\ WellFormed(m)
  /\ Touches(m) \subseteq accounts
  /\ Debits(m) => balance[Request[m].from] >= Request[m].amount

Apply(m) ==
  /\ decision[m] = "pending"
  /\ Allowed(m)
  /\ balance' = [a \in Accounts |-> balance[a] + Effect(m, a)]
  /\ decision' = [decision EXCEPT ![m] = "applied"]
  /\ UNCHANGED accounts

(* A command may be turned down for any reason, at any time before it is   *)
(* decided: infrastructure errors are answered with a rejection too.       *)
Reject(m) ==
  /\ decision[m] = "pending"
  /\ decision' = [decision EXCEPT ![m] = "rejected"]
  /\ UNCHANGED <<accounts, balance>>

Decide(m) == Apply(m) \/ Reject(m)

Next ==
  \/ \E a \in Accounts : OpenAccount(a)
  \/ \E m \in Commands : Decide(m)

SafeSpec == Init /\ [][Next]_bankVars

Spec == SafeSpec /\ \A m \in Commands : WF_bankVars(Decide(m))

=============================================================================
