---------------------------- MODULE MCAccountsMs ----------------------------
(***************************************************************************)
(* Instances of AccountsMs for TLC: the accounts and commands of each run. *)
(***************************************************************************)
EXTENDS AccountsMs, TLC

CONSTANTS a1, a2, a3, client, h1, h2, noCommand

MCAccounts == {a1, a2, a3}
MCCurrencyOf == (a1 :> "USD") @@ (a2 :> "USD") @@ (a3 :> "EUR")
MCOpened == {a1, a2}
MCOpening == (a1 :> 4) @@ (a2 :> 2) @@ (a3 :> 0)

Deposit(a, n) == [type |-> "deposit", from |-> a, to |-> a, amount |-> n]
Withdraw(a, n) == [type |-> "withdraw", from |-> a, to |-> a, amount |-> n]
Transfer(a, b, n) == [type |-> "transfer", from |-> a, to |-> b, amount |-> n]

(* The crossing transfers, and three commands on an account that is        *)
(* created late and has another currency.                                  *)
MixedRequest ==
  ("t12" :> Transfer(a1, a2, 4)) @@ ("t21" :> Transfer(a2, a1, 2))
    @@ ("t13" :> Transfer(a1, a3, 2)) @@ ("d3" :> Deposit(a3, 4))
    @@ ("w3" :> Withdraw(a3, 2))
MixedCommands == DOMAIN MixedRequest

(* Amounts with half a quantum: a transfer between two accounts. *)
HalfRequest == ("t12" :> Transfer(a1, a2, 1)) @@ ("t21" :> Transfer(a2, a1, 4))
HalfCommands == DOMAIN HalfRequest

HandlerSymmetry == Permutations(Handlers)

=============================================================================
