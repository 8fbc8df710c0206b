-------------------------- MODULE MCTransactionsMs --------------------------
(***************************************************************************)
(* Instances of TransactionsMs for TLC.                                    *)
(***************************************************************************)
EXTENDS TransactionsMs, TLC

CONSTANTS a1, a2, w1, w2

MCAccounts == {a1, a2}
MCCurrencyOf == (a1 :> "USD") @@ (a2 :> "USD")

Transfer(a, b, n) == [type |-> "transfer", from |-> a, to |-> b, amount |-> n]

(* Two requests carry the same key and ask for different things; the       *)
(* third is a transfer from an account to itself.                          *)
RaceRequest ==
  ("p1" :> Transfer(a1, a2, 2)) @@ ("p2" :> Transfer(a2, a1, 4))
    @@ ("p3" :> Transfer(a1, a1, 2))
RaceKey == ("p1" :> "k") @@ ("p2" :> "k") @@ ("p3" :> "l")
RaceCommands == DOMAIN RaceRequest

WorkerSymmetry == Permutations(Workers)

=============================================================================
