------------------------------- MODULE MCSaga -------------------------------
(***************************************************************************)
(* Instances of Saga for TLC.                                              *)
(***************************************************************************)
EXTENDS Saga, TLC

CONSTANTS a1, a2, h1, h2, w1, noCommand

MCAccounts == {a1, a2}
MCCurrencyOf == (a1 :> "USD") @@ (a2 :> "USD")
MCOpening == (a1 :> 4) @@ (a2 :> 2)

Transfer(a, b, n) == [type |-> "transfer", from |-> a, to |-> b, amount |-> n]

(* Two transfers that lock the same rows in opposite order, and that both  *)
(* accounts can pay at once: they can deadlock.                            *)
CrossRequest ==
  ("t12" :> Transfer(a1, a2, 4)) @@ ("t21" :> Transfer(a2, a1, 2))

(* a2 can only pay t21 once t12 has been credited. *)
LateRequest ==
  ("t12" :> Transfer(a1, a2, 4)) @@ ("t21" :> Transfer(a2, a1, 4))

CrossKey == ("t12" :> "k") @@ ("t21" :> "l")
CrossCommands == DOMAIN CrossRequest

(* Both payments in one partition: once a group has committed an offset,   *)
(* it skips nothing.                                                       *)
OnePartition == [t \in CrossCommands |-> "p"]

=============================================================================
