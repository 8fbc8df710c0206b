--------------------------- MODULE MCOutboxRelay ---------------------------
(***************************************************************************)
(* Instances of OutboxRelay for TLC.                                       *)
(***************************************************************************)
EXTENDS OutboxRelay, TLC

(* Two transactions write to key k, and the second one to key l as well;   *)
(* a third writes to l.                                                    *)
MCRows == {"k1", "k2", "l2", "l3"}
MCKeyOf == ("k1" :> "k") @@ ("k2" :> "k") @@ ("l2" :> "l") @@ ("l3" :> "l")
MCTransactions == {{"k1"}, {"k2", "l2"}, {"l3"}}

(* Two transactions that write to k and to l.  With a batch of two, the    *)
(* rows of l fill it before the k row of the later transaction; the k row  *)
(* of the earlier one has only its own l row to compete with.              *)
StuckRows == {"k1", "l1", "k2", "l2"}
StuckKeyOf == ("k1" :> "k") @@ ("l1" :> "l") @@ ("k2" :> "k") @@ ("l2" :> "l")
StuckTransactions == {{"k1", "l1"}, {"k2", "l2"}}

(* Two rows under one key, the least a reordering needs. *)
PairRows == {"k1", "k2"}
PairKeyOf == ("k1" :> "k") @@ ("k2" :> "k")
PairTransactions == {{"k1"}, {"k2"}}

=============================================================================
