------------------------------ MODULE MCLlmMs ------------------------------
(***************************************************************************)
(* Instance of LlmMs for TLC.                                              *)
(***************************************************************************)
EXTENDS LlmMs, TLC

(* Two events about one transaction, which a second answer of accounts-ms  *)
(* leads to.                                                               *)
MCTxOf == ("first" :> "t") @@ ("second" :> "t")
MCEvents == DOMAIN MCTxOf

(* Both have the same key, so they are in one partition: an offset         *)
(* committed for one keeps the other from being skipped.                   *)
MCPartitionOf == [e \in MCEvents |-> "p"]

=============================================================================
