------------------------------ MODULE Payments ------------------------------
(***************************************************************************)
(* What the platform promises about payments, without services, messages   *)
(* and retries: an accepted payment is decided once by Bank, and its       *)
(* status then says what was decided.                                      *)
(*                                                                         *)
(* One weakness is part of the promise, because the code has it: a second  *)
(* verdict can be given on a payment whose money has moved (Contradict),   *)
(* and such a payment may end as REJECTED.                                 *)
(***************************************************************************)
EXTENDS Requests

CONSTANTS Opened, Opening

VARIABLES
  accounts, balance, decision,   \* those of Bank
  accepted,       \* the payments that were accepted
  contradicted,   \* applied payments that were called rejected later
  status          \* PENDING until a payment is closed

bank == <<accounts, balance, decision>>
book == <<accepted, contradicted, status>>
paymentVars == <<bank, book>>

B == INSTANCE Bank

Init ==
  /\ B!Init
  /\ accepted = {} /\ contradicted = {}
  /\ status = [t \in Commands |-> "PENDING"]

Accept(t) ==
  /\ accepted' = accepted \cup {t}
  /\ UNCHANGED <<bank, contradicted, status>>

Decide(t) ==
  /\ t \in accepted
  /\ B!Decide(t)
  /\ UNCHANGED book

Contradict(t) ==
  /\ decision[t] = "applied"
  /\ contradicted' = contradicted \cup {t}
  /\ UNCHANGED <<bank, accepted, status>>

Close(t) ==
  /\ status[t] = "PENDING"
  /\ \/ decision[t] = "applied" /\ status' = [status EXCEPT ![t] = "COMPLETED"]
     \/ /\ decision[t] = "rejected" \/ t \in contradicted
        /\ status' = [status EXCEPT ![t] = "REJECTED"]
  /\ UNCHANGED <<bank, accepted, contradicted>>

Next == \E t \in Commands : Accept(t) \/ Decide(t) \/ Contradict(t) \/ Close(t)

SafeSpec == Init /\ [][Next]_paymentVars

=============================================================================
