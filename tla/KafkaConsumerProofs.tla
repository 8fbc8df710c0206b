------------------------- MODULE KafkaConsumerProofs -------------------------
(***************************************************************************)
(* Proofs about KafkaConsumer: the safety invariants, for any number of    *)
(* members, messages, retries and faults.                                  *)
(***************************************************************************)
EXTENDS KafkaConsumer, TLAPS

Before(o) == 0..(o - 1)

(* The message that m has taken and that nobody may have dealt with yet. *)
Open(m) == IF pc[m] \in {"handle", "dlq"} THEN {current[m]} ELSE {}

(* What a member works on lies in the partition. *)
TypeInv ==
  /\ TypeOK
  /\ committed <= end
  /\ \A m \in Members : position[m] <= end
  /\ \A m \in Members : pc[m] # "fetch" => current[m] < end

(* All that lies before a member's message has been dealt with, and all    *)
(* that lies before the position of the owner, but for that message.       *)
OrderInv ==
  /\ CommittedIsSettled
  /\ SettledInOrder
  /\ \A m \in Members :
       /\ pc[m] # "fetch" => Before(current[m]) \subseteq Settled
       /\ pc[m] = "commit" => current[m] \in Settled
       /\ m \in owner => Before(position[m]) \subseteq Settled \cup Open(m)

(* A failed attempt at a message the handler could accept is an error. *)
AttemptInv ==
  /\ OnlyPoisonIsGivenUp
  /\ \A m \in Members : current[m] \notin Poison =>
       /\ pc[m] = "handle" => attempt[m] <= errors
       /\ pc[m] = "dlq" => errors >= MaxRetries

LEMMA TypeKept ==
  ASSUME TypeInv, [Next]_vars
  PROVE  TypeInv'
<1> USE ConsumerAssumption DEF TypeInv, TypeOK, Offsets, group, member, outcome
<1>1. CASE Produce
  BY <1>1 DEF Produce
<1>2. ASSUME NEW m \in Members, AssignTo(m), faults' \in 0..MaxFaults
      PROVE  TypeInv'
  <2>1. StartPosition \in 0..end
    BY DEF StartPosition
  <2> QED
    BY <1>2, <2>1 DEF AssignTo
<1>3. ASSUME NEW m \in Members, Join(m) \/ Rebalance(m) PROVE TypeInv'
  <2>1. AssignTo(m) /\ faults' \in 0..MaxFaults
    BY <1>3 DEF Join, Rebalance
  <2> QED
    BY <1>2, <2>1
<1>4. ASSUME NEW m \in Members, Crash(m) \/ Leave(m) PROVE TypeInv'
  <2>1. Exit(m) /\ faults' \in 0..MaxFaults
    BY <1>4 DEF Crash, Leave
  <2>2. pc' \in [Members -> {"fetch", "handle", "dlq", "commit"}]
    BY <2>1 DEF Exit
  <2>3. attempt' \in [Members -> 0..MaxRetries]
    BY <2>1 DEF Exit
  <2>4. \A n \in Members : pc'[n] # "fetch" => current'[n] < end'
    BY <2>1 DEF Exit
  <2> QED
    BY <2>1, <2>2, <2>3, <2>4 DEF Exit
<1>5. ASSUME NEW m \in Members, Stop(m) PROVE TypeInv'
  BY <1>5 DEF Stop
<1>6. ASSUME NEW m \in Members, Fetch(m) PROVE TypeInv'
  BY <1>6 DEF Fetch, Take
<1>7. ASSUME NEW m \in Members, pc[m] # "fetch",
             pc' = [pc EXCEPT ![m] = "commit"] \/ pc' = [pc EXCEPT ![m] = "fetch"],
             UNCHANGED <<end, owner, stopping, position, current, attempt, errors>>,
             committed' \in -1..end, faults' \in 0..MaxFaults,
             handled' \subseteq handled \cup {current[m]},
             parked' \subseteq parked \cup {current[m]},
             dropped' \subseteq dropped \cup {current[m]}, skipped' = skipped
      PROVE  TypeInv'
  <2>1. pc' \in [Members -> {"fetch", "handle", "dlq", "commit"}]
    BY <1>7
  <2>2. \A n \in Members : pc'[n] # "fetch" => pc[n] # "fetch"
    BY <1>7
  <2>3. current[m] \in Offsets
    BY <1>7
  <2> QED
    BY <1>7, <2>1, <2>2, <2>3
<1>8. ASSUME NEW m \in Members, HandleOK(m) PROVE TypeInv'
  <2>1. /\ pc[m] # "fetch" /\ pc' = [pc EXCEPT ![m] = "commit"]
        /\ UNCHANGED <<end, owner, stopping, position, current, attempt, errors>>
        /\ committed' = committed /\ faults' = faults
        /\ handled' = handled \cup {current[m]}
        /\ parked' = parked /\ dropped' = dropped /\ skipped' = skipped
    BY <1>8 DEF HandleOK
  <2>2. committed' \in -1..end /\ faults' \in 0..MaxFaults
    BY <2>1
  <2> QED
    BY <1>7, <2>1, <2>2
<1>9. ASSUME NEW m \in Members, HandleError(m) PROVE TypeInv'
  BY <1>9 DEF HandleError
<1>10. ASSUME NEW m \in Members, KafkaError(m) PROVE faults' \in 0..MaxFaults
  BY <1>10 DEF KafkaError
<1>11. ASSUME NEW m \in Members, Park(m) \/ ParkFails(m) PROVE TypeInv'
  BY <1>7, <1>10, <1>11 DEF Park, ParkFails
<1>12. ASSUME NEW m \in Members, Commit(m) PROVE TypeInv'
  <2>1. current[m] + 1 \in -1..end
    BY <1>12 DEF Commit
  <2> QED
    BY <1>7, <1>12, <2>1 DEF Commit, Return
<1>13. ASSUME NEW m \in Members, CommitFails(m) PROVE TypeInv'
  <2>1. faults' \in 0..MaxFaults
    BY <1>10, <1>13 DEF CommitFails
  <2> QED
    BY <1>7, <1>13, <2>1 DEF CommitFails, Return
<1>14. CASE UNCHANGED vars
  BY <1>14 DEF vars
<1> QED
  BY <1>1, <1>3, <1>4, <1>5, <1>6, <1>8, <1>9, <1>11, <1>12, <1>13, <1>14 DEF Next, Work

(* No step takes back that a message has been dealt with. *)
LEMMA SettledGrows ==
  ASSUME [Next]_vars
  PROVE  Settled \subseteq Settled'
<1> USE DEF Settled, outcome, group, member
<1>1. CASE Produce
  BY <1>1 DEF Produce
<1>2. ASSUME NEW m \in Members, Join(m) \/ Rebalance(m) \/ Crash(m) \/ Stop(m)
      PROVE  Settled \subseteq Settled'
  BY <1>2 DEF Join, Rebalance, AssignTo, Crash, Exit, Stop
<1>3. ASSUME NEW m \in Members, Work(m) PROVE Settled \subseteq Settled'
  BY <1>3 DEF Work, Fetch, HandleOK, HandleError, Park, ParkFails, Commit, CommitFails,
              Return, Leave, Exit
<1>4. CASE UNCHANGED vars
  BY <1>4 DEF vars
<1> QED
  BY <1>1, <1>2, <1>3, <1>4 DEF Next

(* Where m begins to read after it got the partition, all before is dealt  *)
(* with: a group without an offset skips it.                               *)
LEMMA AssignKeepsOrder ==
  ASSUME TypeInv, OrderInv, NEW m \in Members, AssignTo(m), Settled \subseteq Settled'
  PROVE  OrderInv'
<1> USE DEF TypeInv, TypeOK, OrderInv, AssignTo
<1>1. Before(StartPosition) \subseteq Settled'
  BY DEF Before, StartPosition, CommittedIsSettled, Settled
<1>2. Settled' = Settled \cup IF committed = -1 THEN 0..(end - 1) ELSE {}
  BY DEF Settled
<1>3. SettledInOrder'
  BY <1>2 DEF SettledInOrder, Offsets, Settled
<1>4. CommittedIsSettled'
  BY DEF CommittedIsSettled
<1>5. ASSUME NEW n \in Members
      PROVE  /\ pc'[n] # "fetch" => (Before(current[n]) \subseteq Settled)'
             /\ pc'[n] = "commit" => (current[n] \in Settled)'
             /\ n \in owner' => (Before(position[n]) \subseteq Settled \cup Open(n))'
  BY <1>1 DEF Before, Open
<1> QED
  BY <1>3, <1>4, <1>5

(* m deals with its message, or sends it to the dead letter queue. *)
LEMMA SettleKeepsOrder ==
  ASSUME TypeInv, OrderInv, NEW m \in Members, pc[m] \in {"handle", "dlq"},
         Settled' = Settled \cup {current[m]},
         pc' = [pc EXCEPT ![m] = "commit"],
         UNCHANGED <<group, position, current>>
  PROVE  OrderInv'
<1> USE DEF TypeInv, TypeOK, OrderInv, group
<1>1. SettledInOrder'
  BY DEF SettledInOrder, Before
<1>2. CommittedIsSettled'
  BY DEF CommittedIsSettled
<1>3. ASSUME NEW n \in Members
      PROVE  /\ pc'[n] # "fetch" => (Before(current[n]) \subseteq Settled)'
             /\ pc'[n] = "commit" => (current[n] \in Settled)'
             /\ n \in owner' => (Before(position[n]) \subseteq Settled \cup Open(n))'
  BY DEF Before, Open
<1> QED
  BY <1>1, <1>2, <1>3

LEMMA OrderKept ==
  ASSUME TypeInv, OrderInv, [Next]_vars
  PROVE  OrderInv'
<1>0. Settled \subseteq Settled'
  BY SettledGrows
<1>1. ASSUME NEW m \in Members, Join(m) \/ Rebalance(m) PROVE OrderInv'
  BY <1>0, <1>1, AssignKeepsOrder DEF Join, Rebalance
<1>2. ASSUME NEW m \in Members, HandleOK(m) PROVE OrderInv'
  <2>1. Settled' = Settled \cup {current[m]}
    BY <1>2 DEF HandleOK, Settled
  <2> QED
    BY <1>2, <2>1, SettleKeepsOrder DEF HandleOK
<1>3. ASSUME NEW m \in Members, Park(m) \/ ParkFails(m) PROVE OrderInv'
  <2>1. Settled' = Settled \cup {current[m]}
    BY <1>3 DEF Park, ParkFails, Settled
  <2> QED
    BY <1>3, <2>1, SettleKeepsOrder DEF Park, ParkFails
<1> USE DEF TypeInv, TypeOK, OrderInv, Before, Open, CommittedIsSettled, SettledInOrder,
            Settled, group, member, outcome
<1>4. CASE Produce
  BY <1>4 DEF Produce
<1>5. ASSUME NEW m \in Members, Crash(m) \/ Leave(m) PROVE OrderInv'
  BY <1>5 DEF Crash, Leave, Exit
<1>6. ASSUME NEW m \in Members, Stop(m) PROVE OrderInv'
  BY <1>6 DEF Stop
<1>7. ASSUME NEW m \in Members, Fetch(m) PROVE OrderInv'
  BY <1>7 DEF Fetch, Take
<1>8. ASSUME NEW m \in Members, HandleError(m) PROVE OrderInv'
  BY <1>8 DEF HandleError
<1>9. ASSUME NEW m \in Members, Commit(m) PROVE OrderInv'
  BY <1>9 DEF Commit, Return
<1>10. ASSUME NEW m \in Members, CommitFails(m) PROVE OrderInv'
  BY <1>10 DEF CommitFails, Return
<1>11. CASE UNCHANGED vars
  BY <1>11 DEF vars
<1> QED
  BY <1>1, <1>2, <1>3, <1>4, <1>5, <1>6, <1>7, <1>8, <1>9, <1>10, <1>11 DEF Next, Work

LEMMA AttemptKept ==
  ASSUME TypeInv, AttemptInv, [Next]_vars
  PROVE  AttemptInv'
<1> USE ConsumerAssumption
    DEF TypeInv, TypeOK, AttemptInv, OnlyPoisonIsGivenUp, group, member, outcome
<1>1. CASE Produce
  BY <1>1 DEF Produce
<1>2. ASSUME NEW m \in Members, Join(m) \/ Rebalance(m) PROVE AttemptInv'
  BY <1>2 DEF Join, Rebalance, AssignTo
<1>3. ASSUME NEW m \in Members, Crash(m) \/ Leave(m) PROVE AttemptInv'
  BY <1>3 DEF Crash, Leave, Exit
<1>4. ASSUME NEW m \in Members, Stop(m) PROVE AttemptInv'
  BY <1>4 DEF Stop
<1>5. ASSUME NEW m \in Members, Fetch(m) PROVE AttemptInv'
  BY <1>5 DEF Fetch, Take
<1>6. ASSUME NEW m \in Members, HandleOK(m) PROVE AttemptInv'
  BY <1>6 DEF HandleOK
<1>7. ASSUME NEW m \in Members, HandleError(m) PROVE AttemptInv'
  BY <1>7 DEF HandleError
<1>8. ASSUME NEW m \in Members, Park(m) \/ ParkFails(m) PROVE AttemptInv'
  BY <1>8 DEF Park, ParkFails
<1>9. ASSUME NEW m \in Members, Commit(m) \/ CommitFails(m) PROVE AttemptInv'
  BY <1>9 DEF Commit, CommitFails, Return
<1>10. CASE UNCHANGED vars
  BY <1>10 DEF vars
<1> QED
  BY <1>1, <1>2, <1>3, <1>4, <1>5, <1>6, <1>7, <1>8, <1>9, <1>10 DEF Next, Work

-----------------------------------------------------------------------------
LEMMA Inductive == SafeSpec => [](TypeInv /\ OrderInv /\ AttemptInv)
<1>1. Init => TypeInv /\ OrderInv /\ AttemptInv
  BY ConsumerAssumption
     DEF Init, TypeInv, TypeOK, Offsets, OrderInv, CommittedIsSettled, SettledInOrder,
         Settled, AttemptInv, OnlyPoisonIsGivenUp
<1> QED
  BY <1>1, TypeKept, OrderKept, AttemptKept, PTL DEF SafeSpec

(* Every variable of KafkaConsumer keeps its type; in particular at most   *)
(* one member has the partition.                                           *)
THEOREM TypeCorrect == SafeSpec => []TypeOK
  BY Inductive, PTL DEF TypeInv

(* The group's offset never passes a message that nobody has dealt with,   *)
(* whatever members crash, stop, or commit late.                           *)
THEOREM OffsetIsSafe == SafeSpec => []CommittedIsSettled
  BY Inductive, PTL DEF OrderInv

(* Messages are dealt with in the order of the partition.                  *)
THEOREM OrderIsKept == SafeSpec => []SettledInOrder
  BY Inductive, PTL DEF OrderInv

(* Fewer errors than MaxRetries never cost a message.                      *)
THEOREM RetriesSuffice == SafeSpec => []OnlyPoisonIsGivenUp
  BY Inductive, PTL DEF AttemptInv

=============================================================================
