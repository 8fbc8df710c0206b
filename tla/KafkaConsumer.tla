--------------------------- MODULE KafkaConsumer ---------------------------
(***************************************************************************)
(* pkg/kafka's Consumer on one partition of its topic: fetch, handle with  *)
(* retries, send to the dead letter queue what keeps failing, commit the   *)
(* offset.                                                                 *)
(*                                                                         *)
(* Members are the replicas of a service, in one consumer group.  The      *)
(* group gives the partition to one member at a time, but a member that    *)
(* loses it first finishes the message it is working on.  A member that is *)
(* told to stop has its context cancelled: from then on its waits end, and *)
(* what it asks of the database or of Kafka may fail.                      *)
(***************************************************************************)
EXTENDS Integers

CONSTANTS
  Members,
  MaxOffset,     \* bound on the length of the partition
  MaxRetries,    \* retries before a message is given up (0 means the default)
  Poison,        \* offsets of messages the handler never accepts
  MaxErrors,     \* bound on transient errors of the handler
  MaxFaults      \* bound on stops, crashes, rebalances and Kafka errors

ASSUME ConsumerAssumption ==
  /\ MaxOffset \in Nat
  /\ MaxRetries \in Nat \ {0}
  /\ Poison \subseteq 0..(MaxOffset - 1)
  /\ MaxErrors \in Nat /\ MaxFaults \in Nat

VARIABLES
  end,        \* length of the partition
  committed,  \* the group's offset, -1 before its first commit
  owner,      \* the member that has the partition, at most one
  stopping,   \* members whose context is cancelled
  position,   \* the next offset each member fetches
  current,    \* the offset each member has fetched last
  pc,
  attempt,    \* the loop variable of processWithRetry
  handled,    \* offsets whose handler returned nil
  parked,     \* offsets that are in the dead letter queue
  dropped,    \* offsets that could not be sent there
  skipped,    \* offsets that the start position passed over
  errors,     \* transient errors so far
  faults

group == <<committed, owner, stopping>>
member == <<position, current, pc, attempt>>
outcome == <<handled, parked, dropped, skipped>>
vars == <<end, group, member, outcome, errors, faults>>

Offsets == 0..(MaxOffset - 1)
Settled == handled \cup parked \cup dropped \cup skipped

Init ==
  /\ end = 0
  /\ committed = -1
  /\ owner = {} /\ stopping = {}
  /\ position = [m \in Members |-> 0]
  /\ current = [m \in Members |-> 0]
  /\ pc = [m \in Members |-> "fetch"]
  /\ attempt = [m \in Members |-> 0]
  /\ handled = {} /\ parked = {} /\ dropped = {} /\ skipped = {}
  /\ errors = 0 /\ faults = 0

(* A producer appends a message. *)
Produce ==
  /\ end < MaxOffset
  /\ end' = end + 1
  /\ UNCHANGED <<group, member, outcome, errors, faults>>

(***************************************************************************)
(* The group gives the partition to m, which reads on from the group's     *)
(* offset, or without one from the end of the partition (StartOffset:      *)
(* LastOffset).  A message that m is working on is not affected.           *)
(***************************************************************************)
(* Mutant: the group's offset is not looked at. *)
StartPosition_Last == end

StartPosition == IF committed = -1 THEN end ELSE committed

AssignTo(m) ==
  /\ owner' = {m}
  /\ position' = [position EXCEPT ![m] = StartPosition]
  /\ skipped' = skipped \cup
       IF committed = -1 THEN 0..(end - 1) \ (handled \cup parked \cup dropped) ELSE {}
  /\ UNCHANGED <<end, committed, stopping, current, pc, attempt, handled, parked, dropped,
                 errors>>

Join(m) == owner = {} /\ AssignTo(m) /\ UNCHANGED faults

Rebalance(m) ==
  /\ owner # {}
  /\ faults < MaxFaults
  /\ faults' = faults + 1
  /\ AssignTo(m)

(* m leaves the group, and a new process starts in its place. *)
Exit(m) ==
  /\ owner' = owner \ {m}
  /\ stopping' = stopping \ {m}
  /\ pc' = [pc EXCEPT ![m] = "fetch"]
  /\ attempt' = [attempt EXCEPT ![m] = 0]
  /\ UNCHANGED <<end, committed, position, current, outcome, errors>>

Crash(m) ==
  /\ faults < MaxFaults
  /\ faults' = faults + 1
  /\ Exit(m)

(* SIGTERM: the context is cancelled. *)
Stop(m) ==
  /\ m \notin stopping
  /\ faults < MaxFaults
  /\ faults' = faults + 1
  /\ stopping' = stopping \cup {m}
  /\ UNCHANGED <<end, committed, owner, member, outcome, errors>>

(* Mutant: a wait for the next attempt that is cancelled is no error of    *)
(* processWithRetry.                                                       *)
Leave_Swallowed(m) ==
  /\ m \in stopping
  /\ pc[m] = "handle"
  /\ pc' = [pc EXCEPT ![m] = "commit"]
  /\ UNCHANGED <<end, group, position, current, attempt, outcome, errors, faults>>

(* Run returns, because FetchMessage or the wait for the next attempt was  *)
(* cancelled; the message it was working on is not committed.              *)
Leave(m) ==
  /\ m \in stopping
  /\ pc[m] \in {"fetch", "handle"}
  /\ Exit(m)
  /\ UNCHANGED faults

-----------------------------------------------------------------------------
Take(m) ==
  /\ current' = [current EXCEPT ![m] = position[m]]
  /\ position' = [position EXCEPT ![m] = @ + 1]
  /\ pc' = [pc EXCEPT ![m] = "handle"]

(* Mutant: attempt is not set back to 0 for a new message. *)
Fetch_KeepAttempt(m) ==
  /\ pc[m] = "fetch"
  /\ m \in owner
  /\ position[m] < end
  /\ Take(m)
  /\ UNCHANGED <<end, group, attempt, outcome, errors, faults>>

(* FetchMessage *)
Fetch(m) ==
  /\ pc[m] = "fetch"
  /\ m \in owner
  /\ position[m] < end
  /\ Take(m)
  /\ attempt' = [attempt EXCEPT ![m] = 0]
  /\ UNCHANGED <<end, group, outcome, errors, faults>>

(* The handler returns nil. *)
HandleOK(m) ==
  /\ pc[m] = "handle"
  /\ current[m] \notin Poison
  /\ handled' = handled \cup {current[m]}
  /\ pc' = [pc EXCEPT ![m] = "commit"]
  /\ UNCHANGED <<end, group, position, current, attempt, parked, dropped, skipped, errors, faults>>

(* Mutant: no limit to the retries. *)
HandleError_Forever(m) ==
  /\ pc[m] = "handle"
  /\ IF current[m] \in Poison THEN UNCHANGED errors
     ELSE errors < MaxErrors /\ errors' = errors + 1
  /\ UNCHANGED <<end, group, member, outcome, faults>>

(* Mutant: one attempt more than MaxRetries + 1. *)
HandleError_OneMore(m) ==
  /\ pc[m] = "handle"
  /\ IF current[m] \in Poison \/ m \in stopping THEN UNCHANGED errors
     ELSE errors < MaxErrors /\ errors' = errors + 1
  /\ IF attempt[m] <= MaxRetries
     THEN attempt' = [attempt EXCEPT ![m] = @ + 1] /\ UNCHANGED pc
     ELSE pc' = [pc EXCEPT ![m] = "dlq"] /\ UNCHANGED attempt
  /\ UNCHANGED <<end, group, position, current, outcome, faults>>

(* The handler returns an error: after the last attempt the message goes   *)
(* to the dead letter queue, also when the attempt failed because m is     *)
(* stopping; before the last one, Leave is what happens then.              *)
HandleError(m) ==
  /\ pc[m] = "handle"
  /\ IF current[m] \in Poison \/ m \in stopping THEN UNCHANGED errors
     ELSE errors < MaxErrors /\ errors' = errors + 1
  /\ \/ /\ attempt[m] < MaxRetries /\ m \notin stopping
        /\ attempt' = [attempt EXCEPT ![m] = @ + 1]
        /\ UNCHANGED pc
     \/ /\ attempt[m] = MaxRetries
        /\ pc' = [pc EXCEPT ![m] = "dlq"]
        /\ UNCHANGED attempt
  /\ UNCHANGED <<end, group, position, current, outcome, faults>>

(* Publish: it may return an error although the message was written. *)
Park(m) ==
  /\ pc[m] = "dlq"
  /\ parked' = parked \cup {current[m]}
  /\ pc' = [pc EXCEPT ![m] = "commit"]
  /\ UNCHANGED <<end, group, position, current, attempt, handled, dropped, skipped, errors, faults>>

(* What m asks of Kafka fails: the context is cancelled, or it is an error. *)
KafkaError(m) ==
  IF m \in stopping THEN UNCHANGED faults
  ELSE faults < MaxFaults /\ faults' = faults + 1

(* sendToDLQ logs the error and returns. *)
ParkFails(m) ==
  /\ pc[m] = "dlq"
  /\ KafkaError(m)
  /\ dropped' = dropped \cup ({current[m]} \ (handled \cup parked))
  /\ pc' = [pc EXCEPT ![m] = "commit"]
  /\ UNCHANGED <<end, group, position, current, attempt, handled, parked, skipped, errors>>

Return(m) ==
  /\ pc' = [pc EXCEPT ![m] = "fetch"]
  /\ UNCHANGED <<end, owner, stopping, position, current, attempt, outcome, errors>>

(* CommitMessages.  A member that has lost the partition in the meantime   *)
(* may still commit its old message: the group's offset then goes back.    *)
Commit(m) ==
  /\ pc[m] = "commit"
  /\ committed' = current[m] + 1
  /\ Return(m)
  /\ UNCHANGED faults

(* CommitMessages fails, for one because m has lost the partition: the     *)
(* error is logged, and the loop goes on.                                  *)
CommitFails(m) ==
  /\ pc[m] = "commit"
  /\ IF m \in owner THEN KafkaError(m) ELSE UNCHANGED faults
  /\ Return(m)
  /\ UNCHANGED committed

-----------------------------------------------------------------------------
Work(m) == Fetch(m) \/ HandleOK(m) \/ HandleError(m) \/ Park(m) \/ ParkFails(m)
             \/ Commit(m) \/ CommitFails(m) \/ Leave(m)

Next ==
  \/ Produce
  \/ \E m \in Members : Join(m) \/ Rebalance(m) \/ Crash(m) \/ Stop(m) \/ Work(m)

SafeSpec == Init /\ [][Next]_vars

(* Some member gets the partition, and a member that has a message works   *)
(* on it until it is done or the member stops.                             *)
Spec ==
  /\ SafeSpec
  /\ WF_vars(\E m \in Members : Join(m))
  /\ \A m \in Members : WF_vars(Work(m))

-----------------------------------------------------------------------------
TypeOK ==
  /\ end \in 0..MaxOffset
  /\ committed \in -1..MaxOffset
  /\ owner \subseteq Members /\ \A m, n \in owner : m = n
  /\ stopping \subseteq Members
  /\ position \in [Members -> 0..MaxOffset]
  /\ current \in [Members -> 0..MaxOffset]
  /\ pc \in [Members -> {"fetch", "handle", "dlq", "commit"}]
  /\ attempt \in [Members -> 0..MaxRetries]
  /\ handled \subseteq Offsets /\ parked \subseteq Offsets
  /\ dropped \subseteq Offsets /\ skipped \subseteq Offsets
  /\ errors \in 0..MaxErrors /\ faults \in 0..MaxFaults

(* The group's offset never passes a message that was not dealt with:      *)
(* whoever takes the partition over starts behind finished work only.      *)
CommittedIsSettled == 0..(committed - 1) \subseteq Settled

(* Messages are dealt with in the order of the partition, also when two    *)
(* members work on it at once.                                             *)
SettledInOrder == \A o \in Settled : 0..o \subseteq Settled

(* A message is given up only after MaxRetries + 1 attempts, of which a    *)
(* stop can fail no more than the last: while the handler has failed less  *)
(* than MaxRetries times on messages it could have accepted, only poison   *)
(* is given up, however often the members stop, crash and take over.       *)
OnlyPoisonIsGivenUp == errors < MaxRetries => parked \cup dropped \subseteq Poison

(* A poison message does not block the partition: in the end every message *)
(* is dealt with, in the way the invariants above allow.                   *)
EveryMessageSettles == \A o \in Offsets : o < end ~> o \in Settled

=============================================================================
