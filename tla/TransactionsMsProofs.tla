------------------------ MODULE TransactionsMsProofs ------------------------
(***************************************************************************)
(* What TLAPS proves about TransactionsMs, for every set of requests, keys *)
(* and replicas.                                                           *)
(***************************************************************************)
EXTENDS TransactionsMs, FiniteSetTheorems, TLAPS

Working == \A w \in Workers : pc[w] # "idle" => \E e \in Event : evt[w] = {e}

TypeInv == TypeOK /\ Working

LEMMA RoundType == ASSUME NEW x \in Nat PROVE Round(x) \in Nat
BY DEF Round

LEMMA StatusOfType == \A x : StatusOf(x) \in {"COMPLETED", "REJECTED"}
BY DEF StatusOf

LEMMA TypeInit == Init => TypeInv
BY BoundsAssumption
DEF Init, TypeInv, TypeOK, Working, Statuses, PostStates, WorkerSteps

LEMMA TypeStep == TypeInv /\ [Next]_vars => TypeInv'
<1> SUFFICES ASSUME TypeInv, [Next]_vars PROVE TypeInv'
  OBVIOUS
<1> USE DEF TypeInv, TypeOK, db, posts, workers
<1>0. ASSUME UNCHANGED vars PROVE TypeInv'
  BY <1>0 DEF vars, Working
<1>1. ASSUME NEW p \in Commands, Submit(p) PROVE TypeInv'
  BY <1>1 DEF Submit, Working, PostStates
<1>2. ASSUME NEW p \in Commands, Insert(p) PROVE TypeInv'
  BY <1>2 DEF Insert, Working, PostStates
<1>3. ASSUME NEW p \in Commands, CommitCreate(p) PROVE TypeInv'
  <2>1. Request[p].amount \in Nat
    BY RequestAssumption DEF Payload
  <2> QED
    BY <1>3, <2>1 DEF CommitCreate, Store, Working, PostStates
<1>4. ASSUME NEW p \in Commands, Lookup(p) PROVE TypeInv'
  <2>1. \A t \in Commands : Round(Request[t].amount) \in Nat
    BY RequestAssumption, RoundType DEF Payload
  <2>2. {[tx |-> t, amount |-> Round(Request[t].amount)] : t \in KeyHolders(p)}
          \subseteq [tx : Commands, amount : Nat]
    BY <2>1 DEF KeyHolders
  <2> QED
    BY <1>4, <2>2 DEF Lookup, Working, PostStates
<1>5. ASSUME NEW p \in Commands, PostFault(p) PROVE TypeInv'
  <2>1. failures' \in 0..MaxFailures
    BY <1>5, BoundsAssumption DEF PostFault, CommitUnheard, FailPost
  <2> QED
    BY <1>5, <2>1 DEF PostFault, CommitUnheard, FailPost, Store, Working, PostStates
<1>6. ASSUME NEW t \in Commands, NEW outcome \in {"applied", "failed"},
             Answer(t, outcome)
      PROVE  TypeInv'
  BY <1>6 DEF Answer, Working
<1>7. ASSUME NEW w \in Workers, NEW e \in Events, Receive(w, e) PROVE TypeInv'
  <2>1. e \in Event
    BY DEF Events, Event
  <2> QED
    BY <1>7, <2>1 DEF Receive, Working, WorkerSteps
<1>8. ASSUME NEW w \in Workers, SkipProcessed(w) PROVE TypeInv'
  BY <1>8 DEF SkipProcessed, Return, Working, WorkerSteps
<1>9. ASSUME NEW w \in Workers, MarkProcessed(w) PROVE TypeInv'
  BY <1>9 DEF MarkProcessed, Working, WorkerSteps
<1>10. ASSUME NEW w \in Workers, MarkStatus(w) PROVE TypeInv'
  BY <1>10 DEF MarkStatus, Working, WorkerSteps
<1>11. ASSUME NEW w \in Workers, CommitResult(w) PROVE TypeInv'
  <2>0. PICK e \in Event : evt[w] = {e}
    BY <1>11 DEF CommitResult, Working
  <2>1. /\ status' = IF hit[w] THEN [status EXCEPT ![e.tx] = StatusOf(answers[e.tx][e.seq])]
                                 ELSE status
        /\ events' = [events EXCEPT ![e.tx]
                        = Append(events[e.tx], StatusOf(answers[e.tx][e.seq]))]
        /\ inbox' = inbox \cup {e}
    <3>1. e.tx \in Commands
      BY DEF Event
    <3> QED
      BY <1>11, <2>0, <3>1 DEF CommitResult
  <2>2. StatusOf(answers[e.tx][e.seq]) \in Statuses /\ e.tx \in Commands
    BY StatusOfType DEF Statuses, Event
  <2>3. status' \in [Commands -> Statuses] /\ inbox' \subseteq Event
    BY <2>1, <2>2
  <2>4. events' \in [Commands -> Seq(Statuses)]
    BY <2>1, <2>2
  <2> QED
    BY <1>11, <2>3, <2>4 DEF CommitResult, Return, Working, WorkerSteps
<1>12. ASSUME NEW w \in Workers, Abort(w) PROVE TypeInv'
  <2>1. failures' \in 0..MaxFailures
    BY <1>12, BoundsAssumption DEF Abort
  <2> QED
    BY <1>12, <2>1 DEF Abort, Return, Working, WorkerSteps
<1> QED
  BY <1>0, <1>1, <1>2, <1>3, <1>4, <1>5, <1>6, <1>7, <1>8, <1>9, <1>10, <1>11, <1>12
  DEF Next, PostStep, WorkerStep

-----------------------------------------------------------------------------
(***************************************************************************)
(* Idempotency keys.  A request that holds a key has found it free, and    *)
(* nobody else holds it; a request that looks a key up has found it taken, *)
(* and transactions are never deleted.                                     *)
(***************************************************************************)
HoldsFreeKey ==
  \A p \in Commands : post[p] = "commit" =>
    KeyHolders(p) = {} /\ \A q \in Commands \ {p} : post[q] = "commit" => Key[q] # Key[p]

LooksUpTakenKey == \A p \in Commands : post[p] = "lookup" => KeyHolders(p) # {}

RepliesNameRows ==
  \A p \in Commands :
    /\ post[p] = "accepted" => reply[p] # {}
    /\ \A a \in reply[p] : a.tx \in rows /\ Key[a.tx] = Key[p]

KeyInv == OneTransactionPerKey /\ HoldsFreeKey /\ LooksUpTakenKey /\ RepliesNameRows

LEMMA KeyInit == Init => KeyInv
BY DEF Init, KeyInv, OneTransactionPerKey, HoldsFreeKey, LooksUpTakenKey, RepliesNameRows

LEMMA KeyStep == TypeInv /\ KeyInv /\ [Next]_vars => KeyInv'
<1> SUFFICES ASSUME TypeInv, KeyInv, [Next]_vars PROVE KeyInv'
  OBVIOUS
<1> USE DEF TypeInv, TypeOK, db, posts, workers
<1>q. ASSUME UNCHANGED <<rows, requested, post, reply>> PROVE KeyInv'
  BY <1>q DEF KeyInv, OneTransactionPerKey, HoldsFreeKey, LooksUpTakenKey,
              RepliesNameRows, KeyHolders
<1>1. ASSUME NEW p \in Commands, Submit(p) PROVE KeyInv'
  BY <1>1 DEF Submit, KeyInv, OneTransactionPerKey, HoldsFreeKey, LooksUpTakenKey,
              RepliesNameRows, KeyHolders
<1>2. ASSUME NEW p \in Commands, Insert(p) PROVE KeyInv'
  BY <1>2 DEF Insert, KeyLocked, KeyInv, OneTransactionPerKey, HoldsFreeKey,
              LooksUpTakenKey, RepliesNameRows, KeyHolders
<1>3. ASSUME NEW p \in Commands, post[p] = "commit", Store(p),
             NEW step \in {"accepted", "failed"}, post' = [post EXCEPT ![p] = step],
             \/ step = "failed" /\ reply' = reply
             \/ reply' = [reply EXCEPT ![p] = {[tx |-> p, amount |-> Request[p].amount]}]
      PROVE  KeyInv'
  <2>1. rows' = rows \cup {p} /\ requested' = requested \cup {p}
    BY <1>3 DEF Store
  <2>2. KeyHolders(p) = {} /\ \A q \in Commands \ {p} : post[q] = "commit" => Key[q] # Key[p]
    BY <1>3 DEF KeyInv, HoldsFreeKey
  <2>3. OneTransactionPerKey'
    BY <2>1, <2>2 DEF KeyInv, OneTransactionPerKey, KeyHolders
  <2>4. HoldsFreeKey' /\ LooksUpTakenKey'
    BY <1>3, <2>1, <2>2 DEF KeyInv, HoldsFreeKey, LooksUpTakenKey, KeyHolders
  <2>5. RepliesNameRows'
    <3>1. CASE reply' = reply /\ step = "failed"
      BY <1>3, <2>1, <3>1 DEF KeyInv, RepliesNameRows
    <3>2. CASE reply' = [reply EXCEPT ![p] = {[tx |-> p, amount |-> Request[p].amount]}]
      <4>1. reply'[p] = {[tx |-> p, amount |-> Request[p].amount]}
        BY <3>2
      <4>2. \A q \in Commands \ {p} : reply'[q] = reply[q] /\ post'[q] = post[q]
        BY <1>3, <3>2
      <4>3. reply'[p] # {} /\ \A a \in reply'[p] : a.tx = p
        BY <4>1
      <4>4. \A q \in Commands : /\ post'[q] = "accepted" => reply'[q] # {}
                               /\ \A a \in reply'[q] : a.tx \in rows' /\ Key[a.tx] = Key[q]
        BY <2>1, <4>2, <4>3 DEF KeyInv, RepliesNameRows
      <4> QED
        BY <4>4 DEF RepliesNameRows
    <3> QED
      BY <1>3, <3>1, <3>2
  <2> QED
    BY <2>3, <2>4, <2>5 DEF KeyInv
<1>4. ASSUME NEW p \in Commands, CommitCreate(p) PROVE KeyInv'
  BY <1>3, <1>4 DEF CommitCreate
<1>5. ASSUME NEW p \in Commands, CommitUnheard(p) PROVE KeyInv'
  BY <1>3, <1>5 DEF CommitUnheard
<1>6. ASSUME NEW p \in Commands, FailPost(p) PROVE KeyInv'
  BY <1>6 DEF FailPost, KeyInv, OneTransactionPerKey, HoldsFreeKey, LooksUpTakenKey,
              RepliesNameRows, KeyHolders
<1>7. ASSUME NEW p \in Commands, Lookup(p) PROVE KeyInv'
  <2>1. KeyHolders(p) # {} /\ \A t \in KeyHolders(p) : t \in rows /\ Key[t] = Key[p]
    BY <1>7 DEF Lookup, KeyInv, LooksUpTakenKey, KeyHolders
  <2>3. reply' = [reply EXCEPT ![p] =
                   {[tx |-> t, amount |-> Round(Request[t].amount)] : t \in KeyHolders(p)}]
    BY <1>7 DEF Lookup
  <2>4. reply'[p] # {} /\ \A a \in reply'[p] : a.tx \in rows /\ Key[a.tx] = Key[p]
    <3>1. reply'[p] = {[tx |-> t, amount |-> Round(Request[t].amount)] : t \in KeyHolders(p)}
      BY <2>3
    <3>2. \A a \in reply'[p] : a.tx \in KeyHolders(p)
      BY <3>1
    <3>3. reply'[p] # {}
      <4>1. PICK t \in KeyHolders(p) : TRUE
        BY <2>1
      <4>2. [tx |-> t, amount |-> Round(Request[t].amount)] \in reply'[p]
        BY <3>1, <4>1
      <4> QED
        BY <4>2
    <3> QED
      BY <2>1, <3>2, <3>3
  <2>5. RepliesNameRows'
    BY <1>7, <2>3, <2>4 DEF Lookup, KeyInv, RepliesNameRows
  <2> QED
    BY <1>7, <2>5 DEF Lookup, KeyInv, OneTransactionPerKey, HoldsFreeKey,
                      LooksUpTakenKey, KeyHolders
<1>8. CASE UNCHANGED vars
  BY <1>8, <1>q DEF vars
<1>9. ASSUME NEW t \in Commands, NEW outcome \in {"applied", "failed"},
             Answer(t, outcome)
      PROVE  KeyInv'
  BY <1>9, <1>q DEF Answer
<1>10. ASSUME NEW w \in Workers,
              \/ WorkerStep(w) \/ Abort(w) \/ \E e \in Events : Receive(w, e)
       PROVE  KeyInv'
  BY <1>10, <1>q DEF WorkerStep, SkipProcessed, MarkProcessed, MarkStatus,
                     CommitResult, Abort, Receive
<1> QED
  BY <1>1, <1>2, <1>4, <1>5, <1>6, <1>7, <1>8, <1>9, <1>10
  DEF Next, PostStep, PostFault

LEMMA KeysAlways == SafeSpec => [](TypeInv /\ KeyInv)
<1>1. TypeInv /\ KeyInv /\ [Next]_vars => (TypeInv /\ KeyInv)'
  BY TypeStep, KeyStep
<1> QED
  BY <1>1, TypeInit, KeyInit, PTL DEF SafeSpec

(* Every variable of transactions-ms keeps its type. *)
THEOREM TypeCorrect == SafeSpec => []TypeOK
<1>1. TypeInv => TypeOK
  BY DEF TypeInv
<1> QED
  BY <1>1, KeysAlways, PTL

(* An idempotency key never has two transactions, whatever the number of   *)
(* requests that race for it and wherever they fail                        *)
(* (transaction_service.go, Create).                                       *)
THEOREM KeysAreUnique == SafeSpec => []OneTransactionPerKey
<1>1. KeyInv => OneTransactionPerKey
  BY DEF KeyInv
<1> QED
  BY <1>1, KeysAlways, PTL

(* A request that was accepted names a stored transaction whose command    *)
(* is in the outbox: no failure of the commit is answered with 202.        *)
THEOREM AcceptedIsKept == SafeSpec => []AcceptedIsDurable
<1>1. TypeInv /\ KeyInv => AcceptedIsDurable
  BY DEF TypeInv, TypeOK, KeyInv, RepliesNameRows, OneTransactionPerKey,
         AcceptedIsDurable
<1> QED
  BY <1>1, KeysAlways, PTL

(***************************************************************************)
(* Replies also agree on the amount, if no amount needs rounding: the      *)
(* first reply carries the amount requested, the others the amount stored. *)
(***************************************************************************)
RepliesAreExact ==
  \A p \in Commands : \A a \in reply[p] : a.amount = Request[a.tx].amount

LEMMA WholeRound ==
  ASSUME WholeAmounts, NEW t \in Commands
  PROVE  Round(Request[t].amount) = Request[t].amount
<1>1. Request[t].amount \in Nat /\ Request[t].amount % 2 = 0
  BY RequestAssumption DEF WholeAmounts, Payload
<1> QED
  BY <1>1 DEF Round

LEMMA ExactStep ==
  WholeAmounts /\ TypeInv /\ RepliesAreExact /\ [Next]_vars => RepliesAreExact'
<1> SUFFICES ASSUME WholeAmounts, TypeInv, RepliesAreExact, [Next]_vars
             PROVE  RepliesAreExact'
  OBVIOUS
<1> USE DEF TypeInv, TypeOK
<1>1. ASSUME NEW p \in Commands, CommitCreate(p) PROVE RepliesAreExact'
  BY <1>1 DEF CommitCreate, RepliesAreExact
<1>2. ASSUME NEW p \in Commands, Lookup(p) PROVE RepliesAreExact'
  <2>1. KeyHolders(p) \subseteq Commands
    BY DEF KeyHolders
  <2>2. \A t \in KeyHolders(p) : Round(Request[t].amount) = Request[t].amount
    BY <2>1, WholeRound
  <2>3. reply' = [reply EXCEPT ![p] =
                   {[tx |-> t, amount |-> Round(Request[t].amount)] : t \in KeyHolders(p)}]
    BY <1>2 DEF Lookup
  <2>4. \A a \in reply'[p] : a.amount = Request[a.tx].amount
    <3>1. reply'[p] = {[tx |-> t, amount |-> Round(Request[t].amount)] : t \in KeyHolders(p)}
      BY <2>3
    <3> QED
      BY <2>2, <3>1
  <2> QED
    BY <2>3, <2>4 DEF RepliesAreExact
<1>3. CASE UNCHANGED reply
  BY <1>3 DEF RepliesAreExact
<1>4. \/ \E p \in Commands : CommitCreate(p) \/ Lookup(p)
      \/ UNCHANGED reply
  BY DEF Next, PostStep, PostFault, WorkerStep, vars, posts, Submit, Insert,
         CommitUnheard, FailPost, Answer, Receive, SkipProcessed, MarkProcessed,
         MarkStatus, CommitResult, Abort
<1> QED
  BY <1>1, <1>2, <1>3, <1>4

(* Every accepted request with one key gets the same answer, if no amount  *)
(* needs rounding (TransactionService.Create, getByIdempotencyKey).        *)
THEOREM RetriesAgree ==
  ASSUME WholeAmounts PROVE SafeSpec => []RepliesAgree
<1>1. TypeInv /\ KeyInv /\ RepliesAreExact => RepliesAgree
  <2> SUFFICES ASSUME TypeInv, KeyInv, RepliesAreExact,
                      NEW p \in Commands, NEW q \in Commands, Key[p] = Key[q],
                      NEW a \in reply[p], NEW b \in reply[q]
               PROVE  a = b
    BY DEF RepliesAgree
  <2>1. a \in [tx : Commands, amount : Nat] /\ b \in [tx : Commands, amount : Nat]
    BY DEF TypeInv, TypeOK
  <2>2. a.tx = b.tx
    BY DEF KeyInv, RepliesNameRows, OneTransactionPerKey
  <2>3. a.amount = b.amount
    BY <2>2 DEF RepliesAreExact
  <2> QED
    BY <2>1, <2>2, <2>3
<1>2. Init => RepliesAreExact
  BY DEF Init, RepliesAreExact
<1>3. SafeSpec => []RepliesAreExact
  BY <1>2, ExactStep, KeysAlways, PTL DEF SafeSpec
<1> QED
  BY <1>1, <1>3, KeysAlways, PTL

-----------------------------------------------------------------------------
(***************************************************************************)
(* Closing a transaction.  An open database transaction has updated the    *)
(* row of its event exactly when that row is still PENDING, and the row    *)
(* lock keeps it so until the commit.                                      *)
(***************************************************************************)
HitIsPending ==
  \A w \in Workers :
    /\ hit[w] => pc[w] = "publish"
    /\ pc[w] = "publish" => \A e \in evt[w] : hit[w] <=> status[e.tx] = "PENDING"

HitsExclusive ==
  \A v, w \in Workers :
    v # w /\ hit[v] /\ hit[w] => \A e \in evt[v], f \in evt[w] : e.tx # f.tx

EventsAreFinal ==
  \A t \in Commands : \A i \in DOMAIN events[t] : events[t][i] # "PENDING"

ResultInv == StatusIsFirstEvent /\ HitIsPending /\ HitsExclusive /\ EventsAreFinal

LEMMA ResultInit == Init => ResultInv
BY DEF Init, ResultInv, StatusIsFirstEvent, HitIsPending, HitsExclusive, EventsAreFinal

(* The effect of a commit on the tables, for the event e of worker w. *)
LEMMA CommitEffect ==
  ASSUME TypeInv, ResultInv, NEW w \in Workers, CommitResult(w)
  PROVE  \E e \in Event, s \in {"COMPLETED", "REJECTED"} :
           /\ evt[w] = {e} /\ e.tx \in Commands
           /\ hit[w] <=> status[e.tx] = "PENDING"
           /\ status' = IF hit[w] THEN [status EXCEPT ![e.tx] = s] ELSE status
           /\ events' = [events EXCEPT ![e.tx] = Append(events[e.tx], s)]
<1>1. PICK e \in Event : evt[w] = {e}
  BY DEF CommitResult, TypeInv, Working
<1>2. e.tx \in Commands
  BY DEF Event
<1> DEFINE s == StatusOf(answers[e.tx][e.seq])
<1>3. s \in {"COMPLETED", "REJECTED"}
  BY StatusOfType
<1>4. hit[w] <=> status[e.tx] = "PENDING"
  BY <1>1 DEF CommitResult, ResultInv, HitIsPending
<1>5. /\ status' = IF hit[w] THEN [status EXCEPT ![e.tx] = s] ELSE status
      /\ events' = [events EXCEPT ![e.tx] = Append(events[e.tx], s)]
  BY <1>1, <1>2 DEF CommitResult
<1> QED
  BY <1>1, <1>2, <1>3, <1>4, <1>5

(* What appending to a sequence leaves as it was. *)
LEMMA AppendFacts ==
  ASSUME NEW S, NEW J \in Seq(S), NEW s \in S
  PROVE  /\ Append(J, s) # << >>
         /\ J # << >> => Append(J, s)[1] = J[1]
         /\ J = << >> => Append(J, s)[1] = s
         /\ DOMAIN J = 1..Len(J) /\ DOMAIN Append(J, s) = 1..(Len(J) + 1)
         /\ \A i \in 1..Len(J) : Append(J, s)[i] = J[i]
         /\ Append(J, s)[Len(J) + 1] = s /\ Len(J) \in Nat
<1>1. Len(J) \in Nat /\ DOMAIN J = 1..Len(J)
  OBVIOUS
<1>2. Append(J, s) \in Seq(S) /\ Len(Append(J, s)) = Len(J) + 1
  OBVIOUS
<1>3. DOMAIN Append(J, s) = 1..(Len(J) + 1)
  BY <1>2
<1>4. \A i \in 1..Len(J) : Append(J, s)[i] = J[i]
  OBVIOUS
<1>5. Append(J, s)[Len(J) + 1] = s
  OBVIOUS
<1>6. Append(J, s) # << >>
  BY <1>1, <1>2
<1>7. J # << >> => Append(J, s)[1] = J[1]
  <2>1. J # << >> => Len(J) >= 1
    OBVIOUS
  <2> QED
    BY <1>1, <1>4, <2>1
<1>8. J = << >> => Append(J, s)[1] = s
  <2>1. J = << >> => Len(J) = 0
    OBVIOUS
  <2> QED
    BY <1>5, <2>1
<1> QED
  BY <1>1, <1>3, <1>4, <1>5, <1>6, <1>7, <1>8

LEMMA ResultStep == TypeInv /\ ResultInv /\ [Next]_vars => ResultInv'
<1> SUFFICES ASSUME TypeInv, ResultInv, [Next]_vars PROVE ResultInv'
  OBVIOUS
<1> USE DEF TypeInv, TypeOK, db, posts, workers
<1>q. ASSUME UNCHANGED <<status, events>>,
             \A w \in Workers :
               \/ pc'[w] = pc[w] /\ evt'[w] = evt[w] /\ hit'[w] = hit[w]
               \/ pc'[w] # "publish" /\ ~hit'[w]
      PROVE  ResultInv'
  BY <1>q DEF ResultInv, StatusIsFirstEvent, HitIsPending, HitsExclusive, EventsAreFinal
<1>1. CASE UNCHANGED vars
  BY <1>1, <1>q DEF vars
<1>2. ASSUME NEW p \in Commands, Submit(p) \/ PostStep(p) \/ PostFault(p)
      PROVE  ResultInv'
  BY <1>2, <1>q DEF Submit, PostStep, PostFault, Insert, CommitCreate, Lookup,
                    CommitUnheard, FailPost, Store
<1>3. ASSUME NEW t \in Commands, NEW outcome \in {"applied", "failed"},
             Answer(t, outcome)
      PROVE  ResultInv'
  BY <1>3, <1>q DEF Answer
<1>4. ASSUME NEW w \in Workers, NEW e \in Events, Receive(w, e) PROVE ResultInv'
  <2>1. ~hit[w]
    BY <1>4 DEF Receive, ResultInv, HitIsPending
  <2> QED
    BY <1>4, <2>1, <1>q DEF Receive
<1>5. ASSUME NEW w \in Workers, SkipProcessed(w) \/ Abort(w) PROVE ResultInv'
  BY <1>5, <1>q DEF SkipProcessed, Abort, Return
<1>6. ASSUME NEW w \in Workers, MarkProcessed(w) PROVE ResultInv'
  <2>1. ~hit[w]
    BY <1>6 DEF MarkProcessed, ResultInv, HitIsPending
  <2> QED
    BY <1>6, <2>1, <1>q DEF MarkProcessed
<1>7. ASSUME NEW w \in Workers, MarkStatus(w) PROVE ResultInv'
  <2>1. PICK e \in Event : evt[w] = {e}
    BY <1>7 DEF MarkStatus, Working
  <2>2. /\ ~RowLocked(w, e.tx)
        /\ hit' = [hit EXCEPT ![w] = (status[e.tx] = "PENDING")]
        /\ pc' = [pc EXCEPT ![w] = "publish"]
        /\ UNCHANGED <<status, events, evt>>
    BY <1>7, <2>1 DEF MarkStatus
  <2>3. /\ hit'[w] <=> status[e.tx] = "PENDING"
        /\ pc'[w] = "publish"
        /\ \A v \in Workers \ {w} : hit'[v] = hit[v] /\ pc'[v] = pc[v]
    BY <2>2
  <2>4. HitIsPending'
    BY <2>1, <2>2, <2>3 DEF ResultInv, HitIsPending
  <2>5. HitsExclusive'
    BY <2>1, <2>2, <2>3 DEF RowLocked, ResultInv, HitsExclusive
  <2>6. StatusIsFirstEvent' /\ EventsAreFinal'
    BY <2>2 DEF ResultInv, StatusIsFirstEvent, EventsAreFinal
  <2> QED
    BY <2>4, <2>5, <2>6 DEF ResultInv
<1>8. ASSUME NEW w \in Workers, CommitResult(w) PROVE ResultInv'
  <2>1. PICK e \in Event, s \in {"COMPLETED", "REJECTED"} :
           /\ evt[w] = {e} /\ e.tx \in Commands
           /\ hit[w] <=> status[e.tx] = "PENDING"
           /\ status' = IF hit[w] THEN [status EXCEPT ![e.tx] = s] ELSE status
           /\ events' = [events EXCEPT ![e.tx] = Append(events[e.tx], s)]
    BY <1>8, CommitEffect
  <2>2. /\ pc'[w] = "idle" /\ ~hit'[w]
        /\ \A v \in Workers \ {w} :
             pc'[v] = pc[v] /\ evt'[v] = evt[v] /\ hit'[v] = hit[v]
    BY <1>8 DEF CommitResult, Return
  <2>3. PICK J \in Seq(Statuses) : J = events[e.tx]
    BY <2>1
  <2>4. /\ events'[e.tx] = Append(J, s) /\ Append(J, s) # << >>
        /\ J # << >> => Append(J, s)[1] = J[1]
        /\ J = << >> => Append(J, s)[1] = s
        /\ DOMAIN J = 1..Len(J) /\ DOMAIN Append(J, s) = 1..(Len(J) + 1)
        /\ \A i \in 1..Len(J) : Append(J, s)[i] = J[i]
        /\ Append(J, s)[Len(J) + 1] = s /\ Len(J) \in Nat
    <3>1. s \in Statuses
      BY <2>1 DEF Statuses
    <3>2. events'[e.tx] = Append(J, s)
      BY <2>1, <2>3
    <3> DEFINE W == Statuses
    <3>3. J \in Seq(W) /\ s \in W
      BY <2>3, <3>1
    <3> HIDE DEF W
    <3>4. /\ Append(J, s) # << >>
          /\ J # << >> => Append(J, s)[1] = J[1]
          /\ J = << >> => Append(J, s)[1] = s
          /\ DOMAIN J = 1..Len(J) /\ DOMAIN Append(J, s) = 1..(Len(J) + 1)
          /\ \A i \in 1..Len(J) : Append(J, s)[i] = J[i]
          /\ Append(J, s)[Len(J) + 1] = s /\ Len(J) \in Nat
      BY ONLY <3>3, AppendFacts, Zenon
    <3> QED
      BY <3>2, <3>4
  <2>5. EventsAreFinal'
    <3>1. \A i \in 1..(Len(J) + 1) : i \in 1..Len(J) \/ i = Len(J) + 1
      BY <2>4
    <3>2. \A i \in DOMAIN events'[e.tx] : events'[e.tx][i] # "PENDING"
      BY <2>1, <2>3, <2>4, <3>1 DEF ResultInv, EventsAreFinal
    <3>3. \A t \in Commands \ {e.tx} : events'[t] = events[t]
      BY <2>1
    <3> QED
      BY <3>2, <3>3 DEF ResultInv, EventsAreFinal
  <2>6. StatusIsFirstEvent'
    <3>1. J = << >> <=> status[e.tx] = "PENDING"
      BY <2>1, <2>3, <2>4 DEF ResultInv, StatusIsFirstEvent, EventsAreFinal
    <3>2. status'[e.tx] = Append(J, s)[1]
      BY <2>1, <2>3, <2>4, <3>1 DEF ResultInv, StatusIsFirstEvent
    <3>3. \A t \in Commands \ {e.tx} : events'[t] = events[t] /\ status'[t] = status[t]
      BY <2>1
    <3> QED
      BY <2>4, <3>2, <3>3 DEF ResultInv, StatusIsFirstEvent
  <2>7. HitIsPending'
    <3>1. ASSUME NEW v \in Workers, NEW f \in evt'[v], pc'[v] = "publish"
          PROVE  hit'[v] <=> status'[f.tx] = "PENDING"
      <4>1. v # w /\ f \in evt[v] /\ pc[v] = "publish" /\ f.tx \in Commands
        BY <2>2, <3>1 DEF Event
      <4>2. hit'[v] = hit[v] /\ (hit[v] <=> status[f.tx] = "PENDING")
        BY <2>2, <4>1 DEF ResultInv, HitIsPending
      <4>3. hit[v] /\ hit[w] => f.tx # e.tx
        BY <2>1, <4>1 DEF ResultInv, HitsExclusive
      <4> QED
        BY <2>1, <4>1, <4>2, <4>3
    <3>2. ASSUME NEW v \in Workers, hit'[v] PROVE pc'[v] = "publish"
      BY <2>2, <3>2 DEF ResultInv, HitIsPending
    <3> QED
      BY <3>1, <3>2 DEF HitIsPending
  <2>8. HitsExclusive'
    BY <2>2 DEF ResultInv, HitsExclusive
  <2> QED
    BY <2>5, <2>6, <2>7, <2>8 DEF ResultInv
<1> QED
  BY <1>1, <1>2, <1>3, <1>4, <1>5, <1>6, <1>7, <1>8 DEF Next, WorkerStep

LEMMA ResultsAlways == SafeSpec => [](TypeInv /\ ResultInv)
<1>1. TypeInv /\ ResultInv /\ [Next]_vars => (TypeInv /\ ResultInv)'
  BY TypeStep, ResultStep
<1> QED
  BY <1>1, TypeInit, ResultInit, PTL DEF SafeSpec

(* The status of a transaction is the one its first published event tells, *)
(* and it is PENDING as long as no event was published                     *)
(* (HandleAccountsResult, MarkCompleted, MarkRejected).                    *)
THEOREM StatusFollowsEvents == SafeSpec => []StatusIsFirstEvent
<1>1. ResultInv => StatusIsFirstEvent
  BY DEF ResultInv
<1> QED
  BY <1>1, ResultsAlways, PTL

(* COMPLETED and REJECTED are final: contradictory answers, handled by any *)
(* number of replicas at once, never change a closed transaction.          *)
THEOREM ClosedStaysClosed == SafeSpec => StatusIsFinal
<1> DEFINE Final == \A t \in Commands : status[t] # "PENDING" => status'[t] = status[t]
<1>1. TypeInv /\ ResultInv /\ [Next]_vars => [Final]_vars
  <2> SUFFICES ASSUME TypeInv, ResultInv, Next PROVE Final
    BY DEF vars
  <2>1. CASE \E w \in Workers : CommitResult(w)
    BY <2>1, CommitEffect DEF TypeInv, TypeOK
  <2>2. CASE ~ \E w \in Workers : CommitResult(w)
    <3>1. UNCHANGED status
      BY <2>2 DEF Next, PostStep, PostFault, WorkerStep, db, posts, Submit, Insert,
                  CommitCreate, CommitUnheard, Lookup, FailPost, Store, Answer,
                  Receive, SkipProcessed, MarkProcessed, MarkStatus, Abort
    <3> QED
      BY <3>1
  <2> QED
    BY <2>1, <2>2
<1> QED
  BY <1>1, ResultsAlways, PTL DEF SafeSpec, StatusIsFinal

-----------------------------------------------------------------------------
(***************************************************************************)
(* The inbox.  Of the workers that handle one result at a time, one has    *)
(* inserted it and the others wait; whoever has inserted it has found it   *)
(* absent.  So the event of a result is published when the result enters   *)
(* the inbox, and never again.                                             *)
(***************************************************************************)
InboxOf(t) == {e \in inbox : e.tx = t}

InTx(w) == pc[w] \in {"update", "publish"}

EventsCounted ==
  \A t \in Commands :
    IsFiniteSet(InboxOf(t)) /\ Len(events[t]) = Cardinality(InboxOf(t))

InboxInv ==
  /\ EventsCounted
  /\ \A w \in Workers : InTx(w) => evt[w] \cap inbox = {}
  /\ \A v, w \in Workers : v # w /\ InTx(v) /\ InTx(w) => evt[v] \cap evt[w] = {}

LEMMA InboxInit == Init => InboxInv
<1> SUFFICES ASSUME Init PROVE InboxInv
  OBVIOUS
<1>1. \A t \in Commands : InboxOf(t) = {} /\ Len(events[t]) = 0
  BY DEF Init, InboxOf
<1>2. EventsCounted
  BY <1>1, FS_EmptySet DEF EventsCounted
<1> QED
  BY <1>2 DEF Init, InboxInv, InTx

(* A commit puts one event into the inbox and one into the outbox. *)
LEMMA CommitCounts ==
  ASSUME TypeInv, InboxInv, NEW w \in Workers, CommitResult(w)
  PROVE  EventsCounted'
<1>1. PICK e \in Event : evt[w] = {e}
  BY DEF CommitResult, TypeInv, Working
<1> DEFINE s == StatusOf(answers[e.tx][e.seq])
<1>2. /\ e.tx \in Commands /\ e \notin inbox /\ inbox' = inbox \cup {e}
      /\ events' = [events EXCEPT ![e.tx] = Append(@, s)]
  BY <1>1 DEF CommitResult, InboxInv, InTx, Event
<1> HIDE DEF s
<1>3. ASSUME NEW t \in Commands, t # e.tx
      PROVE  InboxOf(t)' = InboxOf(t) /\ events'[t] = events[t]
  BY <1>2, <1>3 DEF InboxOf, TypeInv, TypeOK
<1>4. InboxOf(e.tx)' = InboxOf(e.tx) \cup {e} /\ e \notin InboxOf(e.tx)
  BY <1>2 DEF InboxOf
<1>5. IsFiniteSet(InboxOf(e.tx)) /\ Len(events[e.tx]) = Cardinality(InboxOf(e.tx))
  BY <1>2 DEF InboxInv, EventsCounted
<1>6. IsFiniteSet(InboxOf(e.tx)') /\ Cardinality(InboxOf(e.tx)') = Len(events[e.tx]) + 1
  BY <1>4, <1>5, FS_AddElement
<1>7. Len(events'[e.tx]) = Len(events[e.tx]) + 1
  <2>1. events[e.tx] \in Seq(Statuses) /\ events'[e.tx] = Append(events[e.tx], s)
    BY <1>2 DEF TypeInv, TypeOK
  <2> QED
    BY <2>1
<1> QED
  BY <1>2, <1>3, <1>6, <1>7 DEF InboxInv, EventsCounted

LEMMA InboxStep == TypeInv /\ InboxInv /\ [Next]_vars => InboxInv'
<1> SUFFICES ASSUME TypeInv, InboxInv, [Next]_vars PROVE InboxInv'
  OBVIOUS
<1> USE DEF TypeInv, TypeOK, db, posts, workers
<1>q. ASSUME UNCHANGED <<events, inbox>>,
             \A w \in Workers : InTx(w)' => InTx(w) /\ evt'[w] = evt[w]
      PROVE  InboxInv'
  BY <1>q DEF InboxInv, EventsCounted, InboxOf
<1>1. CASE UNCHANGED vars
  BY <1>1, <1>q DEF vars, InTx
<1>2. ASSUME NEW p \in Commands, Submit(p) \/ PostStep(p) \/ PostFault(p)
      PROVE  InboxInv'
  BY <1>2, <1>q DEF Submit, PostStep, PostFault, Insert, CommitCreate, Lookup,
                    CommitUnheard, FailPost, Store, InTx
<1>3. ASSUME NEW t \in Commands, NEW outcome \in {"applied", "failed"},
             Answer(t, outcome)
      PROVE  InboxInv'
  BY <1>3, <1>q DEF Answer, InTx
<1>4. ASSUME NEW w \in Workers, NEW e \in Events, Receive(w, e) PROVE InboxInv'
  BY <1>4, <1>q DEF Receive, InTx
<1>5. ASSUME NEW w \in Workers, SkipProcessed(w) \/ Abort(w) PROVE InboxInv'
  BY <1>5, <1>q DEF SkipProcessed, Abort, Return, InTx
<1>6. ASSUME NEW w \in Workers, MarkProcessed(w) PROVE InboxInv'
  <2>1. PICK e \in Event : evt[w] = {e}
    BY <1>6 DEF MarkProcessed, Working
  <2>2. e \notin inbox /\ \A v \in Workers \ {w} : InTx(v) => evt[v] # {e}
    BY <1>6, <2>1 DEF MarkProcessed, InboxLocked, InTx
  <2>3. \A v \in Workers \ {w} : InTx(v) => evt[v] \cap {e} = {}
    BY <2>2 DEF InTx, Working
  <2>4. /\ UNCHANGED <<events, inbox, evt>>
        /\ \A v \in Workers \ {w} : InTx(v)' <=> InTx(v)
    BY <1>6 DEF MarkProcessed, InTx
  <2>5. EventsCounted'
    BY <2>4 DEF InboxInv, EventsCounted, InboxOf
  <2>6. \A v \in Workers : InTx(v)' => evt'[v] \cap inbox' = {}
    BY <2>1, <2>2, <2>4 DEF InboxInv
  <2>7. \A u, v \in Workers : u # v /\ InTx(u)' /\ InTx(v)' => evt'[u] \cap evt'[v] = {}
    BY <2>1, <2>3, <2>4 DEF InboxInv
  <2> QED
    BY <2>5, <2>6, <2>7 DEF InboxInv
<1>7. ASSUME NEW w \in Workers, MarkStatus(w) PROVE InboxInv'
  BY <1>7, <1>q DEF MarkStatus, InTx
<1>8. ASSUME NEW w \in Workers, CommitResult(w) PROVE InboxInv'
  <2>1. EventsCounted'
    BY <1>8, CommitCounts
  <2>2. PICK e \in Event : evt[w] = {e}
    BY <1>8 DEF CommitResult, Working
  <2>3. inbox' = inbox \cup {e} /\ InTx(w)
    BY <1>8, <2>2 DEF CommitResult, InTx
  <2>4. \A v \in Workers : InTx(v)' => v # w /\ InTx(v) /\ evt'[v] = evt[v]
    BY <1>8 DEF CommitResult, Return, InTx
  <2> QED
    BY <2>1, <2>2, <2>3, <2>4 DEF InboxInv
<1> QED
  BY <1>1, <1>2, <1>3, <1>4, <1>5, <1>6, <1>7, <1>8 DEF Next, WorkerStep

(* Each result of accounts-ms is announced once, however often it is       *)
(* delivered and to however many replicas (HandleAccountsResult).          *)
THEOREM EachAnswerOnce == SafeSpec => []OneEventPerAnswer
<1>1. InboxInv => OneEventPerAnswer
  BY DEF InboxInv, EventsCounted, InboxOf, OneEventPerAnswer
<1> QED
  BY <1>1, TypeInit, TypeStep, InboxInit, InboxStep, PTL DEF SafeSpec

=============================================================================
