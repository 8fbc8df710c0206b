--------------------------- MODULE LifecycleProofs ---------------------------
(***************************************************************************)
(* Proofs about Lifecycle: types, the order in which a service stops, and  *)
(* that no request is cut off early, for any number of requests.           *)
(***************************************************************************)
EXTENDS Lifecycle, TLAPS

(* The last failed ping ends the process. *)
TypeInv == TypeOK /\ (main = "waitDB" => pings < MaxPings)

(* What main's position says of the goroutines: nothing is closed before   *)
(* the WaitGroup is done, and then relay and consumer are.                 *)
StageInv ==
  /\ main # "close" /\ main # "exited" => closed = 0
  /\ main \in {"waitDB", "close", "exited"} =>
       \A w \in Workers : worker[w] \in {"off", "done"}
  /\ main = "waitDB" =>
       /\ http = "off"
       /\ \A r \in HttpRequests : req[r] = "none"

(* After Shutdown a request is in progress only if the ten seconds passed, *)
(* and only such a request fails or is cut off.                            *)
RequestInv ==
  /\ main \in {"wait", "close"} /\ InProgress # {} => timedOut
  /\ closed # 0 => main \in {"close", "exited"}
  /\ CutNeedsTimeout

IInv == TypeOK /\ StageInv /\ RequestInv

(* As long as nothing has been closed, the pool is open. *)
LEMMA NothingClosed == closed = 0 => Closed = {}
  BY DEF Closed

LEMMA FourClosers == Len(Closers) = 4
  BY DEF Closers

LEMMA TypeKept ==
  ASSUME TypeInv, [Next]_vars
  PROVE  TypeInv'
<1> USE MaxPingsAssumption DEF TypeInv, TypeOK, goroutines
<1>1. CASE Signal
  BY <1>1 DEF Signal
<1>2. CASE PingFails
  BY <1>2 DEF PingFails
<1>3. CASE Start
  BY <1>3 DEF Start
<1>4. CASE Listen
  BY <1>4 DEF Listen
<1>5. CASE HttpFails
  BY <1>5 DEF HttpFails
<1>6. ASSUME NEW w \in Workers, Begin(w) \/ Finish(w) \/ Leave(w) PROVE TypeInv'
  BY <1>6 DEF Begin, Finish, Leave
<1>7. ASSUME NEW r \in HttpRequests, Arrive(r) \/ Acquire(r) \/ Release(r) \/ Reply(r)
      PROVE TypeInv'
  BY <1>7 DEF Arrive, Acquire, Release, Reply, MoveTo
<1>8. CASE Shutdown \/ ShutdownReturns \/ ShutdownTimesOut \/ WaitGroupDone
  BY <1>8 DEF Shutdown, ShutdownReturns, ShutdownTimesOut, WaitGroupDone
<1>9. CASE CloseNext
  BY <1>9, FourClosers DEF CloseNext
<1>10. CASE Exit
  BY <1>10 DEF Exit
<1>11. CASE UNCHANGED vars
  BY <1>11 DEF vars
<1> QED
  BY <1>1, <1>2, <1>3, <1>4, <1>5, <1>6, <1>7, <1>8, <1>9, <1>10, <1>11 DEF Next, Main

THEOREM TypeCorrect == SafeSpec => []TypeOK
<1>1. Init => TypeInv
  <2> SUFFICES ASSUME Init PROVE TypeInv
    OBVIOUS
  <2>1. pings \in 0..MaxPings /\ closed \in 0..Len(Closers) /\ pings < MaxPings
    BY MaxPingsAssumption, FourClosers DEF Init
  <2>2. worker \in [Workers -> {"off", "idle", "busy", "done"}]
    BY DEF Init
  <2>3. req \in [HttpRequests ->
          {"none", "active", "holding", "reply", "answered", "failed", "cut"}]
    BY DEF Init
  <2>4. cancelled \in BOOLEAN /\ timedOut \in BOOLEAN
    BY Zenon DEF Init
  <2> QED
    BY <2>1, <2>2, <2>3, <2>4 DEF Init, TypeInv, TypeOK
<1> QED
  BY <1>1, TypeKept, PTL DEF SafeSpec, TypeInv

LEMMA StageKept == TypeOK /\ StageInv /\ [Next]_vars => StageInv'
<1> SUFFICES ASSUME TypeOK, StageInv, [Next]_vars PROVE StageInv'
  OBVIOUS
<1> USE DEF TypeOK, StageInv, goroutines
<1>1. CASE Signal
  BY <1>1 DEF Signal
<1>2. CASE PingFails
  BY <1>2 DEF PingFails
<1>3. CASE Start
  BY <1>3 DEF Start
<1>4. CASE Listen
  BY <1>4 DEF Listen
<1>5. CASE HttpFails
  BY <1>5 DEF HttpFails
<1>6. ASSUME NEW w \in Workers, Begin(w) \/ Finish(w) \/ Leave(w) PROVE StageInv'
  BY <1>6 DEF Begin, Finish, Leave
<1>7. ASSUME NEW r \in HttpRequests, Arrive(r) \/ Acquire(r) \/ Release(r) \/ Reply(r)
      PROVE StageInv'
  BY <1>7 DEF Arrive, Acquire, Release, Reply, MoveTo
<1>8. CASE Shutdown \/ ShutdownReturns \/ ShutdownTimesOut
  BY <1>8 DEF Shutdown, ShutdownReturns, ShutdownTimesOut
<1>9. CASE WaitGroupDone
  BY <1>9 DEF WaitGroupDone
<1>10. CASE CloseNext \/ Exit
  BY <1>10 DEF CloseNext, Exit
<1>11. CASE UNCHANGED vars
  BY <1>11 DEF vars
<1> QED
  BY <1>1, <1>2, <1>3, <1>4, <1>5, <1>6, <1>7, <1>8, <1>9, <1>10, <1>11 DEF Next, Main

LEMMA RequestKept == IInv /\ [Next]_vars => RequestInv'
<1> SUFFICES ASSUME IInv, [Next]_vars PROVE RequestInv'
  OBVIOUS
<1> USE DEF IInv, TypeOK, StageInv, RequestInv, CutNeedsTimeout, InProgress, goroutines
<1>1. CASE Signal
  BY <1>1 DEF Signal
<1>2. CASE PingFails
  BY <1>2 DEF PingFails
<1>3. CASE Start
  BY <1>3 DEF Start
<1>4. CASE Listen
  BY <1>4 DEF Listen
<1>5. CASE HttpFails
  BY <1>5 DEF HttpFails
<1>6. ASSUME NEW w \in Workers, Begin(w) \/ Finish(w) \/ Leave(w) PROVE RequestInv'
  BY <1>6 DEF Begin, Finish, Leave
<1>7. ASSUME NEW r \in HttpRequests, Arrive(r) \/ Release(r) \/ Reply(r) PROVE RequestInv'
  BY <1>7 DEF Arrive, Release, Reply, MoveTo, Running
<1>8. ASSUME NEW r \in HttpRequests, Acquire(r) PROVE RequestInv'
  <2>1. CASE "pool" \in Closed
    \* The pool is closed after the WaitGroup: r has outlived Shutdown.
    <3>1. timedOut
      BY <1>8, <2>1, NothingClosed DEF Acquire, Running
    <3> QED
      BY <1>8, <3>1 DEF Acquire, MoveTo
  <2>2. CASE "pool" \notin Closed
    BY <1>8, <2>2 DEF Acquire, MoveTo
  <2> QED
    BY <2>1, <2>2
<1>9. CASE Shutdown \/ ShutdownReturns \/ ShutdownTimesOut
  BY <1>9 DEF Shutdown, ShutdownReturns, ShutdownTimesOut
<1>10. CASE WaitGroupDone \/ CloseNext
  BY <1>10 DEF WaitGroupDone, CloseNext
<1>11. CASE Exit
  BY <1>11 DEF Exit
<1>12. CASE UNCHANGED vars
  BY <1>12 DEF vars
<1> QED
  BY <1>1, <1>2, <1>3, <1>4, <1>5, <1>6, <1>7, <1>8, <1>9, <1>10, <1>11, <1>12
     DEF Next, Main

LEMMA Inductive == SafeSpec => []IInv
<1>1. Init => StageInv /\ RequestInv
  BY DEF Init, StageInv, RequestInv, CutNeedsTimeout, InProgress
<1> QED
  BY <1>1, TypeCorrect, StageKept, RequestKept, PTL DEF IInv, SafeSpec

(* While relay or consumer run, nothing they use has been closed, and the  *)
(* process has not ended: run waits for both before the deferred Closes.   *)
THEOREM NothingClosedIsUsed == SafeSpec => []ClosedUnused
<1>1. TypeOK /\ StageInv => ClosedUnused
  BY NothingClosed DEF TypeOK, StageInv, ClosedUnused, Running
<1> QED
  BY <1>1, Inductive, PTL DEF IInv

(* A request is refused a connection or cut off only when Shutdown has     *)
(* waited for ten seconds.                                                 *)
THEOREM RequestsAreAnswered == SafeSpec => []CutNeedsTimeout
<1>1. IInv => CutNeedsTimeout
  BY DEF IInv, RequestInv
<1> QED
  BY <1>1, Inductive, PTL

=============================================================================
