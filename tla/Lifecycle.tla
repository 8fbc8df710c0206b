------------------------------ MODULE Lifecycle ------------------------------
(***************************************************************************)
(* The life of one service process, as main wires it: wait for the         *)
(* database, start the HTTP server, the outbox relay and the consumer,     *)
(* and stop in order when a signal comes or the HTTP server fails.         *)
(*                                                                         *)
(* Requests run in goroutines of the HTTP server, which the WaitGroup does *)
(* not count: only Shutdown waits for them, for ten seconds.  A process    *)
(* that is killed is not modelled here; the other modules crash anywhere.  *)
(***************************************************************************)
EXTENDS Naturals, Sequences

CONSTANTS
  HttpRequests,   \* requests that clients may send
  MaxPings        \* maxAttempts of waitForDB

ASSUME MaxPingsAssumption == MaxPings \in Nat \ {0}

VARIABLES
  main,        \* where main is
  pings,       \* failed pings of waitForDB
  cancelled,   \* ctx is done
  http,        \* the goroutine of ListenAndServe
  worker,      \* the goroutines of the relay and of the consumer
  req,         \* what has become of each request
  timedOut,    \* the ten seconds for Shutdown have passed
  closed,      \* how many of the deferred Closes have been called
  exitCode

vars == <<main, pings, cancelled, http, worker, req, timedOut, closed, exitCode>>
goroutines == <<http, worker, req>>

Workers == {"relay", "consumer"}
Uses == [relay    |-> {"producer", "pool"},
         consumer |-> {"reader", "dlqProducer", "pool"}]

(* The deferred Closes, last deferred first. *)
Closers == <<"reader", "dlqProducer", "producer", "pool">>
Closed == {Closers[i] : i \in 1..closed}

Init ==
  /\ main = "waitDB" /\ pings = 0 /\ cancelled = FALSE
  /\ http = "off"
  /\ worker = [w \in Workers |-> "off"]
  /\ req = [r \in HttpRequests |-> "none"]
  /\ timedOut = FALSE /\ closed = 0 /\ exitCode = 0

Running == main # "exited"

(* SIGTERM or interrupt; a second one changes nothing. *)
Signal ==
  /\ Running /\ ~cancelled
  /\ cancelled' = TRUE
  /\ UNCHANGED <<main, pings, goroutines, timedOut, closed, exitCode>>

-----------------------------------------------------------------------------
(* Mutant: <= instead of <. *)
PingFails_OneMore ==
  /\ main = "waitDB"
  /\ pings' = pings + 1
  /\ IF cancelled \/ pings = MaxPings
       THEN main' = "exited" /\ exitCode' = 1
       ELSE UNCHANGED <<main, exitCode>>
  /\ UNCHANGED <<cancelled, goroutines, timedOut, closed>>

(* The error of waitForDB, ctx.Err() included, is fatal. *)
PingFails ==
  /\ main = "waitDB"
  /\ pings' = pings + 1
  /\ IF cancelled \/ pings' = MaxPings
       THEN main' = "exited" /\ exitCode' = 1
       ELSE UNCHANGED <<main, exitCode>>
  /\ UNCHANGED <<cancelled, goroutines, timedOut, closed>>

(* The database answers: the goroutines are started. *)
Start ==
  /\ main = "waitDB" /\ ~cancelled
  /\ main' = "serve"
  /\ http' = "starting"
  /\ worker' = [w \in Workers |-> "idle"]
  /\ UNCHANGED <<pings, cancelled, req, timedOut, closed, exitCode>>

(* ListenAndServe returns at once when Shutdown was called before it. *)
Listen ==
  /\ http = "starting"
  /\ http' = IF main = "serve" THEN "listening" ELSE "done"
  /\ UNCHANGED <<main, pings, cancelled, worker, req, timedOut, closed, exitCode>>

(* The address is in use, or Accept fails: cancel. *)
HttpFails ==
  /\ main = "serve" /\ http \in {"starting", "listening"}
  /\ http' = "done"
  /\ cancelled' = TRUE
  /\ UNCHANGED <<main, pings, worker, req, timedOut, closed, exitCode>>

-----------------------------------------------------------------------------
(* A tick of the relay or a message of the consumer; select may choose it  *)
(* even when the context is done.                                          *)
Begin(w) ==
  /\ Running /\ worker[w] = "idle"
  /\ worker' = [worker EXCEPT ![w] = "busy"]
  /\ UNCHANGED <<main, pings, cancelled, http, req, timedOut, closed, exitCode>>

Finish(w) ==
  /\ Running /\ worker[w] = "busy"
  /\ worker' = [worker EXCEPT ![w] = "idle"]
  /\ UNCHANGED <<main, pings, cancelled, http, req, timedOut, closed, exitCode>>

Leave(w) ==
  /\ Running /\ worker[w] = "idle" /\ cancelled
  /\ worker' = [worker EXCEPT ![w] = "done"]
  /\ UNCHANGED <<main, pings, cancelled, http, req, timedOut, closed, exitCode>>

-----------------------------------------------------------------------------
MoveTo(r, state) ==
  /\ req' = [req EXCEPT ![r] = state]
  /\ UNCHANGED <<main, pings, cancelled, http, worker, timedOut, closed, exitCode>>

(* Until Shutdown, connections that are open stay open, also when the      *)
(* server no longer listens.                                               *)
Arrive(r) ==
  /\ main = "serve" /\ req[r] = "none"
  /\ http = "listening" \/ \E q \in HttpRequests : req[q] # "none"
  /\ MoveTo(r, "active")

(* The handler needs a connection; a closed pool refuses it. *)
Acquire(r) ==
  /\ Running /\ req[r] = "active"
  /\ MoveTo(r, IF "pool" \in Closed THEN "failed" ELSE "holding")

(* It gives the connection back, to need another one or to reply. *)
Release(r) ==
  /\ Running /\ req[r] = "holding"
  /\ \E state \in {"active", "reply"} : MoveTo(r, state)

Reply(r) ==
  /\ Running /\ req[r] = "reply"
  /\ MoveTo(r, "answered")

-----------------------------------------------------------------------------
InProgress == {r \in HttpRequests : req[r] \in {"active", "holding", "reply"}}

(* ctx.Done(): Shutdown closes the listeners ... *)
Shutdown ==
  /\ main = "serve" /\ cancelled
  /\ main' = "shutdown"
  /\ http' = IF http = "listening" THEN "done" ELSE http
  /\ UNCHANGED <<pings, cancelled, worker, req, timedOut, closed, exitCode>>

(* Mutant: Close instead of Shutdown, which waits for nobody. *)
ShutdownReturns_AtOnce ==
  /\ main = "shutdown"
  /\ main' = "wait"
  /\ UNCHANGED <<pings, cancelled, goroutines, timedOut, closed, exitCode>>

(* ... and returns when no request is left ... *)
ShutdownReturns ==
  /\ main = "shutdown" /\ InProgress = {}
  /\ main' = "wait"
  /\ UNCHANGED <<pings, cancelled, goroutines, timedOut, closed, exitCode>>

(* Mutant: shutdownCtx without a timeout. *)
ShutdownTimesOut_Never == FALSE /\ UNCHANGED vars

(* ... or with an error, which is only logged, after ten seconds. *)
ShutdownTimesOut ==
  /\ main = "shutdown" /\ InProgress # {}
  /\ main' = "wait"
  /\ timedOut' = TRUE
  /\ UNCHANGED <<pings, cancelled, goroutines, closed, exitCode>>

(* Mutant: no wg.Wait(). *)
WaitGroupDone_NotWaited ==
  /\ main = "wait"
  /\ main' = "close"
  /\ UNCHANGED <<pings, cancelled, goroutines, timedOut, closed, exitCode>>

(* wg.Wait() returns. *)
WaitGroupDone ==
  /\ main = "wait"
  /\ http = "done" /\ \A w \in Workers : worker[w] = "done"
  /\ main' = "close"
  /\ UNCHANGED <<pings, cancelled, goroutines, timedOut, closed, exitCode>>

CloseNext ==
  /\ main = "close" /\ closed < Len(Closers)
  /\ closed' = closed + 1
  /\ UNCHANGED <<main, pings, cancelled, goroutines, timedOut, exitCode>>

(* pool.Close returns when every connection has come back; then run and    *)
(* main return, and what is still in progress is cut off.                  *)
Exit ==
  /\ main = "close" /\ closed = Len(Closers)
  /\ \A r \in HttpRequests : req[r] # "holding"
  /\ main' = "exited"
  /\ req' = [r \in HttpRequests |-> IF r \in InProgress THEN "cut" ELSE req[r]]
  /\ UNCHANGED <<pings, cancelled, http, worker, timedOut, closed, exitCode>>

-----------------------------------------------------------------------------
Main == \/ PingFails \/ Start
        \/ Shutdown \/ ShutdownReturns \/ ShutdownTimesOut
        \/ WaitGroupDone \/ CloseNext \/ Exit

Next ==
  \/ Signal \/ Main \/ Listen \/ HttpFails
  \/ \E w \in Workers : Begin(w) \/ Finish(w) \/ Leave(w)
  \/ \E r \in HttpRequests : Arrive(r) \/ Acquire(r) \/ Release(r) \/ Reply(r)

SafeSpec == Init /\ [][Next]_vars

(* main and the goroutines it started go on; select does not overlook a    *)
(* context that is done for ever; statements return, so that connections   *)
(* come back.  Nothing is assumed of clients: one that sends its request   *)
(* or reads its answer slowly may keep a request in progress for ever.     *)
Spec ==
  /\ SafeSpec
  /\ WF_vars(Main) /\ WF_vars(Listen)
  /\ \A w \in Workers : WF_vars(Finish(w)) /\ SF_vars(Leave(w))
  /\ \A r \in HttpRequests : WF_vars(Release(r))

-----------------------------------------------------------------------------
TypeOK ==
  /\ main \in {"waitDB", "serve", "shutdown", "wait", "close", "exited"}
  /\ pings \in 0..MaxPings
  /\ http \in {"off", "starting", "listening", "done"}
  /\ worker \in [Workers -> {"off", "idle", "busy", "done"}]
  /\ req \in [HttpRequests ->
       {"none", "active", "holding", "reply", "answered", "failed", "cut"}]
  /\ cancelled \in BOOLEAN /\ timedOut \in BOOLEAN
  /\ closed \in 0..Len(Closers)
  /\ exitCode \in 0..1

(* Relay and consumer never work with a producer, a reader or a pool that  *)
(* main has closed, and the process does not end under them.               *)
ClosedUnused ==
  \A w \in Workers : worker[w] \in {"idle", "busy"} =>
    Running /\ Uses[w] \cap Closed = {}

(* An accepted request is answered, whenever the service is stopped: only  *)
(* one that Shutdown has waited for in vain is refused a connection or     *)
(* cut off.                                                                *)
CutNeedsTimeout ==
  \A r \in HttpRequests : req[r] \in {"failed", "cut"} => timedOut

(* A service that is told to stop, or that has lost its HTTP server, does  *)
(* stop, whatever its clients do.                                          *)
EveryStopEnds == cancelled \/ http = "done" ~> main = "exited"

=============================================================================
