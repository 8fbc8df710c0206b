-------------------------- MODULE ChatStreamProofs ---------------------------
(***************************************************************************)
(* Proofs about ChatStream: no chunk is lost or reordered, and an answer   *)
(* that is called done is complete, for any length and capacity.           *)
(***************************************************************************)
EXTENDS ChatStream, TLAPS

Sent == written \o chunks

(* While the pump is in its loop, what it has read has been sent, but for  *)
(* the chunk in its hands; only a cancelled pump leaves the loop with one. *)
LoopInv ==
  /\ \A i \in 1..Len(Sent) : Sent[i] = i
  /\ pump \in {"check", "send"} => Len(Sent) + 1 = taken
  /\ pump \in {"next", "fail"} \/ (~cancelled /\ pump \notin {"check", "send"}) =>
       Len(Sent) = taken

(* What the reader knows when it is done: the pump has closed both         *)
(* channels, and without an error it has read the whole answer.            *)
EndInv ==
  /\ provider = "finished" => available = Total
  /\ chunksClosed => pump = "ended"
  /\ pump \in {"close", "closeChunks", "ended"} /\ ~cancelled /\ errors = 0 =>
       provider = "finished" /\ taken = Total
  /\ reader = "closed" => chunks = << >> /\ chunksClosed
  /\ reader # "ended" => ~cancelled /\ result = "none"
  /\ DoneMeansComplete

IInv == TypeOK /\ LoopInv /\ EndInv

-----------------------------------------------------------------------------
(* The part of TypeOK about Boolean variables. *)
Flags == {chunksClosed, errClosed, cancelled, live, left} \subseteq BOOLEAN

LEMMA FlagsKept ==
  ASSUME Flags, [Next]_vars
  PROVE  Flags'
<1> USE DEF Flags, channels, request, model, output
<1>1. CASE ProviderSends \/ ProviderEnds \/ Leave
  BY <1>1, Zenon DEF ProviderSends, ProviderEnds, Leave
<1>2. CASE PumpNext \/ PumpStop \/ PumpCheck \/ PumpSend \/ PumpQuit
  BY <1>2, Zenon DEF PumpNext, PumpStop, PumpCheck, PumpSend, PumpQuit
<1>3. CASE PumpFail \/ PumpCloseErr \/ PumpCloseChunks
  BY <1>3, Zenon DEF PumpFail, PumpCloseErr, PumpCloseChunks
<1>4. CASE ReaderStep
  BY <1>4, Zenon DEF ReaderStep, Read, ReadClosed, ReadError, ReadCancelled, Finish
<1>5. CASE UNCHANGED vars
  BY <1>5, Zenon DEF vars
<1> QED
  BY <1>1, <1>2, <1>3, <1>4, <1>5 DEF Next, PumpStep

LEMMA SendAppends ==
  ASSUME NEW S, NEW s \in Seq(S), NEW t \in Seq(S), NEW x \in S
  PROVE  /\ Append(t, x) \in Seq(S)
         /\ Len(s \o Append(t, x)) = Len(s \o t) + 1
         /\ \A i \in 1..Len(s \o t) : (s \o Append(t, x))[i] = (s \o t)[i]
         /\ (s \o Append(t, x))[Len(s \o t) + 1] = x
OBVIOUS

LEMMA ReadMoves ==
  ASSUME NEW S, NEW s \in Seq(S), NEW t \in Seq(S), t # << >>
  PROVE  /\ Append(s, Head(t)) \in Seq(S) /\ Tail(t) \in Seq(S)
         /\ Len(Tail(t)) = Len(t) - 1 /\ Len(t) \in Nat
         /\ Append(s, Head(t)) \o Tail(t) = s \o t
<1>1. Append(s, Head(t)) \in Seq(S) /\ Tail(t) \in Seq(S) /\ Len(Tail(t)) = Len(t) - 1
  OBVIOUS
<1>2. Len(Append(s, Head(t)) \o Tail(t)) = Len(s \o t)
  BY <1>1
<1>3. \A i \in 1..Len(s \o t) : (Append(s, Head(t)) \o Tail(t))[i] = (s \o t)[i]
  BY <1>1
<1> QED
  BY <1>1, <1>2, <1>3

LEMMA SentType ==
  ASSUME TypeOK
  PROVE  /\ Sent \in Seq(1..Total)
         /\ Len(Sent) = Len(written) + Len(chunks)
         /\ Len(Sent) \in Nat /\ Len(written) \in Nat /\ Len(chunks) \in Nat
BY DEF TypeOK, Sent

-----------------------------------------------------------------------------
LEMMA Kept == IInv /\ [Next]_vars => IInv'
<1> SUFFICES ASSUME IInv, [Next]_vars PROVE IInv'
  OBVIOUS
<1> USE StreamAssumption DEF IInv, model, channels, request, output
<1>0. Flags'
  BY FlagsKept DEF TypeOK, Flags
<1>1. ASSUME UNCHANGED <<chunks, written>> PROVE Sent' = Sent
  BY <1>1 DEF Sent
<1>2. CASE ProviderSends \/ ProviderEnds \/ Leave
  <2>1. TypeOK'
    BY <1>2, <1>0 DEF TypeOK, Flags, ProviderSends, ProviderEnds, Leave
  <2>2. LoopInv'
    BY <1>1, <1>2 DEF LoopInv, ProviderSends, ProviderEnds, Leave
  <2>3. EndInv'
    BY <1>2 DEF TypeOK, EndInv, DoneMeansComplete, ProviderSends, ProviderEnds, Leave
  <2> QED
    BY <2>1, <2>2, <2>3
<1>3. CASE PumpNext
  <2>1. TypeOK'
    BY <1>3 DEF TypeOK, PumpNext, PumpStates
  <2>2. LoopInv'
    BY <1>1, <1>3, SentType DEF TypeOK, LoopInv, PumpNext
  <2>3. EndInv'
    BY <1>3 DEF EndInv, DoneMeansComplete, PumpNext
  <2> QED
    BY <2>1, <2>2, <2>3
<1>4. CASE PumpStop \/ PumpCheck \/ PumpQuit
  <2>1. TypeOK'
    BY <1>4 DEF TypeOK, PumpStop, PumpCheck, PumpQuit, PumpStates
  <2>2. LoopInv'
    BY <1>1, <1>4 DEF LoopInv, PumpStop, PumpCheck, PumpQuit
  <2>3. EndInv'
    BY <1>4 DEF EndInv, DoneMeansComplete, PumpStop, PumpCheck, PumpQuit
  <2> QED
    BY <2>1, <2>2, <2>3
<1>5. CASE PumpSend
  <2>1. taken \in 1..Total /\ Len(Sent) + 1 = taken
    BY <1>5, SentType DEF TypeOK, LoopInv, PumpSend
  <2>2. /\ chunks' \in Seq(1..Total)
        /\ Len(Sent') = taken
        /\ \A i \in 1..Len(Sent) : Sent'[i] = Sent[i]
        /\ Sent'[taken] = taken
    BY <1>5, <2>1, SendAppends DEF TypeOK, Sent, PumpSend
  <2>3. TypeOK'
    BY <1>5, <2>2 DEF TypeOK, PumpSend, PumpStates
  <2>4. LoopInv'
    BY <1>5, <2>1, <2>2, SentType DEF LoopInv, PumpSend
  <2>5. EndInv'
    BY <1>5 DEF EndInv, DoneMeansComplete, PumpSend
  <2> QED
    BY <2>3, <2>4, <2>5
<1>6. CASE PumpFail \/ PumpCloseErr \/ PumpCloseChunks
  <2>1. TypeOK'
    <3>1. errors' \in 0..1 /\ pump' \in PumpStates
      BY <1>6 DEF TypeOK, PumpFail, PumpCloseErr, PumpCloseChunks, PumpStates
    <3>2. UNCHANGED <<model, taken, chunks, reader, output>>
      BY <1>6 DEF PumpFail, PumpCloseErr, PumpCloseChunks
    <3> QED
      BY <1>0, <3>1, <3>2 DEF TypeOK, Flags
  <2>2. LoopInv'
    BY <1>1, <1>6 DEF LoopInv, PumpFail, PumpCloseErr, PumpCloseChunks
  <2>3. EndInv'
    BY <1>6 DEF TypeOK, EndInv, DoneMeansComplete, PumpFail, PumpCloseErr, PumpCloseChunks
  <2> QED
    BY <2>1, <2>2, <2>3
<1>7. CASE Read
  <2>1. /\ written' \in Seq(1..Total) /\ chunks' \in Seq(1..Total)
        /\ Len(chunks') <= Capacity
        /\ Sent' = Sent
    <3>1. /\ written \in Seq(1..Total) /\ chunks \in Seq(1..Total) /\ chunks # << >>
          /\ written' = Append(written, Head(chunks)) /\ chunks' = Tail(chunks)
          /\ Len(chunks) <= Capacity
      BY <1>7 DEF TypeOK, Read
    <3>2. /\ Append(written, Head(chunks)) \in Seq(1..Total)
          /\ Tail(chunks) \in Seq(1..Total)
          /\ Len(Tail(chunks)) = Len(chunks) - 1 /\ Len(chunks) \in Nat
          /\ Append(written, Head(chunks)) \o Tail(chunks) = written \o chunks
      BY <3>1, ReadMoves
    <3>3. Len(Tail(chunks)) <= Capacity
      BY <3>1, <3>2
    <3>4. Sent' = Sent
      BY <3>1, <3>2, Zenon DEF Sent
    <3> QED
      BY <3>1, <3>2, <3>3, <3>4, Zenon
  <2>2. TypeOK'
    BY <1>7, <2>1 DEF TypeOK, Read
  <2>3. LoopInv'
    BY <1>7, <2>1 DEF LoopInv, Read
  <2>4. EndInv'
    BY <1>7 DEF EndInv, DoneMeansComplete, Read
  <2> QED
    BY <2>2, <2>3, <2>4
<1>8. CASE ReadClosed
  <2>1. TypeOK'
    BY <1>8 DEF TypeOK, ReadClosed
  <2>2. LoopInv'
    BY <1>1, <1>8 DEF LoopInv, ReadClosed
  <2>3. EndInv'
    BY <1>8 DEF EndInv, DoneMeansComplete, ReadClosed
  <2> QED
    BY <2>1, <2>2, <2>3
<1>9. CASE ReadError
  <2>1. TypeOK'
    <3>1. errors' \in 0..1 /\ reader' = "ended" /\ result' \in {"none", "done", "error"}
      BY <1>9 DEF TypeOK, ReadError, Finish
    <3>2. UNCHANGED <<model, taken, chunks, pump, written>>
      BY <1>9 DEF ReadError, Finish
    <3> QED
      BY <1>0, <3>1, <3>2 DEF TypeOK, Flags
  <2>2. LoopInv'
    BY <1>1, <1>9 DEF LoopInv, ReadError, Finish
  <2>3. errors = 0 => provider = "finished" /\ Len(written) = Total
    \* The pump has ended without an error, and the channel is empty.
    BY <1>9, SentType DEF TypeOK, LoopInv, EndInv, ReadError
  <2>4. EndInv'
    BY <1>9, <2>3 DEF TypeOK, EndInv, DoneMeansComplete, ReadError, Finish
  <2> QED
    BY <2>1, <2>2, <2>4
<1>10. CASE ReadCancelled
  <2>1. TypeOK'
    BY <1>10 DEF TypeOK, ReadCancelled, Finish
  <2>2. LoopInv'
    BY <1>1, <1>10 DEF LoopInv, ReadCancelled, Finish
  <2>3. EndInv'
    BY <1>10 DEF EndInv, DoneMeansComplete, ReadCancelled, Finish
  <2> QED
    BY <2>1, <2>2, <2>3
<1>11. CASE UNCHANGED vars
  <2>1. TypeOK' /\ EndInv'
    BY <1>11 DEF vars, TypeOK, EndInv, DoneMeansComplete
  <2>2. LoopInv'
    BY <1>1, <1>11 DEF vars, LoopInv
  <2> QED
    BY <2>1, <2>2
<1> QED
  BY <1>2, <1>3, <1>4, <1>5, <1>6, <1>7, <1>8, <1>9, <1>10, <1>11
     DEF Next, PumpStep, ReaderStep

LEMMA Inductive == SafeSpec => []IInv
<1>1. Init => TypeOK
  <2> SUFFICES ASSUME Init PROVE TypeOK
    OBVIOUS
  <2>1. Flags
    BY Zenon DEF Init, Flags
  <2>2. /\ available \in 0..Total /\ taken \in 0..available
        /\ errors \in 0..1 /\ Len(chunks) <= Capacity
    BY StreamAssumption DEF Init
  <2>3. chunks \in Seq(1..Total) /\ written \in Seq(1..Total)
    BY DEF Init
  <2>4. /\ provider = "sending" /\ pump = "next" /\ reader = "next" /\ result = "none"
    BY DEF Init
  <2> QED
    BY <2>1, <2>2, <2>3, <2>4 DEF TypeOK, Flags, PumpStates
<1>2. Init => LoopInv /\ EndInv
  BY DEF Init, LoopInv, EndInv, DoneMeansComplete, Sent
<1> QED
  BY <1>1, <1>2, Kept, PTL DEF IInv, SafeSpec

-----------------------------------------------------------------------------
(* Every variable of ChatStream keeps its type; the channel of chunks      *)
(* never holds more than its capacity.                                     *)
THEOREM TypeCorrect == SafeSpec => []TypeOK
  BY Inductive, PTL DEF IInv

(* The client gets the beginning of the answer without a gap, in order.    *)
THEOREM ChunksAreKept == SafeSpec => []NothingIsLost
<1>1. IInv => NothingIsLost
  <2> SUFFICES ASSUME IInv PROVE NothingIsLost
    OBVIOUS
  <2>1. \A i \in DOMAIN Sent : Sent[i] = i
    BY SentType DEF IInv, LoopInv
  <2>2. ~cancelled => Len(Sent) + (IF pump \in {"check", "send"} THEN 1 ELSE 0) = taken
    BY SentType DEF IInv, LoopInv
  <2> QED
    BY <2>1, <2>2 DEF NothingIsLost, Sent
<1> QED
  BY <1>1, Inductive, PTL

(* An answer the client is told to be done is the whole answer.            *)
THEOREM DoneIsComplete == SafeSpec => []DoneMeansComplete
<1>1. IInv => DoneMeansComplete
  BY DEF IInv, EndInv
<1> QED
  BY <1>1, Inductive, PTL

=============================================================================
