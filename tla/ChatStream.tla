----------------------------- MODULE ChatStream -----------------------------
(***************************************************************************)
(* One POST /chat of llm-ms: the answer of the language model is passed on *)
(* to the client as server-sent events.                                    *)
(*                                                                         *)
(* A goroutine (the pump, newClaudeStream) reads the SDK's stream and puts *)
(* the chunks of text into a bounded channel; the HTTP handler takes them  *)
(* out (claudeStream.Next) and writes them.  The pump reports an error on  *)
(* a second channel and closes both when it ends.  Two contexts stop them: *)
(* the request's, and the stream's own, which Close cancels.               *)
(***************************************************************************)
EXTENDS Naturals, Sequences

CONSTANTS
  Total,      \* chunks of text in the whole answer
  Capacity    \* of the channel of chunks

ASSUME StreamAssumption == Total \in Nat /\ Capacity \in Nat \ {0}

VARIABLES
  provider,      \* the language model: sending, finished or broken
  available,     \* chunks it has sent
  taken,         \* chunks the pump has read
  chunks,        \* the channel cs.chunks ...
  chunksClosed,  \* ... and whether it is closed
  errors,        \* the number of errors in cs.errCh ...
  errClosed,     \* ... and whether it is closed
  cancelled,     \* the stream's context
  live,          \* the request's context has not been cancelled
  left,          \* the client went away, or the request ran into its timeout
  pump,          \* where the pump is
  reader,        \* where the HTTP handler is
  written,       \* the chunks written to the client
  result         \* the closing event: done, error or none so far

model == <<provider, available>>
channels == <<chunks, chunksClosed, errors, errClosed>>
request == <<cancelled, live, left>>
output == <<written, result>>
vars == <<model, taken, channels, request, pump, reader, output>>

Init ==
  /\ provider = "sending" /\ available = 0 /\ taken = 0
  /\ chunks = << >> /\ chunksClosed = FALSE
  /\ errors = 0 /\ errClosed = FALSE
  /\ cancelled = FALSE /\ live = TRUE /\ left = FALSE
  /\ pump = "next" /\ reader = "next"
  /\ written = << >> /\ result = "none"

-----------------------------------------------------------------------------
(***************************************************************************)
(* The language model, and the client.                                     *)
(***************************************************************************)
ProviderSends ==
  /\ provider = "sending"
  /\ available < Total
  /\ available' = available + 1
  /\ UNCHANGED <<provider, taken, channels, request, pump, reader, output>>

ProviderEnds ==
  /\ provider = "sending"
  /\ \/ available = Total /\ provider' = "finished"
     \/ provider' = "broken"
  /\ UNCHANGED <<available, taken, channels, request, pump, reader, output>>

Leave ==
  /\ reader # "ended"
  /\ ~left
  /\ live' = FALSE /\ left' = TRUE
  /\ UNCHANGED <<model, taken, channels, cancelled, pump, reader, output>>

-----------------------------------------------------------------------------
(***************************************************************************)
(* The pump.                                                               *)
(***************************************************************************)
(* sdkStream.Next is true: there is another chunk.  Events without text    *)
(* are skipped and leave everything as it is.                              *)
PumpNext ==
  /\ pump = "next"
  /\ taken < available
  /\ taken' = taken + 1
  /\ pump' = "check"
  /\ UNCHANGED <<model, channels, request, reader, output>>

(* sdkStream.Next is false: the answer is complete, the connection broke,  *)
(* or the request's context, which the SDK was given, is cancelled.        *)
PumpStop ==
  /\ pump = "next"
  /\ \/ provider = "finished" /\ taken = available /\ pump' = "close"
     \/ provider = "broken" /\ taken = available /\ pump' = "fail"
     \/ ~live /\ pump' = "fail"
  /\ UNCHANGED <<model, taken, channels, request, reader, output>>

(* select { case <-ctx.Done(): return; default: } *)
PumpCheck ==
  /\ pump = "check"
  /\ pump' = IF cancelled THEN "close" ELSE "send"
  /\ UNCHANGED <<model, taken, channels, request, reader, output>>

(* Mutant: select with a default branch, which drops the chunk. *)
PumpSend_Drop ==
  /\ pump = "send"
  /\ chunks' = IF Len(chunks) < Capacity THEN Append(chunks, taken) ELSE chunks
  /\ pump' = "next"
  /\ UNCHANGED <<model, taken, chunksClosed, errors, errClosed, request, reader, output>>

(* select { case cs.chunks <- text: case <-ctx.Done(): return } *)
PumpSend ==
  /\ pump = "send"
  /\ Len(chunks) < Capacity
  /\ chunks' = Append(chunks, taken)
  /\ pump' = "next"
  /\ UNCHANGED <<model, taken, chunksClosed, errors, errClosed, request, reader, output>>

(* Mutant: the chunk is sent without a select. *)
PumpQuit_Never == FALSE /\ UNCHANGED vars

PumpQuit ==
  /\ pump = "send"
  /\ cancelled
  /\ pump' = "close"
  /\ UNCHANGED <<model, taken, channels, request, reader, output>>

(* Mutant: the loop goes on after an error. *)
PumpFail_GoesOn ==
  /\ pump = "fail"
  /\ errors' = errors + 1
  /\ pump' = "next"
  /\ UNCHANGED <<model, taken, chunks, chunksClosed, errClosed, request, reader, output>>

(* cs.errCh <- err; the channel has room for one. *)
PumpFail ==
  /\ pump = "fail"
  /\ errors < 1
  /\ errors' = errors + 1
  /\ pump' = "close"
  /\ UNCHANGED <<model, taken, chunks, chunksClosed, errClosed, request, reader, output>>

(* The deferred calls run in reverse order: close(cs.errCh) first. *)
PumpCloseErr ==
  /\ pump = "close"
  /\ errClosed' = TRUE
  /\ pump' = "closeChunks"
  /\ UNCHANGED <<model, taken, chunks, chunksClosed, errors, request, reader, output>>

(* Mutant: cs.chunks is never closed. *)
PumpCloseChunks_Not ==
  /\ pump = "closeChunks"
  /\ pump' = "ended"
  /\ UNCHANGED <<model, taken, channels, request, reader, output>>

PumpCloseChunks ==
  /\ pump = "closeChunks"
  /\ chunksClosed' = TRUE
  /\ pump' = "ended"
  /\ UNCHANGED <<model, taken, chunks, errors, errClosed, request, reader, output>>

-----------------------------------------------------------------------------
(***************************************************************************)
(* The HTTP handler: the loop of Chat and claudeStream.Next.               *)
(***************************************************************************)
Read ==
  /\ reader = "next"
  /\ chunks # << >>
  /\ written' = Append(written, Head(chunks))
  /\ chunks' = Tail(chunks)
  /\ UNCHANGED <<model, taken, chunksClosed, errors, errClosed, request, pump, reader, result>>

ReadClosed ==
  /\ reader = "next"
  /\ chunks = << >> /\ chunksClosed
  /\ reader' = "closed"
  /\ UNCHANGED <<model, taken, channels, request, pump, output>>

(* Chat writes the closing event and returns: stream.Close cancels the     *)
(* stream's context, and net/http cancels the request's.                   *)
Finish(r) ==
  /\ result' = r
  /\ reader' = "ended"
  /\ cancelled' = TRUE /\ live' = FALSE
  /\ UNCHANGED <<model, taken, chunks, chunksClosed, errClosed, left, pump, written>>

(* Mutant: the end of the channel is taken for the end of the answer. *)
ReadError_Unread ==
  /\ reader = "closed"
  /\ Finish("done")
  /\ UNCHANGED errors

ReadError ==
  /\ reader = "closed"
  /\ Finish(IF errors > 0 THEN "error" ELSE "done")
  /\ errors' = IF errors > 0 THEN errors - 1 ELSE errors

(* case <-ctx.Done(): may be chosen although a chunk waits. *)
ReadCancelled ==
  /\ reader = "next"
  /\ ~live
  /\ Finish("error")
  /\ UNCHANGED errors

-----------------------------------------------------------------------------
PumpStep ==
  \/ PumpNext \/ PumpStop \/ PumpCheck \/ PumpSend \/ PumpQuit
  \/ PumpFail \/ PumpCloseErr \/ PumpCloseChunks
ReaderStep == Read \/ ReadClosed \/ ReadError \/ ReadCancelled

Next == ProviderSends \/ ProviderEnds \/ Leave \/ PumpStep \/ ReaderStep

SafeSpec == Init /\ [][Next]_vars

(* The two goroutines run.  The language model may stop sending, and the   *)
(* client may stay, for as long as they like.                              *)
Spec == SafeSpec /\ WF_vars(PumpStep) /\ WF_vars(ReaderStep)

-----------------------------------------------------------------------------
PumpStates == {"next", "check", "send", "fail", "close", "closeChunks", "ended"}

TypeOK ==
  /\ provider \in {"sending", "finished", "broken"}
  /\ available \in 0..Total /\ taken \in 0..available
  /\ chunks \in Seq(1..Total) /\ Len(chunks) <= Capacity
  /\ errors \in 0..1
  /\ {chunksClosed, errClosed, cancelled, live, left} \subseteq BOOLEAN
  /\ pump \in PumpStates
  /\ reader \in {"next", "closed", "ended"}
  /\ written \in Seq(1..Total)
  /\ result \in {"none", "done", "error"}

(* The client gets the beginning of the answer without a gap, and until    *)
(* the stream is closed all that was read is written or on its way.        *)
NothingIsLost ==
  LET sent == written \o chunks
      onItsWay == IF pump \in {"check", "send"} THEN 1 ELSE 0 IN
  /\ \A i \in DOMAIN sent : sent[i] = i
  /\ ~cancelled => Len(sent) + onItsWay = taken

(* The answer is called done only when the client has all of it, although  *)
(* the end of the stream and its error come through different channels.    *)
DoneMeansComplete ==
  result = "done" => provider = "finished" /\ Len(written) = Total

(* When the language model has finished or broken off, the client is told  *)
(* so in the end.                                                          *)
EveryChatEnds == provider # "sending" ~> result # "none"

(* When the request is over, also because the client went away, the pump   *)
(* ends: it does not wait for room in a channel that nobody reads.         *)
NoPumpIsLeft == reader = "ended" ~> pump = "ended"

=============================================================================
