--------------------------- MODULE ResponseStream ---------------------------
(***************************************************************************)
(* The response streams of one Curl with the StreamResponse feature        *)
(* (src/lib/Curl.ts): the WRITEFUNCTION that creates a Readable and pauses *)
(* the transfer when nobody asked for data, the progress function that     *)
(* applies pauses and throws stream errors, the hooks on the Readable, and *)
(* the end of a request in two immediates.                                 *)
(*                                                                         *)
(* The requests of the Curl follow one another, but a stream lives on      *)
(* after its request, and its hooks keep writing to the same Curl.         *)
(*                                                                         *)
(* Of libcurl the code needs two things: a chunk answered with PAUSE is    *)
(* delivered again when the transfer is unpaused, and the progress         *)
(* function is called again and again, paused or not.                      *)
(***************************************************************************)
EXTENDS Integers, Sequences, FiniteSetsExt

CONSTANTS
  Requests,       \* the requests of one behavior, numbered in their order
  Nil,            \* no request, no stream
  HighWaterMark,  \* of the streams, and the size they ask for
  MaxChunk,       \* of what libcurl delivers at once (BUFFERSIZE)
  MaxBytes        \* bound on what the peers send in one behavior

ASSUME RequestsAreNumbered == Requests \subseteq Nat
ASSUME NilIsNothing == Nil \notin Requests
ASSUME SizesArePositive == HighWaterMark \in Nat \ {0} /\ {MaxChunk, MaxBytes} \subseteq Nat

VARIABLES
  \* Curl and its Easy; a stream is named by the request it belongs to
  isRunning, writeFunctionStream, streamPendingReadSize,
  streamError,          \* the stream whose destruction is to be thrown
  nextPauseFlags,       \* what the progress function is to apply
  isPausedRecv,         \* the Easy's pauseState
  cbProgressAborted,    \* isCbProgressAlreadyAborted
  immediates,           \* the queue of setImmediate
  \* requests and the transfer of the one that runs
  phase, event,
  sent, held, paused,   \* sent by the peer, kept by libcurl while paused
  overrun,              \* a chunk was larger than what its stream had asked for
  \* streams
  stream, buffered, pushed, reading, flowing,
  alive                 \* FALSE after an uncaught exception

curlVars     == <<isRunning, writeFunctionStream, streamPendingReadSize, streamError,
                  nextPauseFlags, isPausedRecv, cbProgressAborted>>
transferVars == <<sent, held, paused, overrun>>
streamVars   == <<stream, buffered, pushed, reading, flowing>>
writeVars    == <<streamPendingReadSize, buffered, pushed, reading, overrun>>
vars == <<curlVars, immediates, phase, event, transferVars, streamVars, alive>>

Init ==
  /\ isRunning = FALSE /\ writeFunctionStream = Nil /\ streamPendingReadSize = 0
  /\ streamError = Nil /\ nextPauseFlags = "none" /\ isPausedRecv = FALSE
  /\ cbProgressAborted = FALSE
  /\ immediates = <<>>
  /\ phase = [r \in Requests |-> "idle"]
  /\ event = [r \in Requests |-> "none"]
  /\ sent = [r \in Requests |-> 0] /\ held = 0 /\ paused = FALSE
  /\ overrun = [r \in Requests |-> FALSE]
  /\ stream = [r \in Requests |-> "none"]
  /\ buffered = [r \in Requests |-> 0] /\ pushed = [r \in Requests |-> 0]
  /\ reading = [r \in Requests |-> FALSE] /\ flowing = [r \in Requests |-> FALSE]
  /\ alive = TRUE

----------------------------------------------------------------------------
(* The transfer *)

\* A request with a connection: curl_easy_pause() works on it.
Connected(r) == phase[r] = "running"

\* The stream was handed to the user; "made" only says it exists.
Given(r) == stream[r] \in {"given", "ended"}

Perform(r) ==
  /\ alive /\ ~isRunning /\ phase[r] = "idle"
  /\ \A x \in Requests : x < r => phase[x] = "done"
  /\ isRunning' = TRUE
  /\ phase' = [phase EXCEPT ![r] = "running"]
  /\ held' = 0 /\ paused' = FALSE
  /\ UNCHANGED <<writeFunctionStream, streamPendingReadSize, streamError, nextPauseFlags,
                 isPausedRecv, cbProgressAborted, immediates, event, sent, overrun,
                 streamVars, alive>>

\* Easy::Reset between two requests.
ResetHandle ==
  /\ alive /\ ~isRunning
  /\ cbProgressAborted' = FALSE
  /\ UNCHANGED <<isRunning, writeFunctionStream, streamPendingReadSize, streamError,
                 nextPauseFlags, isPausedRecv, immediates, phase, event, transferVars,
                 streamVars, alive>>

\* PAUSE returned from WRITEFUNCTION: libcurl keeps the chunk.
Hold(size) == held' = size /\ paused' = TRUE /\ isPausedRecv' = TRUE

\* What the stream does with a chunk; a destroyed one drops it, also when the
\* chunk comes from the pause() of its own destroy() hook.
Push(size) ==
  LET w == writeFunctionStream IN
  IF stream'[w] = "destroyed" THEN UNCHANGED <<buffered, pushed, reading, overrun>>
  ELSE /\ buffered' = [buffered EXCEPT ![w] = @ + size]
       /\ pushed' = [pushed EXCEPT ![w] = @ + size]
       /\ reading' = [reading EXCEPT ![w] = FALSE]
       /\ overrun' = [overrun EXCEPT ![w] = @ \/ size > streamPendingReadSize]

\* [mutant] the chunk is written and the transfer paused.
PauseAfterWrite(size) ==
  /\ Hold(size)
  /\ IF streamPendingReadSize = 0
       THEN UNCHANGED writeVars
       ELSE /\ streamPendingReadSize' = streamPendingReadSize - size
            /\ Push(size)

\* The end of defaultWriteFunctionStreamBased, for an existing stream.
WriteToStream(size) ==
  IF streamPendingReadSize = 0
    THEN /\ Hold(size)
         /\ UNCHANGED writeVars
    ELSE /\ streamPendingReadSize' = streamPendingReadSize - size
         /\ Push(size)
         /\ held' = 0 /\ paused' = FALSE /\ isPausedRecv' = FALSE

\* The first chunk of a response makes the stream, which is emitted from an
\* immediate, and pauses.
FirstWrite(r, size) ==
  /\ writeFunctionStream = Nil
  /\ writeFunctionStream' = r
  /\ streamPendingReadSize' = 0
  /\ stream' = [stream EXCEPT ![r] = "made"]
  /\ immediates' = Append(immediates, <<"stream", r>>)
  /\ Hold(size)
  /\ UNCHANGED <<buffered, pushed, reading, overrun>>

NextWrite(size) ==
  /\ writeFunctionStream # Nil
  /\ UNCHANGED <<writeFunctionStream, stream, immediates>>
  /\ WriteToStream(size)

Sent == MapThenSumSet(LAMBDA r : sent[r], Requests)

Chunk(r, size) ==
  /\ alive /\ Connected(r) /\ ~paused
  /\ Sent + size <= MaxBytes
  /\ sent' = [sent EXCEPT ![r] = @ + size]
  /\ FirstWrite(r, size) \/ NextWrite(size)
  /\ UNCHANGED <<isRunning, streamError, nextPauseFlags, cbProgressAborted, phase, event,
                 flowing, alive>>

\* pause(pauseFlags & ~Recv): the chunk libcurl holds is delivered at once.
Unpause ==
  IF held = 0
    THEN /\ paused' = FALSE /\ isPausedRecv' = FALSE
         /\ UNCHANGED <<held, writeVars>>
    ELSE WriteToStream(held)

Pause ==
  /\ paused' = TRUE /\ isPausedRecv' = TRUE
  /\ UNCHANGED <<held, writeVars>>

KeepPause == UNCHANGED <<paused, isPausedRecv, held, writeVars>>

\* pause() without a connection: the Easy takes the flags, then it throws.
PauseThrows ==
  /\ isPausedRecv' = FALSE
  /\ UNCHANGED <<paused, held, writeVars>>

\* The promise is settled, its reaction queues the immediate.
Settle(r, how) ==
  /\ phase' = [phase EXCEPT ![r] = how]
  /\ immediates' = Append(immediates, <<"finalize", r>>)

\* [mutant] only what the hooks asked for is applied.
AppliesFlagsOnly ==
  \/ nextPauseFlags = "unpause" /\ Unpause
  \/ nextPauseFlags = "pause" /\ Pause
  \/ nextPauseFlags = "none" /\ KeepPause

\* The first half of streamModeProgressFunction.
AppliesPause ==
  \/ nextPauseFlags = "unpause" /\ Unpause
  \/ nextPauseFlags = "pause" /\ Pause
  \/ /\ nextPauseFlags = "none"
     /\ IF isPausedRecv /\ streamPendingReadSize # 0 THEN Unpause ELSE KeepPause

\* streamModeProgressFunction: what it throws makes the native callback abort
\* the transfer and remember that it did.
Progress(r) ==
  /\ alive /\ Connected(r) /\ ~cbProgressAborted
  /\ UNCHANGED stream
  /\ AppliesPause
  /\ nextPauseFlags' = "none"
  /\ IF streamError = Nil
       THEN UNCHANGED <<phase, immediates, cbProgressAborted>>
       ELSE /\ cbProgressAborted' = TRUE
            /\ Settle(r, "failed")
  /\ UNCHANGED <<isRunning, writeFunctionStream, streamError, event, sent, flowing,
                 alive>>

\* The latch of an earlier abort, or the network, ends the request.
Fails(r) ==
  /\ alive /\ Connected(r)
  /\ Settle(r, "failed")
  /\ UNCHANGED <<curlVars, event, transferVars, streamVars, alive>>

Completes(r) ==
  /\ alive /\ Connected(r)
  /\ held = 0 /\ ~paused
  /\ Settle(r, "complete")
  /\ UNCHANGED <<curlVars, event, transferVars, streamVars, alive>>

----------------------------------------------------------------------------
(* Immediates *)

ResetInternalState ==
  /\ isRunning' = FALSE /\ writeFunctionStream' = Nil /\ streamError' = Nil

Take(kind, r) ==
  /\ alive /\ immediates # <<>>
  /\ Head(immediates) = <<kind, r>>

EmitStream(r) ==
  /\ Take("stream", r)
  /\ immediates' = Tail(immediates)
  /\ stream' = [stream EXCEPT ![r] = "given"]
  /\ UNCHANGED <<curlVars, phase, event, transferVars, buffered, pushed,
                 reading, flowing, alive>>

\* [mutant] the state is reset and 'end' emitted before the stream is ended.
EndsAtOnce(r) ==
  /\ Take("finalize", r) /\ phase[r] = "complete"
  /\ immediates' = Tail(immediates)
  /\ ResetInternalState
  /\ event' = [event EXCEPT ![r] = "end"]
  /\ phase' = [phase EXCEPT ![r] = "done"]
  /\ UNCHANGED <<streamPendingReadSize, nextPauseFlags, isPausedRecv, cbProgressAborted,
                 transferVars, streamVars, alive>>

\* onEnd() ends the stream and leaves the rest to another immediate.  For a
\* response without a body it emits an empty stream of its own.
OnEnd(r) ==
  LET w == writeFunctionStream IN
  /\ Take("finalize", r) /\ phase[r] = "complete"
  /\ immediates' = Append(Tail(immediates), <<"end", r>>)
  /\ phase' = [phase EXCEPT ![r] = "closing"]
  /\ IF w # Nil /\ stream[w] # "destroyed"
       THEN stream' = [stream EXCEPT ![w] = "ended"]
       ELSE UNCHANGED stream
  /\ UNCHANGED <<curlVars, event, transferVars, buffered, pushed, reading,
                 flowing, alive>>

\* The callback of onEnd()'s setImmediate.
EmitEnd(r) ==
  /\ Take("end", r)
  /\ immediates' = Tail(immediates)
  /\ ResetInternalState
  /\ event' = [event EXCEPT ![r] = "end"]
  /\ phase' = [phase EXCEPT ![r] = "done"]
  /\ UNCHANGED <<streamPendingReadSize, nextPauseFlags, isPausedRecv, cbProgressAborted,
                 transferVars, streamVars, alive>>

\* onError() leaves the stream as it is.
OnError(r) ==
  /\ Take("finalize", r) /\ phase[r] = "failed"
  /\ immediates' = Tail(immediates)
  /\ ResetInternalState
  /\ event' = [event EXCEPT ![r] = "error"]
  /\ phase' = [phase EXCEPT ![r] = "done"]
  /\ UNCHANGED <<streamPendingReadSize, nextPauseFlags, isPausedRecv, cbProgressAborted,
                 transferVars, streamVars, alive>>

----------------------------------------------------------------------------
(* The Readable and its user *)

\* _read(): Node asks once per chunk, while the buffer is below the mark.
Read(r) ==
  /\ alive /\ stream[r] = "given"
  /\ ~reading[r] /\ buffered[r] < HighWaterMark
  /\ reading' = [reading EXCEPT ![r] = TRUE]
  /\ streamPendingReadSize' = streamPendingReadSize + HighWaterMark
  /\ nextPauseFlags' = IF isPausedRecv /\ isRunning THEN "unpause" ELSE nextPauseFlags
  /\ UNCHANGED <<isRunning, writeFunctionStream, streamError, isPausedRecv,
                 cbProgressAborted, immediates, phase, event, transferVars,
                 stream, buffered, pushed, flowing, alive>>

Consume(r) ==
  /\ alive /\ Given(r) /\ buffered[r] > 0
  /\ buffered' = [buffered EXCEPT ![r] = 0]
  /\ UNCHANGED <<curlVars, immediates, phase, event, transferVars, stream,
                 pushed, reading, flowing, alive>>

PauseEvent(r) ==
  /\ alive /\ Given(r) /\ flowing[r]
  /\ flowing' = [flowing EXCEPT ![r] = FALSE]
  /\ nextPauseFlags' = "pause"
  /\ UNCHANGED <<isRunning, writeFunctionStream, streamPendingReadSize, streamError,
                 isPausedRecv, cbProgressAborted, immediates, phase, event, transferVars,
                 stream, buffered, pushed, reading, alive>>

\* pause() throws when the transfer that runs has no connection any more, and
\* nothing catches what the 'resume' listener throws.
ResumeEvent(r) ==
  /\ alive /\ Given(r) /\ ~flowing[r]
  /\ flowing' = [flowing EXCEPT ![r] = TRUE]
  /\ UNCHANGED stream
  /\ IF ~isRunning THEN KeepPause
     ELSE IF \E x \in Requests : Connected(x) THEN Unpause
     ELSE PauseThrows
  /\ alive' = (isRunning => \E x \in Requests : Connected(x))
  /\ UNCHANGED <<isRunning, writeFunctionStream, streamError, nextPauseFlags,
                 cbProgressAborted, immediates, phase, event, sent>>

\* The destroy() hook of the stream; a pause() that throws is caught.
DestroyHook(r) ==
  /\ stream' = [stream EXCEPT ![r] = "destroyed"]
  /\ flowing' = [flowing EXCEPT ![r] = FALSE]
  /\ streamError' = r
  /\ IF ~(isRunning /\ isPausedRecv) THEN KeepPause
     ELSE IF \E x \in Requests : Connected(x) THEN Unpause
     ELSE PauseThrows
  /\ UNCHANGED <<isRunning, writeFunctionStream, nextPauseFlags, cbProgressAborted,
                 immediates, phase, event, sent, alive>>

\* stream.destroy() called by the user.
Destroy(r) == alive /\ Given(r) /\ DestroyHook(r)

\* autoDestroy: the user has read the stream to its end.
AutoDestroy(r) == alive /\ stream[r] = "ended" /\ buffered[r] = 0 /\ DestroyHook(r)

----------------------------------------------------------------------------
\* setStreamResponseHighWaterMark() sets BUFFERSIZE to the mark, but not below
\* 1024: a chunk may be larger than the mark.
Sizes == 1..MaxChunk

TransferStep(r) ==
  \/ Perform(r)
  \/ \E size \in Sizes : Chunk(r, size)
  \/ Progress(r)
  \/ Fails(r)
  \/ Completes(r)

Immediate(r) == EmitStream(r) \/ OnEnd(r) \/ EmitEnd(r) \/ OnError(r)

StreamStep(r) ==
  \/ Read(r)
  \/ Consume(r)
  \/ PauseEvent(r)
  \/ ResumeEvent(r)
  \/ Destroy(r)
  \/ AutoDestroy(r)

Next ==
  \/ \E r \in Requests : TransferStep(r) \/ Immediate(r) \/ StreamStep(r)
  \/ ResetHandle

Spec == Init /\ [][Next]_vars

\* The loop runs its immediates, libcurl calls the progress function and sees
\* the end of a transfer it is not kept from, and users read what they got.
Fairness ==
  /\ WF_vars(\E r \in Requests : Immediate(r))
  /\ WF_vars(\E r \in Requests : Progress(r))
  /\ WF_vars(\E r \in Requests : cbProgressAborted /\ Fails(r))
  /\ SF_vars(\E r \in Requests : Completes(r))
  /\ \A r \in Requests : WF_vars(Read(r)) /\ WF_vars(Consume(r))

FairSpec == Spec /\ Fairness

----------------------------------------------------------------------------
(* Properties *)

\* Values stay in their ranges, and libcurl keeps a chunk only while paused.
TypeOK ==
  /\ isRunning \in BOOLEAN
  /\ writeFunctionStream \in Requests \cup {Nil}
  /\ streamPendingReadSize \in Int
  /\ streamError \in Requests \cup {Nil}
  /\ nextPauseFlags \in {"none", "pause", "unpause"}
  /\ isPausedRecv \in BOOLEAN /\ cbProgressAborted \in BOOLEAN
  /\ immediates \in Seq({"stream", "finalize", "end"} \X Requests)
  /\ phase \in [Requests -> {"idle", "running", "complete", "failed", "closing", "done"}]
  /\ event \in [Requests -> {"none", "end", "error"}]
  /\ sent \in [Requests -> Nat]
  /\ held \in 0..MaxChunk /\ paused \in BOOLEAN
  /\ overrun \in [Requests -> BOOLEAN]
  /\ stream \in [Requests -> {"none", "made", "given", "ended", "destroyed"}]
  /\ buffered \in [Requests -> Nat]
  /\ pushed \in [Requests -> Nat]
  /\ reading \in [Requests -> BOOLEAN]
  /\ flowing \in [Requests -> BOOLEAN]
  /\ alive \in BOOLEAN
  /\ held > 0 => paused

\* A stream gets what the peer sent, once and completely, through all pauses
\* and the chunk libcurl delivers again after each (Curl.ts:1107-1132), also
\* while the stream of an earlier request still pauses and resumes the Curl.
StreamIntegrity ==
  /\ TypeOK
  /\ \A r \in Requests :
       /\ writeFunctionStream = r /\ stream[r] # "destroyed" => pushed[r] + held = sent[r]
       /\ stream[r] = "ended" => pushed[r] = sent[r]

\* When 'end' is emitted the response stream was handed over and is ended, or
\* was destroyed: the consumer never waits for a stream of a finished request.
EndedBeforeEnd ==
  \A r \in Requests :
    event[r] = "end" /\ sent[r] > 0 => stream[r] \in {"ended", "destroyed"}

\* A response whose stream exists is completed or fails.  However pauses, reads,
\* resumes and the destruction of streams interleave, the transfer is not left
\* paused with its reader waiting, not even by the stream of an earlier request;
\* except after a chunk larger than what the stream had asked for, see WaitingReaderServed.
StreamedRequestsEnd ==
  \A r \in Requests :
    (phase[r] = "running" /\ stream[r] # "none")
      ~> (phase[r] = "done" \/ overrun[r] \/ ~alive)

----------------------------------------------------------------------------
(* What the documentation says and the code does not do *)

\* streams.spec.ts, "works for uploading and downloading with highWaterMark:
\* $highWaterMark", for slow readers too: a stream that waits for data gets the
\* chunk libcurl keeps for it, unless its user pauses it or the request ends.
WaitingReaderServed ==
  \A r \in Requests :
    (writeFunctionStream = r /\ reading[r] /\ held > 0)
      ~> (~reading[r] \/ nextPauseFlags = "pause" \/ phase[r] = "done" \/ ~alive)
=============================================================================
