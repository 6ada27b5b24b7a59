------------------------ MODULE ResponseStreamProofs ------------------------
(***************************************************************************)
(* Proofs about ResponseStream, for every number of requests and all sizes *)
(* of chunks and marks.                                                    *)
(***************************************************************************)
EXTENDS ResponseStream, SequenceTheorems, TLAPS

----------------------------------------------------------------------------
(* The inductive invariant *)

InFlight(r) == phase[r] \in {"running", "complete", "failed", "closing"}

\* Requests follow one another, and the Curl is busy while one is in flight.
Ordered ==
  /\ \A r, x \in Requests : phase[r] # "idle" /\ x < r => phase[x] = "done"
  /\ \A r \in Requests : InFlight(r) => isRunning
  /\ isRunning => \E r \in Requests : InFlight(r)

\* The immediate that hands the stream over comes before the one that ends the
\* request, and that one before the one that emits 'end'.
Handing(r) == IF stream[r] = "made" THEN << <<"stream", r>> >> ELSE << >>

Queued(r) ==
  /\ phase[r] = "running" => immediates = Handing(r)
  /\ phase[r] \in {"complete", "failed"} => immediates = Append(Handing(r), <<"finalize", r>>)
  /\ phase[r] = "closing" => immediates = << <<"end", r>> >>

Idle == ~isRunning => immediates = << >> /\ writeFunctionStream = Nil

\* The stream the chunks are written to is the one of the request in flight, and
\* exists as soon as the peer sent something.
Writing(r) ==
  InFlight(r) =>
    /\ writeFunctionStream \in {Nil, r}
    /\ writeFunctionStream = Nil => stream[r] = "none" /\ sent[r] = 0 /\ held = 0
    /\ writeFunctionStream = r =>
         stream[r] # "none" /\ (stream[r] # "destroyed" => pushed[r] + held = sent[r])
    /\ phase[r] \in {"complete", "closing"} => held = 0
    /\ phase[r] = "closing" => stream[r] \in {"none", "ended", "destroyed"}

\* What the stream of a request went through, by the phase of the request.
Lived(r) ==
  /\ stream[r] = "none" => pushed[r] = 0
  /\ phase[r] = "idle" => stream[r] = "none" /\ sent[r] = 0
  /\ stream[r] = "made" => phase[r] \in {"running", "complete", "failed"}
  /\ stream[r] = "ended" => phase[r] \in {"closing", "done"} /\ pushed[r] = sent[r]
  /\ event[r] = "end" =>
       phase[r] = "done" /\ (sent[r] > 0 => stream[r] \in {"ended", "destroyed"})

IInv ==
  /\ TypeOK /\ Ordered /\ Idle
  /\ \A r \in Requests : Queued(r) /\ Writing(r) /\ Lived(r)

----------------------------------------------------------------------------
(* Lemmas *)

\* Only one request is in flight, and the stream that is written to is its own.
LEMMA OneInFlight ==
  ASSUME IInv
  PROVE  /\ \A r, x \in Requests : InFlight(r) /\ InFlight(x) => r = x
         /\ \A r, x \in Requests : InFlight(r) /\ phase[x] # "idle" => phase[x] = "done" \/ x = r
         /\ writeFunctionStream # Nil =>
              writeFunctionStream \in Requests /\ InFlight(writeFunctionStream)
<1>1. Ordered /\ Idle /\ (\A r \in Requests : Writing(r))
  BY DEF IInv
<1>2. ASSUME NEW r \in Requests, NEW x \in Requests, InFlight(r), phase[x] # "idle", x # r
      PROVE  phase[x] = "done"
  <2>1. r \in Nat /\ x \in Nat
    BY RequestsAreNumbered
  <2>2. x < r \/ r < x
    BY <2>1, <1>2
  <2> QED BY <2>2, <1>1, <1>2 DEF Ordered, InFlight
<1>3. \A r, x \in Requests : InFlight(r) /\ InFlight(x) => r = x
  BY <1>2 DEF InFlight
<1>4. ASSUME writeFunctionStream # Nil
      PROVE  writeFunctionStream \in Requests /\ InFlight(writeFunctionStream)
  <2>1. PICK r \in Requests : InFlight(r)
    BY <1>1, <1>4 DEF Idle, Ordered
  <2> QED BY <2>1, <1>1, <1>4 DEF Writing
<1> QED BY <1>2, <1>3, <1>4

\* What a write or a pause does to the bytes of the stream that is written to.
Moved(size) ==
  /\ streamPendingReadSize' \in Int
  /\ held' \in 0..MaxChunk /\ paused' \in BOOLEAN /\ isPausedRecv' \in BOOLEAN
  /\ overrun' \in [Requests -> BOOLEAN] /\ reading' \in [Requests -> BOOLEAN]
  /\ buffered' \in [Requests -> Nat] /\ pushed' \in [Requests -> Nat]
  /\ held' > 0 => paused'
  /\ \A r \in Requests : r # writeFunctionStream => pushed'[r] = pushed[r]
  /\ size = 0 => held' = 0 /\ pushed' = pushed
  /\ writeFunctionStream \in Requests /\ stream'[writeFunctionStream] # "destroyed" =>
       pushed'[writeFunctionStream] + held' = pushed[writeFunctionStream] + size

\* A write keeps the chunk for later or gives it to the stream.
LEMMA WriteMoves ==
  ASSUME TypeOK, writeFunctionStream \in Requests, NEW size \in Sizes, WriteToStream(size)
  PROVE  Moved(size)
<1>1. PICK w \in Requests : w = writeFunctionStream
  OBVIOUS
<1>2. /\ streamPendingReadSize \in Int /\ overrun \in [Requests -> BOOLEAN]
      /\ reading \in [Requests -> BOOLEAN] /\ buffered \in [Requests -> Nat]
      /\ pushed \in [Requests -> Nat]
  BY DEF TypeOK
<1>3. size \in Nat /\ size > 0 /\ size \in 0..MaxChunk
  BY SizesArePositive DEF Sizes
<1>4. CASE streamPendingReadSize = 0
  BY <1>2, <1>3, <1>4 DEF WriteToStream, Hold, writeVars, Moved
<1>5. CASE streamPendingReadSize # 0
  <2>1. /\ streamPendingReadSize' = streamPendingReadSize - size /\ Push(size)
        /\ held' = 0 /\ paused' = FALSE /\ isPausedRecv' = FALSE
    BY <1>5 DEF WriteToStream
  <2>2. CASE stream'[w] = "destroyed"
    <3>1. UNCHANGED <<buffered, pushed, reading, overrun>>
      BY <2>1, <2>2, <1>1 DEF Push
    <3>2. streamPendingReadSize' \in Int /\ held' \in 0..MaxChunk /\ held' = 0
      BY <2>1, <1>2, <1>3, SizesArePositive
    <3>3. paused' \in BOOLEAN /\ isPausedRecv' \in BOOLEAN
      BY <2>1
    <3> QED BY <3>1, <3>2, <3>3, <2>2, <1>1, <1>2, <1>3 DEF Moved
  <2>3. CASE stream'[w] # "destroyed"
    <3>1. /\ buffered' = [buffered EXCEPT ![w] = @ + size]
          /\ pushed' = [pushed EXCEPT ![w] = @ + size]
          /\ reading' = [reading EXCEPT ![w] = FALSE]
      BY <2>1, <2>3, <1>1 DEF Push
    <3>2. buffered' \in [Requests -> Nat] /\ pushed' \in [Requests -> Nat]
      BY <3>1, <1>2, <1>3
    <3>3. reading' \in [Requests -> BOOLEAN]
      BY <3>1, <1>2
    <3>4. overrun' \in [Requests -> BOOLEAN]
      <4>1. overrun' = [overrun EXCEPT ![w] = @ \/ size > streamPendingReadSize]
        BY <2>1, <2>3, <1>1 DEF Push
      <4> QED BY <4>1, <1>2
    <3>5. streamPendingReadSize' \in Int
      BY <2>1, <1>2, <1>3
    <3>6. held' \in 0..MaxChunk /\ held' = 0
      BY <2>1, SizesArePositive
    <3>7. /\ \A r \in Requests : r # w => pushed'[r] = pushed[r]
          /\ pushed'[w] = pushed[w] + size
      BY <3>1, <1>2
    <3>8. paused' \in BOOLEAN /\ isPausedRecv' \in BOOLEAN
      BY <2>1
    <3> QED BY <3>2, <3>3, <3>4, <3>5, <3>6, <3>7, <3>8, <1>1, <1>2, <1>3 DEF Moved
  <2> QED BY <2>2, <2>3
<1> QED BY <1>4, <1>5

\* Pausing and unpausing lose nothing of what libcurl keeps.
LEMMA PauseMoves ==
  ASSUME IInv, \/ KeepPause
               \/ Pause
               \/ PauseThrows
               \/ Unpause /\ \E r \in Requests : Connected(r)
  PROVE  Moved(held)
<1>1. TypeOK /\ \A r \in Requests : Writing(r)
  BY DEF IInv
<1>2. /\ streamPendingReadSize \in Int /\ overrun \in [Requests -> BOOLEAN]
      /\ reading \in [Requests -> BOOLEAN] /\ buffered \in [Requests -> Nat]
      /\ pushed \in [Requests -> Nat] /\ held \in 0..MaxChunk
      /\ paused \in BOOLEAN /\ isPausedRecv \in BOOLEAN /\ (held > 0 => paused)
  BY <1>1 DEF TypeOK
<1>3. CASE KeepPause
  BY <1>2, <1>3 DEF KeepPause, writeVars, Moved
<1>4. CASE Pause
  BY <1>2, <1>4 DEF Pause, writeVars, Moved
<1>5. CASE PauseThrows
  BY <1>2, <1>5 DEF PauseThrows, writeVars, Moved
<1>6. CASE Unpause /\ \E r \in Requests : Connected(r)
  <2>1. CASE held = 0
    <3>1. paused' = FALSE /\ isPausedRecv' = FALSE /\ UNCHANGED <<held, writeVars>>
      BY <2>1, <1>6 DEF Unpause
    <3>2. paused' \in BOOLEAN /\ isPausedRecv' \in BOOLEAN
      BY <3>1
    <3>3. UNCHANGED <<held, streamPendingReadSize, buffered, pushed, reading, overrun>>
      BY <3>1 DEF writeVars
    <3> QED BY <3>2, <3>3, <2>1, <1>2 DEF Moved
  <2>2. CASE held # 0
    <3>1. writeFunctionStream \in Requests
      <4>1. PICK r \in Requests : Connected(r)
        BY <1>6
      <4> QED BY <4>1, <2>2, <1>1 DEF Connected, Writing, InFlight
    <3>2. held \in Sizes
      BY <2>2, <1>2, SizesArePositive DEF Sizes
    <3>3. WriteToStream(held)
      BY <2>2, <1>6 DEF Unpause
    <3> QED BY <3>1, <3>2, <3>3, <1>1, WriteMoves
  <2> QED BY <2>1, <2>2
<1> QED BY <1>3, <1>4, <1>5, <1>6

\* The request in flight is settled, or none is.
SettledBy(how) ==
  \/ UNCHANGED <<phase, immediates>>
  \/ \E x \in Requests : phase[x] = "running" /\ Settle(x, how)

\* A step that starts, ends and emits nothing keeps the invariant, also when it
\* pauses or unpauses, destroys a stream or settles the request in flight.
LEMMA Aside ==
  ASSUME IInv, TypeOK', Moved(held),
         UNCHANGED <<isRunning, writeFunctionStream, event, sent>>,
         \A r \in Requests :
           \/ stream'[r] = stream[r]
           \/ stream'[r] = "destroyed" /\ stream[r] \in {"given", "ended"},
         SettledBy("failed") \/ (SettledBy("complete") /\ held = 0)
  PROVE  IInv'
<1>1. /\ TypeOK /\ Ordered /\ Idle
      /\ \A r \in Requests : Queued(r) /\ Writing(r) /\ Lived(r)
  BY DEF IInv
<1>2. \A r \in Requests :
        \/ phase'[r] = phase[r]
        \/ phase[r] = "running" /\ phase'[r] = "failed"
        \/ phase[r] = "running" /\ phase'[r] = "complete" /\ held = 0
  <2>1. DOMAIN phase = Requests
    BY <1>1 DEF TypeOK
  <2>2. CASE UNCHANGED <<phase, immediates>>
    BY <2>2
  <2>3. CASE \E x \in Requests : phase[x] = "running" /\ Settle(x, "failed")
    BY <2>1, <2>3 DEF Settle
  <2>4. CASE held = 0 /\ \E x \in Requests : phase[x] = "running" /\ Settle(x, "complete")
    BY <2>1, <2>4 DEF Settle
  <2> QED BY <2>2, <2>3, <2>4 DEF SettledBy
<1>3. \A r \in Requests : /\ InFlight(r)' <=> InFlight(r)
                          /\ phase'[r] = "idle" <=> phase[r] = "idle"
                          /\ phase'[r] = "done" <=> phase[r] = "done"
                          /\ phase'[r] = "closing" <=> phase[r] = "closing"
  BY <1>2 DEF InFlight
<1>4. Ordered'
  BY <1>1, <1>3 DEF Ordered
<1>5. \A r \in Requests : Handing(r)' = Handing(r)
  BY DEF Handing
<1>6. UNCHANGED <<phase, immediates>> \/
      \E x \in Requests : /\ phase[x] = "running"
                          /\ phase'[x] \in {"complete", "failed"}
                          /\ immediates' = Append(immediates, <<"finalize", x>>)
  BY <1>1 DEF SettledBy, Settle, TypeOK
<1>7. Idle'
  BY <1>1, <1>6 DEF Idle, Ordered, InFlight
<1>8. ASSUME NEW r \in Requests
      PROVE  Queued(r)'
  <2>1. CASE UNCHANGED <<phase, immediates>>
    BY <2>1, <1>1, <1>5 DEF Queued
  <2>2. CASE ~UNCHANGED <<phase, immediates>>
    <3>1. PICK x \in Requests : /\ phase[x] = "running"
                                /\ phase'[x] \in {"complete", "failed"}
                                /\ immediates' = Append(immediates, <<"finalize", x>>)
      BY <2>2, <1>6
    <3>2. CASE r = x
      BY <3>1, <3>2, <1>1, <1>5 DEF Queued
    <3>3. CASE r # x
      <4>1. ~InFlight(r)'
        BY <3>1, <3>3, <1>3, OneInFlight DEF InFlight
      <4> QED BY <4>1 DEF Queued, InFlight
    <3> QED BY <3>2, <3>3
  <2> QED BY <2>1, <2>2
<1>9. /\ held = 0 => held' = 0 /\ pushed' = pushed
      /\ \A r \in Requests : r # writeFunctionStream => pushed'[r] = pushed[r]
      /\ \A r \in Requests : writeFunctionStream = r /\ stream'[r] # "destroyed" =>
           pushed'[r] + held' = pushed[r] + held
  BY DEF Moved
<1>10. ASSUME NEW r \in Requests
       PROVE  Writing(r)'
  <2> SUFFICES ASSUME InFlight(r)'
               PROVE  Writing(r)'
    BY DEF Writing
  <2>1. /\ writeFunctionStream \in {Nil, r}
        /\ writeFunctionStream = Nil => stream[r] = "none" /\ sent[r] = 0 /\ held = 0
        /\ writeFunctionStream = r =>
             stream[r] # "none" /\ (stream[r] # "destroyed" => pushed[r] + held = sent[r])
        /\ phase[r] \in {"complete", "closing"} => held = 0
        /\ phase[r] = "closing" => stream[r] \in {"none", "ended", "destroyed"}
    BY <1>1, <1>3 DEF Writing
  <2>2. phase'[r] \in {"complete", "closing"} => held = 0
    BY <2>1, <1>2
  <2>3. phase'[r] = "closing" => stream'[r] \in {"none", "ended", "destroyed"}
    BY <2>1, <1>3
  <2>4. writeFunctionStream = r =>
          stream'[r] # "none" /\ (stream'[r] # "destroyed" => pushed'[r] + held' = sent[r])
    BY <2>1, <1>9
  <2>5. writeFunctionStream = Nil => stream'[r] = "none" /\ sent[r] = 0 /\ held' = 0
    BY <2>1, <1>9
  <2> QED BY <2>1, <2>2, <2>3, <2>4, <2>5, <1>9 DEF Writing
<1>11. ASSUME NEW r \in Requests
       PROVE  Lived(r)'
  <2>1. Lived(r)
    BY <1>1
  <2>2. pushed'[r] = pushed[r] \/ (InFlight(r) /\ writeFunctionStream = r /\ held # 0)
    BY <1>9, OneInFlight, NilIsNothing
  <2>3. InFlight(r) /\ writeFunctionStream = r => stream[r] # "none"
    BY <1>1 DEF Writing
  <2>4. stream'[r] = "none" => pushed'[r] = 0
    BY <2>1, <2>2, <2>3 DEF Lived
  <2>5. stream'[r] = "ended" => phase'[r] \in {"closing", "done"} /\ pushed'[r] = sent[r]
    <3>1. stream'[r] = "ended" => stream[r] = "ended"
      OBVIOUS
    <3>2. stream[r] = "ended" => phase[r] \in {"closing", "done"} /\ pushed[r] = sent[r]
      BY <2>1 DEF Lived
    <3>3. phase[r] = "closing" => held = 0
      BY <1>1 DEF Writing, InFlight
    <3> QED BY <3>1, <3>2, <3>3, <2>2, <1>3 DEF InFlight
  <2>6. phase'[r] = "idle" => stream'[r] = "none" /\ sent[r] = 0
    BY <2>1, <1>3 DEF Lived
  <2>7. stream'[r] = "made" => phase'[r] \in {"running", "complete", "failed"}
    BY <2>1, <1>2 DEF Lived
  <2>8. event[r] = "end" =>
          phase'[r] = "done" /\ (sent[r] > 0 => stream'[r] \in {"ended", "destroyed"})
    BY <2>1, <1>3 DEF Lived
  <2> QED BY <2>4, <2>5, <2>6, <2>7, <2>8 DEF Lived
<1> QED BY <1>4, <1>7, <1>8, <1>10, <1>11 DEF IInv

----------------------------------------------------------------------------
(* The transfer *)

\* perform() keeps the invariant.
LEMMA PerformKeeps ==
  ASSUME IInv, NEW r \in Requests, Perform(r)
  PROVE  IInv'
<1>1. /\ TypeOK /\ Ordered /\ Idle
      /\ \A x \in Requests : Queued(x) /\ Writing(x) /\ Lived(x)
  BY DEF IInv
<1>2. /\ ~isRunning /\ phase[r] = "idle" /\ (\A x \in Requests : x < r => phase[x] = "done")
      /\ phase' = [phase EXCEPT ![r] = "running"]
      /\ held' = 0
      /\ UNCHANGED <<writeFunctionStream, streamPendingReadSize, streamError, nextPauseFlags,
                     isPausedRecv, cbProgressAborted, immediates, event, sent, overrun,
                     stream, buffered, pushed, reading, flowing, alive>>
  BY DEF Perform, streamVars
<1>3. /\ phase' \in [Requests -> {"idle", "running", "complete", "failed", "closing", "done"}]
      /\ \A x \in Requests : phase'[x] = IF x = r THEN "running" ELSE phase[x]
  BY <1>1, <1>2 DEF TypeOK
<1>4. TypeOK'
  <2>1. isRunning' \in BOOLEAN /\ paused' \in BOOLEAN
    BY DEF Perform
  <2>2. held' \in 0..MaxChunk /\ ~(held' > 0)
    BY <1>2, SizesArePositive
  <2> QED BY <2>1, <2>2, <1>1, <1>2, <1>3 DEF TypeOK
<1>5. \A x \in Requests : phase[x] \in {"idle", "done"}
  BY <1>1, <1>2 DEF Ordered, InFlight, TypeOK
<1>6. \A x \in Requests : InFlight(x)' <=> x = r
  BY <1>3, <1>5 DEF InFlight
<1>7. Ordered'
  <2>1. ASSUME NEW x \in Requests, NEW y \in Requests, phase'[x] # "idle", y < x
        PROVE  phase'[y] = "done"
    <3>1. CASE x = r
      BY <3>1, <2>1, <1>2, <1>3, RequestsAreNumbered
    <3>2. CASE x # r
      BY <3>2, <2>1, <1>1, <1>2, <1>3 DEF Ordered
    <3> QED BY <3>1, <3>2
  <2>2. isRunning' = TRUE
    BY DEF Perform
  <2> QED BY <2>1, <2>2, <1>6 DEF Ordered
<1>8. immediates = << >> /\ writeFunctionStream = Nil /\ stream[r] = "none" /\ sent[r] = 0
  BY <1>1, <1>2 DEF Idle, Lived
<1>9. ASSUME NEW x \in Requests
      PROVE  Queued(x)' /\ Writing(x)' /\ Lived(x)'
  <2>1. CASE x = r
    <3>1. Queued(x)'
      BY <2>1, <1>2, <1>3, <1>8 DEF Queued, Handing
    <3>2. Writing(x)'
      BY <2>1, <1>2, <1>3, <1>8, NilIsNothing DEF Writing
    <3>3. Lived(x)'
      BY <2>1, <1>1, <1>2, <1>3, <1>8 DEF Lived
    <3> QED BY <3>1, <3>2, <3>3
  <2>2. CASE x # r
    <3>1. ~InFlight(x)' /\ phase'[x] = phase[x]
      BY <2>2, <1>3, <1>6
    <3>2. Lived(x)'
      BY <3>1, <1>1, <1>2 DEF Lived
    <3> QED BY <3>1, <3>2 DEF Queued, Writing, InFlight
  <2> QED BY <2>1, <2>2
<1>10. Idle'
  BY DEF Perform, Idle
<1> QED BY <1>4, <1>7, <1>9, <1>10 DEF IInv

Kinds == {"stream", "finalize", "end"} \X Requests

\* Appending an immediate, or taking one, leaves a sequence of immediates.
LEMMA QueueTypes ==
  ASSUME TypeOK
  PROVE  /\ immediates \in Seq(Kinds)
         /\ \A r \in Requests, kind \in {"stream", "finalize", "end"} :
              Append(immediates, <<kind, r>>) \in Seq(Kinds)
         /\ immediates # << >> => Tail(immediates) \in Seq(Kinds)
<1>1. immediates \in Seq(Kinds)
  BY DEF TypeOK, Kinds
<1>2. ASSUME NEW r \in Requests, NEW kind \in {"stream", "finalize", "end"}
      PROVE  Append(immediates, <<kind, r>>) \in Seq(Kinds)
  <2>1. <<kind, r>> \in Kinds
    BY DEF Kinds
  <2> QED BY <1>1, <2>1
<1>3. immediates # << >> => Tail(immediates) \in Seq(Kinds)
  BY <1>1
<1> QED BY <1>1, <1>2, <1>3

\* A chunk from the peer keeps the invariant.
LEMMA ChunkKeeps ==
  ASSUME IInv, NEW r \in Requests, NEW size \in Sizes, Chunk(r, size)
  PROVE  IInv'
<1>1. /\ TypeOK /\ Ordered /\ Idle
      /\ \A x \in Requests : Queued(x) /\ Writing(x) /\ Lived(x)
  BY DEF IInv
<1>2. /\ phase[r] = "running" /\ InFlight(r)
      /\ sent' = [sent EXCEPT ![r] = @ + size]
      /\ FirstWrite(r, size) \/ NextWrite(size)
      /\ UNCHANGED <<isRunning, streamError, nextPauseFlags, cbProgressAborted, phase, event,
                     flowing, alive>>
  BY DEF Chunk, Connected, InFlight
<1>3. size \in Nat /\ size > 0 /\ size \in 0..MaxChunk
  BY SizesArePositive DEF Sizes
<1>4. held = 0
  <2>1. ~paused
    BY DEF Chunk
  <2> QED BY <2>1, <1>1 DEF TypeOK
<1>5. /\ sent' \in [Requests -> Nat] /\ sent'[r] = sent[r] + size
      /\ \A x \in Requests : x # r => sent'[x] = sent[x]
  BY <1>1, <1>2, <1>3 DEF TypeOK
<1>6. Ordered'
  BY <1>1, <1>2 DEF Ordered, InFlight
<1>7. Idle'
  BY <1>1, <1>2 DEF Ordered, Idle
<1>8. \A x \in Requests : InFlight(x)' => x = r
  BY <1>2, OneInFlight DEF InFlight
<1>9. CASE FirstWrite(r, size)
  <2>1. /\ writeFunctionStream = Nil /\ writeFunctionStream' = r
        /\ stream' = [stream EXCEPT ![r] = "made"]
        /\ immediates' = Append(immediates, <<"stream", r>>)
        /\ streamPendingReadSize' = 0 /\ held' = size
        /\ UNCHANGED <<buffered, pushed, reading, overrun>>
    BY <1>9 DEF FirstWrite, Hold
  <2>2. paused' = TRUE
    BY <1>9 DEF FirstWrite, Hold
  <2>3. paused' \in BOOLEAN /\ isPausedRecv' \in BOOLEAN
    BY <1>9 DEF FirstWrite, Hold
  <2>4. /\ stream' \in [Requests -> {"none", "made", "given", "ended", "destroyed"}]
        /\ \A x \in Requests : stream'[x] = IF x = r THEN "made" ELSE stream[x]
    BY <2>1, <1>1 DEF TypeOK
  <2>5. immediates' \in Seq({"stream", "finalize", "end"} \X Requests)
    BY <2>1, <1>1, QueueTypes DEF Kinds
  <2>6. TypeOK'
    <3>1. writeFunctionStream' \in Requests \cup {Nil} /\ streamPendingReadSize' \in Int
      BY <2>1
    <3>2. held' \in 0..MaxChunk /\ (held' > 0 => paused')
      BY <2>1, <2>2, <1>3
    <3> QED BY <2>1, <2>2, <2>3, <2>4, <2>5, <3>1, <3>2, <1>1, <1>2, <1>5 DEF TypeOK
  <2>7. stream[r] = "none" /\ sent[r] = 0 /\ pushed[r] = 0 /\ immediates = << >>
    BY <2>1, <1>1, <1>2 DEF Writing, Lived, Queued, Handing
  <2>8. ASSUME NEW x \in Requests
        PROVE  Queued(x)' /\ Writing(x)' /\ Lived(x)'
    <3>1. CASE x = r
      <4>1. Queued(x)'
        BY <3>1, <2>1, <2>4, <2>7, <1>2 DEF Queued, Handing
      <4>2. Writing(x)'
        BY <3>1, <2>1, <2>4, <2>7, <1>2, <1>3, <1>5, NilIsNothing DEF Writing
      <4>3. Lived(x)'
        BY <3>1, <2>4, <1>1, <1>2 DEF Lived
      <4> QED BY <4>1, <4>2, <4>3
    <3>2. CASE x # r
      <4>1. ~InFlight(x)'
        BY <3>2, <1>8
      <4>2. Lived(x)'
        BY <3>2, <2>1, <2>4, <1>1, <1>2, <1>5 DEF Lived
      <4> QED BY <4>1, <4>2 DEF Queued, Writing, InFlight
    <3> QED BY <3>1, <3>2
  <2> QED BY <2>6, <2>8, <1>6, <1>7, <2>1, <1>1 DEF IInv, Idle
<1>10. CASE NextWrite(size)
  <2>1. /\ writeFunctionStream # Nil /\ WriteToStream(size)
        /\ UNCHANGED <<writeFunctionStream, stream, immediates>>
    BY <1>10 DEF NextWrite
  <2>2. writeFunctionStream = r
    BY <2>1, <1>2, OneInFlight
  <2>3. Moved(size)
    BY <2>1, <2>2, <1>1, WriteMoves
  <2>4. TypeOK'
    BY <2>1, <2>3, <1>1, <1>2, <1>5 DEF TypeOK, Moved
  <2>5. /\ \A x \in Requests : x # r => pushed'[x] = pushed[x]
        /\ stream[r] # "destroyed" => pushed'[r] + held' = pushed[r] + size
    BY <2>1, <2>2, <2>3 DEF Moved
  <2>6. ASSUME NEW x \in Requests
        PROVE  Queued(x)' /\ Writing(x)' /\ Lived(x)'
    <3>1. Queued(x)'
      BY <2>1, <1>1, <1>2 DEF Queued, Handing
    <3>2. CASE x = r
      <4>1. /\ stream[r] # "none"
            /\ stream[r] # "destroyed" => pushed'[r] + held' = sent'[r]
        <5>1. stream[r] # "none" /\ (stream[r] # "destroyed" => pushed[r] + held = sent[r])
          BY <2>2, <1>1, <1>2 DEF Writing
        <5>2. pushed[r] \in Nat /\ sent[r] \in Nat
          BY <1>1 DEF TypeOK
        <5> QED BY <5>1, <5>2, <2>5, <1>3, <1>4, <1>5
      <4>2. Writing(x)'
        BY <3>2, <4>1, <2>1, <2>2, <1>2, NilIsNothing DEF Writing
      <4>3. Lived(x)'
        BY <3>2, <4>1, <2>1, <1>1, <1>2 DEF Lived
      <4> QED BY <3>1, <4>2, <4>3
    <3>3. CASE x # r
      <4>1. ~InFlight(x)'
        BY <3>3, <1>8
      <4>2. Lived(x)'
        BY <3>3, <2>1, <2>5, <1>1, <1>2, <1>5 DEF Lived
      <4> QED BY <3>1, <4>1, <4>2 DEF Writing
    <3> QED BY <3>2, <3>3
  <2> QED BY <2>4, <2>6, <1>6, <1>7 DEF IInv
<1> QED BY <1>2, <1>9, <1>10

\* A settled promise leaves values in their ranges.
LEMMA SettleTypes ==
  ASSUME TypeOK, NEW r \in Requests, NEW how \in {"complete", "failed"}, Settle(r, how)
  PROVE  /\ phase' \in [Requests -> {"idle", "running", "complete", "failed", "closing", "done"}]
         /\ immediates' \in Seq({"stream", "finalize", "end"} \X Requests)
<1>1. immediates' \in Seq({"stream", "finalize", "end"} \X Requests)
  BY QueueTypes DEF Settle, Kinds
<1> QED BY <1>1 DEF Settle, TypeOK

\* Nothing is moved where nothing changes.
LEMMA NothingMoves ==
  ASSUME TypeOK, UNCHANGED <<paused, isPausedRecv, held, writeVars>>
  PROVE  Moved(held)
BY DEF TypeOK, writeVars, Moved

\* The progress function keeps the invariant.
LEMMA ProgressKeeps ==
  ASSUME IInv, NEW r \in Requests, Progress(r)
  PROVE  IInv'
<1>1. TypeOK
  BY DEF IInv
<1>2. /\ phase[r] = "running" /\ AppliesPause
      /\ UNCHANGED <<isRunning, writeFunctionStream, streamError, event, sent, flowing, alive,
                     stream>>
      /\ UNCHANGED <<phase, immediates, cbProgressAborted>> \/ Settle(r, "failed")
  BY DEF Progress, Connected
<1>3. Moved(held)
  <2>1. \/ KeepPause
        \/ Pause
        \/ Unpause /\ Connected(r)
    BY <1>2 DEF AppliesPause, Connected
  <2> QED BY <2>1, PauseMoves
<1>4. cbProgressAborted' \in BOOLEAN
  BY <1>1 DEF Progress, TypeOK
<1>5. nextPauseFlags' = "none"
  BY DEF Progress
<1>6. /\ phase' \in [Requests -> {"idle", "running", "complete", "failed", "closing", "done"}]
      /\ immediates' \in Seq({"stream", "finalize", "end"} \X Requests)
  <2>1. CASE UNCHANGED <<phase, immediates, cbProgressAborted>>
    BY <2>1, <1>1 DEF TypeOK
  <2>2. CASE Settle(r, "failed")
    BY <2>2, <1>1, SettleTypes
  <2> QED BY <2>1, <2>2, <1>2
<1>7. TypeOK'
  BY <1>1, <1>2, <1>3, <1>4, <1>5, <1>6 DEF TypeOK, Moved
<1>8. SettledBy("failed")
  BY <1>2 DEF SettledBy
<1> QED BY <1>2, <1>3, <1>7, <1>8, Aside

\* The end of a transfer keeps the invariant.
LEMMA SettleKeeps ==
  ASSUME IInv, NEW r \in Requests, Fails(r) \/ Completes(r)
  PROVE  IInv'
<1>1. TypeOK
  BY DEF IInv
<1>2. /\ phase[r] = "running"
      /\ UNCHANGED <<isRunning, writeFunctionStream, streamPendingReadSize, streamError,
                     nextPauseFlags, isPausedRecv, cbProgressAborted, event, sent, held, paused,
                     overrun, stream, buffered, pushed, reading, flowing, alive>>
      /\ Settle(r, "failed") \/ (Settle(r, "complete") /\ held = 0)
  BY DEF Fails, Completes, Connected, curlVars, transferVars, streamVars
<1>3. /\ phase' \in [Requests -> {"idle", "running", "complete", "failed", "closing", "done"}]
      /\ immediates' \in Seq({"stream", "finalize", "end"} \X Requests)
  BY <1>1, <1>2, SettleTypes
<1>4. TypeOK'
  BY <1>1, <1>2, <1>3 DEF TypeOK
<1>5. Moved(held)
  BY <1>1, <1>2, NothingMoves DEF writeVars
<1>6. SettledBy("failed") \/ (SettledBy("complete") /\ held = 0)
  BY <1>2 DEF SettledBy
<1> QED BY <1>2, <1>4, <1>5, <1>6, Aside

----------------------------------------------------------------------------
(* The Readable and its user *)

\* Reading, consuming, pausing and the reset of the handle keep the invariant.
LEMMA UserKeeps ==
  ASSUME IInv, ResetHandle \/ \E r \in Requests : Read(r) \/ Consume(r) \/ PauseEvent(r)
  PROVE  IInv'
<1>1. TypeOK
  BY DEF IInv
<1> DEFINE Calm ==
      /\ UNCHANGED <<isRunning, writeFunctionStream, streamError, isPausedRecv, immediates, phase,
                     event, sent, held, paused, overrun, stream, pushed, alive>>
      /\ streamPendingReadSize' \in Int
      /\ nextPauseFlags' \in {"none", "pause", "unpause"}
      /\ cbProgressAborted' \in BOOLEAN
      /\ buffered' \in [Requests -> Nat]
      /\ reading' \in [Requests -> BOOLEAN] /\ flowing' \in [Requests -> BOOLEAN]
<1>2. Calm
  <2>1. CASE ResetHandle
    <3>1. cbProgressAborted' \in BOOLEAN
      BY <2>1 DEF ResetHandle
    <3> QED BY <2>1, <3>1, <1>1 DEF ResetHandle, transferVars, streamVars, TypeOK
  <2>2. ASSUME NEW r \in Requests, Read(r)
        PROVE  Calm
    <3>1. reading' \in [Requests -> BOOLEAN]
      BY <2>2, <1>1 DEF Read, TypeOK
    <3>2. nextPauseFlags' \in {"none", "pause", "unpause"} /\ streamPendingReadSize' \in Int
      BY <2>2, <1>1, SizesArePositive DEF Read, TypeOK
    <3> QED BY <2>2, <3>1, <3>2, <1>1 DEF Read, transferVars, TypeOK
  <2>3. ASSUME NEW r \in Requests, Consume(r)
        PROVE  Calm
    BY <2>3, <1>1 DEF Consume, curlVars, transferVars, TypeOK
  <2>4. ASSUME NEW r \in Requests, PauseEvent(r)
        PROVE  Calm
    <3>1. flowing' \in [Requests -> BOOLEAN]
      BY <2>4, <1>1 DEF PauseEvent, TypeOK
    <3> QED BY <2>4, <3>1, <1>1 DEF PauseEvent, transferVars, TypeOK
  <2> QED BY <2>1, <2>2, <2>3, <2>4
<1>3. TypeOK'
  BY <1>1, <1>2 DEF TypeOK
<1>4. Moved(held)
  BY <1>1, <1>2 DEF Moved, TypeOK
<1>5. SettledBy("failed")
  BY <1>2 DEF SettledBy
<1> QED BY <1>2, <1>3, <1>4, <1>5, Aside

\* The 'resume' event, which unpauses at once, keeps the invariant.
LEMMA ResumeKeeps ==
  ASSUME IInv, NEW r \in Requests, ResumeEvent(r)
  PROVE  IInv'
<1>1. TypeOK
  BY DEF IInv
<1>2. UNCHANGED <<isRunning, writeFunctionStream, streamError, nextPauseFlags,
                  cbProgressAborted, immediates, phase, event, sent, stream>>
  BY DEF ResumeEvent
<1>3. Moved(held)
  <2>1. KeepPause \/ PauseThrows \/ (Unpause /\ \E x \in Requests : Connected(x))
    BY DEF ResumeEvent
  <2> QED BY <2>1, PauseMoves
<1>4. flowing' \in [Requests -> BOOLEAN]
  BY <1>1 DEF ResumeEvent, TypeOK
<1>5. alive' \in BOOLEAN
  BY DEF ResumeEvent
<1>6. TypeOK'
  BY <1>1, <1>2, <1>3, <1>4, <1>5 DEF TypeOK, Moved
<1>7. SettledBy("failed")
  BY <1>2 DEF SettledBy
<1> QED BY <1>2, <1>3, <1>6, <1>7, Aside

\* The destruction of a stream keeps the invariant.
LEMMA DestroyKeeps ==
  ASSUME IInv, NEW r \in Requests, Destroy(r) \/ AutoDestroy(r)
  PROVE  IInv'
<1>1. TypeOK
  BY DEF IInv
<1>2. DestroyHook(r) /\ stream[r] \in {"given", "ended"}
  BY DEF Destroy, AutoDestroy, Given
<1>3. /\ stream' = [stream EXCEPT ![r] = "destroyed"] /\ streamError' = r
      /\ UNCHANGED <<isRunning, writeFunctionStream, nextPauseFlags, cbProgressAborted,
                     immediates, phase, event, sent, alive>>
  BY <1>2 DEF DestroyHook
<1>4. Moved(held)
  <2>1. KeepPause \/ PauseThrows \/ (Unpause /\ \E x \in Requests : Connected(x))
    BY <1>2 DEF DestroyHook
  <2> QED BY <2>1, PauseMoves
<1>5. flowing' \in [Requests -> BOOLEAN]
  BY <1>1, <1>2 DEF DestroyHook, TypeOK
<1>6. /\ stream' \in [Requests -> {"none", "made", "given", "ended", "destroyed"}]
      /\ \A x \in Requests : stream'[x] = IF x = r THEN "destroyed" ELSE stream[x]
  BY <1>1, <1>3 DEF TypeOK
<1>7. TypeOK'
  BY <1>1, <1>3, <1>4, <1>5, <1>6 DEF TypeOK, Moved
<1>8. SettledBy("failed")
  BY <1>3 DEF SettledBy
<1> QED BY <1>2, <1>3, <1>4, <1>6, <1>7, <1>8, Aside

----------------------------------------------------------------------------
(* Immediates *)

\* Only the immediates of the request in flight are queued.
LEMMA TakenInOrder ==
  ASSUME IInv, NEW r \in Requests, NEW kind, Take(kind, r)
  PROVE  /\ InFlight(r)
         /\ kind = "stream" => /\ stream[r] = "made" /\ phase[r] # "closing"
                               /\ Tail(immediates) =
                                    IF phase[r] = "running" THEN << >> ELSE << <<"finalize", r>> >>
         /\ kind # "stream" => stream[r] # "made" /\ Tail(immediates) = << >>
         /\ kind = "finalize" => phase[r] \in {"complete", "failed"}
         /\ kind = "end" => phase[r] = "closing"
<1>1. immediates # << >> /\ Head(immediates) = <<kind, r>>
  BY DEF Take
<1>2. Ordered /\ Idle /\ \A x \in Requests : Queued(x) /\ Lived(x)
  BY DEF IInv
<1>3. PICK x \in Requests : InFlight(x)
  BY <1>1, <1>2 DEF Idle, Ordered
<1>4. Queued(x) /\ Lived(x)
  BY <1>2
<1>5. CASE phase[x] = "closing"
  <2>1. immediates = << <<"end", x>> >> /\ stream[x] # "made"
    BY <1>4, <1>5 DEF Queued, Lived
  <2> QED BY <2>1, <1>1, <1>3, <1>5
<1>6. CASE phase[x] = "running"
  <2>1. immediates = << <<"stream", x>> >> /\ stream[x] = "made"
    BY <1>1, <1>4, <1>6 DEF Queued, Handing
  <2> QED BY <2>1, <1>1, <1>3, <1>6
<1>7. CASE phase[x] \in {"complete", "failed"} /\ stream[x] = "made"
  <2>1. immediates = << <<"stream", x>>, <<"finalize", x>> >>
    BY <1>4, <1>7 DEF Queued, Handing
  <2> QED BY <2>1, <1>1, <1>3, <1>7
<1>8. CASE phase[x] \in {"complete", "failed"} /\ stream[x] # "made"
  <2>1. immediates = << <<"finalize", x>> >>
    <3>1. Handing(x) = << >>
      BY <1>8 DEF Handing
    <3>2. immediates = Append(<< >>, <<"finalize", x>>)
      BY <3>1, <1>4, <1>8 DEF Queued
    <3> QED BY <3>2
  <2> QED BY <2>1, <1>1, <1>3, <1>8
<1> QED BY <1>3, <1>5, <1>6, <1>7, <1>8 DEF InFlight

\* Handing the stream over keeps the invariant.
LEMMA EmitStreamKeeps ==
  ASSUME IInv, NEW r \in Requests, EmitStream(r)
  PROVE  IInv'
<1>1. /\ TypeOK /\ Ordered /\ Idle
      /\ \A x \in Requests : Queued(x) /\ Writing(x) /\ Lived(x)
  BY DEF IInv
<1>2. /\ Take("stream", r) /\ immediates' = Tail(immediates) /\ immediates # << >>
      /\ stream' = [stream EXCEPT ![r] = "given"]
      /\ UNCHANGED <<isRunning, writeFunctionStream, streamPendingReadSize, streamError,
                     nextPauseFlags, isPausedRecv, cbProgressAborted, phase, event, sent, held,
                     paused, overrun, buffered, pushed, reading, flowing, alive>>
  BY DEF EmitStream, Take, curlVars, transferVars
<1>3. /\ InFlight(r) /\ stream[r] = "made" /\ phase[r] # "closing"
      /\ immediates' = IF phase[r] = "running" THEN << >> ELSE << <<"finalize", r>> >>
  BY <1>2, TakenInOrder
<1>4. /\ stream' \in [Requests -> {"none", "made", "given", "ended", "destroyed"}]
      /\ \A x \in Requests : stream'[x] = IF x = r THEN "given" ELSE stream[x]
  BY <1>1, <1>2 DEF TypeOK
<1>5. TypeOK'
  <2>1. immediates' \in Seq({"stream", "finalize", "end"} \X Requests)
    BY <1>1, <1>2, QueueTypes DEF Kinds
  <2> QED BY <2>1, <1>1, <1>2, <1>4 DEF TypeOK
<1>6. Ordered' /\ Idle'
  BY <1>1, <1>2, <1>3 DEF Ordered, Idle, InFlight
<1>7. \A x \in Requests : InFlight(x)' => x = r
  BY <1>2, <1>3, OneInFlight DEF InFlight
<1>8. ASSUME NEW x \in Requests
      PROVE  Queued(x)' /\ Writing(x)' /\ Lived(x)'
  <2>1. CASE x = r
    <3>1. Queued(x)'
      <4>1. Handing(x)' = << >>
        BY <2>1, <1>4 DEF Handing
      <4>2. Append(<< >>, <<"finalize", x>>) = << <<"finalize", x>> >>
        OBVIOUS
      <4> QED BY <2>1, <4>1, <4>2, <1>2, <1>3 DEF Queued, InFlight
    <3>2. Writing(x)' /\ Lived(x)'
      BY <2>1, <1>1, <1>2, <1>3, <1>4 DEF Writing, Lived, InFlight
    <3> QED BY <3>1, <3>2
  <2>2. CASE x # r
    <3>1. ~InFlight(x)'
      BY <2>2, <1>7
    <3>2. Lived(x)'
      BY <2>2, <1>1, <1>2, <1>4 DEF Lived
    <3> QED BY <3>1, <3>2 DEF Queued, Writing, InFlight
  <2> QED BY <2>1, <2>2
<1> QED BY <1>5, <1>6, <1>8 DEF IInv

\* The end of a complete response keeps the invariant: the stream has all of it.
LEMMA OnEndKeeps ==
  ASSUME IInv, NEW r \in Requests, OnEnd(r)
  PROVE  IInv'
<1>1. /\ TypeOK /\ Ordered /\ Idle
      /\ \A x \in Requests : Queued(x) /\ Writing(x) /\ Lived(x)
  BY DEF IInv
<1>2. /\ Take("finalize", r) /\ phase[r] = "complete" /\ immediates # << >>
      /\ immediates' = Append(Tail(immediates), <<"end", r>>)
      /\ phase' = [phase EXCEPT ![r] = "closing"]
      /\ UNCHANGED <<isRunning, writeFunctionStream, streamPendingReadSize, streamError,
                     nextPauseFlags, isPausedRecv, cbProgressAborted, event, sent, held, paused,
                     overrun, buffered, pushed, reading, flowing, alive>>
  BY DEF OnEnd, Take, curlVars, transferVars
<1>3. InFlight(r) /\ stream[r] # "made" /\ Tail(immediates) = << >>
  BY <1>2, TakenInOrder
<1>4. /\ writeFunctionStream \in {Nil, r} /\ held = 0
      /\ writeFunctionStream = Nil => stream[r] = "none" /\ sent[r] = 0
      /\ writeFunctionStream = r =>
           stream[r] # "none" /\ (stream[r] # "destroyed" => pushed[r] + held = sent[r])
  BY <1>1, <1>2, <1>3 DEF Writing
<1>5. stream' = [stream EXCEPT ![r] = IF @ \in {"none", "destroyed"} THEN @ ELSE "ended"]
  <2>1. CASE writeFunctionStream = Nil
    BY <2>1, <1>1, <1>4, NilIsNothing DEF OnEnd, TypeOK
  <2>2. CASE writeFunctionStream = r
    <3>1. CASE stream[r] = "destroyed"
      BY <3>1, <2>2, <1>1 DEF OnEnd, TypeOK
    <3>2. CASE stream[r] # "destroyed"
      BY <3>2, <2>2, <1>1, <1>4, NilIsNothing DEF OnEnd, TypeOK
    <3> QED BY <3>1, <3>2
  <2> QED BY <2>1, <2>2, <1>4
<1>6. /\ stream' \in [Requests -> {"none", "made", "given", "ended", "destroyed"}]
      /\ \A x \in Requests \ {r} : stream'[x] = stream[x]
      /\ stream'[r] = IF stream[r] \in {"none", "destroyed"} THEN stream[r] ELSE "ended"
  BY <1>1, <1>5 DEF TypeOK
<1>7. /\ phase' \in [Requests -> {"idle", "running", "complete", "failed", "closing", "done"}]
      /\ \A x \in Requests : phase'[x] = IF x = r THEN "closing" ELSE phase[x]
  BY <1>1, <1>2 DEF TypeOK
<1>8. immediates' = << <<"end", r>> >>
  <2>1. Append(<< >>, <<"end", r>>) = << <<"end", r>> >>
    OBVIOUS
  <2> QED BY <2>1, <1>2, <1>3
<1>9. TypeOK'
  <2>1. immediates' \in Seq({"stream", "finalize", "end"} \X Requests)
    BY <1>8
  <2> QED BY <2>1, <1>1, <1>2, <1>6, <1>7 DEF TypeOK
<1>10. \A x \in Requests : InFlight(x)' => x = r
  BY <1>3, <1>7, OneInFlight DEF InFlight
<1>11. Ordered' /\ Idle'
  BY <1>1, <1>2, <1>3, <1>7, <1>10 DEF Ordered, Idle, InFlight
<1>12. ASSUME NEW x \in Requests
       PROVE  Queued(x)' /\ Writing(x)' /\ Lived(x)'
  <2>1. CASE x = r
    <3>1. Queued(x)'
      BY <2>1, <1>7, <1>8 DEF Queued
    <3>2. Writing(x)'
      BY <2>1, <1>2, <1>4, <1>6, NilIsNothing DEF Writing
    <3>3. Lived(x)'
      <4>1. pushed[r] \in Nat /\ (stream'[r] = "ended" => pushed[r] = sent[r])
        BY <1>1, <1>4, <1>6, NilIsNothing DEF TypeOK, Lived
      <4> QED BY <2>1, <4>1, <1>1, <1>2, <1>6, <1>7 DEF Lived
    <3> QED BY <3>1, <3>2, <3>3
  <2>2. CASE x # r
    <3>1. ~InFlight(x)'
      BY <2>2, <1>10
    <3>2. Lived(x)'
      BY <2>2, <1>1, <1>2, <1>6, <1>7 DEF Lived
    <3> QED BY <3>1, <3>2 DEF Queued, Writing, InFlight
  <2> QED BY <2>1, <2>2
<1> QED BY <1>9, <1>11, <1>12 DEF IInv

\* resetInternalState() and the event that ends a request keep the invariant.
LEMMA FinishKeeps ==
  ASSUME IInv, NEW r \in Requests, EmitEnd(r) \/ OnError(r)
  PROVE  IInv'
<1>1. /\ TypeOK /\ Ordered /\ Idle
      /\ \A x \in Requests : Queued(x) /\ Writing(x) /\ Lived(x)
  BY DEF IInv
<1>2. PICK how \in {"end", "error"} :
        /\ how = "end" => Take("end", r)
        /\ how = "error" => Take("finalize", r)
        /\ immediates' = Tail(immediates)
        /\ ResetInternalState
        /\ event' = [event EXCEPT ![r] = how]
        /\ phase' = [phase EXCEPT ![r] = "done"]
        /\ UNCHANGED <<streamPendingReadSize, nextPauseFlags, isPausedRecv, cbProgressAborted,
                       sent, held, paused, overrun, stream, buffered, pushed, reading, flowing,
                       alive>>
  BY DEF EmitEnd, OnError, transferVars, streamVars
<1>3. /\ InFlight(r) /\ immediates' = << >> /\ stream[r] # "made"
      /\ how = "end" => phase[r] = "closing"
  BY <1>2, TakenInOrder
<1>4. ~isRunning' /\ isRunning' \in BOOLEAN /\ writeFunctionStream' = Nil /\ streamError' = Nil
  BY <1>2 DEF ResetInternalState
<1>5. /\ phase' \in [Requests -> {"idle", "running", "complete", "failed", "closing", "done"}]
      /\ \A x \in Requests : phase'[x] = IF x = r THEN "done" ELSE phase[x]
      /\ event' \in [Requests -> {"none", "end", "error"}]
      /\ \A x \in Requests : event'[x] = IF x = r THEN how ELSE event[x]
  BY <1>1, <1>2 DEF TypeOK
<1>6. TypeOK'
  <2>1. immediates' \in Seq({"stream", "finalize", "end"} \X Requests)
    BY <1>3
  <2>2. writeFunctionStream' \in Requests \cup {Nil} /\ streamError' \in Requests \cup {Nil}
    BY <1>4
  <2> QED BY <2>1, <2>2, <1>1, <1>2, <1>4, <1>5 DEF TypeOK
<1>7. \A x \in Requests : ~InFlight(x)'
  BY <1>3, <1>5, OneInFlight DEF InFlight
<1>8. Ordered'
  BY <1>1, <1>3, <1>4, <1>5, <1>7 DEF Ordered, InFlight
<1>9. Idle'
  BY <1>3, <1>4 DEF Idle
<1>10. ASSUME NEW x \in Requests
       PROVE  Queued(x)' /\ Writing(x)' /\ Lived(x)'
  <2>1. Queued(x)' /\ Writing(x)'
    BY <1>7 DEF Queued, Writing, InFlight
  <2>2. CASE x = r
    <3>1. ASSUME how = "end", sent[r] > 0
          PROVE  stream[r] \in {"ended", "destroyed"}
      BY <3>1, <1>1, <1>3 DEF Writing
    <3> QED BY <2>1, <2>2, <3>1, <1>1, <1>2, <1>3, <1>5 DEF Lived
  <2>3. CASE x # r
    BY <2>1, <2>3, <1>1, <1>2, <1>5 DEF Lived
  <2> QED BY <2>2, <2>3
<1> QED BY <1>6, <1>8, <1>9, <1>10 DEF IInv

----------------------------------------------------------------------------
(* The invariant *)

\* The initial states satisfy the invariant.
LEMMA Initially == Init => IInv
<1> SUFFICES ASSUME Init PROVE IInv
  OBVIOUS
<1>1. TypeOK
  <2>1. 0 \in Nat /\ 0 \in 0..MaxChunk
    BY SizesArePositive
  <2>2. isRunning \in BOOLEAN /\ isPausedRecv \in BOOLEAN /\ cbProgressAborted \in BOOLEAN
    BY DEF Init
  <2>3. paused \in BOOLEAN /\ alive \in BOOLEAN
    BY DEF Init
  <2> QED BY <2>1, <2>2, <2>3 DEF Init, TypeOK
<1>2. Ordered /\ Idle
  BY DEF Init, Ordered, Idle, InFlight
<1>3. \A r \in Requests : Queued(r) /\ Writing(r) /\ Lived(r)
  BY DEF Init, Queued, Writing, Lived, InFlight
<1> QED BY <1>1, <1>2, <1>3 DEF IInv

\* Every step keeps the invariant; one step of the proof per action.
LEMMA Preserved == IInv /\ [Next]_vars => IInv'
<1> SUFFICES ASSUME IInv, [Next]_vars PROVE IInv'
  OBVIOUS
<1>1. ASSUME NEW r \in Requests, TransferStep(r)
      PROVE  IInv'
  BY <1>1, PerformKeeps, ChunkKeeps, ProgressKeeps, SettleKeeps DEF TransferStep
<1>2. ASSUME NEW r \in Requests, Immediate(r)
      PROVE  IInv'
  BY <1>2, EmitStreamKeeps, OnEndKeeps, FinishKeeps DEF Immediate
<1>3. ASSUME NEW r \in Requests, StreamStep(r)
      PROVE  IInv'
  BY <1>3, UserKeeps, ResumeKeeps, DestroyKeeps DEF StreamStep
<1>4. CASE ResetHandle
  BY <1>4, UserKeeps
<1>5. CASE UNCHANGED vars
  <2>1. UNCHANGED <<isRunning, writeFunctionStream, streamPendingReadSize, streamError,
                    nextPauseFlags, isPausedRecv, cbProgressAborted, immediates, phase, event,
                    sent, held, paused, overrun, stream, buffered, pushed, reading, flowing,
                    alive>>
    BY <1>5 DEF vars, curlVars, transferVars, streamVars
  <2>2. TypeOK'
    BY <2>1 DEF IInv, TypeOK
  <2>3. Moved(held)
    BY <2>1, NothingMoves DEF IInv, writeVars
  <2> QED BY <2>1, <2>2, <2>3, Aside DEF SettledBy
<1> QED BY <1>1, <1>2, <1>3, <1>4, <1>5 DEF Next

\* The strengthened invariant holds in every state.
THEOREM Invariance == Spec => []IInv
<1>1. Init => IInv
  BY Initially
<1>2. IInv /\ [Next]_vars => IInv'
  BY Preserved
<1> QED BY <1>1, <1>2, PTL DEF Spec

\* The stream of a request gets what the peer sent for it, once and completely,
\* whatever the streams of earlier requests do to the Curl they share.
THEOREM StreamGetsItsResponse == Spec => []StreamIntegrity
<1>1. IInv => StreamIntegrity
  <2> SUFFICES ASSUME IInv, NEW r \in Requests
               PROVE  /\ writeFunctionStream = r /\ stream[r] # "destroyed" =>
                           pushed[r] + held = sent[r]
                      /\ stream[r] = "ended" => pushed[r] = sent[r]
    BY DEF StreamIntegrity, IInv
  <2>1. writeFunctionStream = r => InFlight(r)
    BY OneInFlight, NilIsNothing
  <2> QED BY <2>1 DEF IInv, Writing, Lived
<1> QED BY <1>1, Invariance, PTL

\* 'end' is never emitted before the stream of the response is ended.
THEOREM StreamEndsFirst == Spec => []EndedBeforeEnd
<1>1. IInv => EndedBeforeEnd
  BY DEF IInv, Lived, EndedBeforeEnd
<1> QED BY <1>1, Invariance, PTL

=============================================================================
