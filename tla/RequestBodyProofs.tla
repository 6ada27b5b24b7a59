-------------------------- MODULE RequestBodyProofs --------------------------
(***************************************************************************)
(* Proofs about RequestBody, for every number of requests and streams,     *)
(* bodies of any length, and callers that use a stream for one request.    *)
(***************************************************************************)
EXTENDS RequestBody, SequenceTheorems, TLAPS

----------------------------------------------------------------------------
(* The inductive invariant *)

InFlight(r) == phase[r] \in {"added", "running", "complete", "failed", "abandoned"}

\* Requests follow one another, and the Curl is busy while one is in flight.
Ordered ==
  /\ \A r, x \in Requests : phase[r] # "idle" /\ x < r => phase[x] = "done"
  /\ \A r \in Requests : InFlight(r) => isRunning

\* One immediate ends a request whose promise is settled.
Finals(queue) == {i \in 1..Len(queue) : queue[i] = "finalize"}

Settled(r) == phase[r] \in {"complete", "failed"}

Queued ==
  /\ \A i \in Finals(immediates) : \E r \in Requests : Settled(r)
  /\ \A i, j \in Finals(immediates) : i = j

\* The source of s ended by itself and libcurl has all of it.
Finished(s) ==
  /\ stream[s].eof /\ ~stream[s].errored /\ stream[s].taken = stream[s].made
  /\ stream[s].life \in {"ended", "closed"}

\* Only a read past the last byte makes a stream end.
Streamed(s) ==
  /\ stream[s].life = "new" => stream[s].made = 0
  /\ stream[s].life \in {"ending", "ended"} =>
       stream[s].eof /\ stream[s].taken = stream[s].made
  /\ stream[s].errored => stream[s].life \in {"destroyed", "closed"}

\* The upload stream is the only one listened to, nobody read it before its
\* request, and shouldEnd tells that it ended.
Uploading ==
  /\ upload.readFunction = upload.stream
  /\ upload.listening = IF upload.stream = Nil THEN {} ELSE {upload.stream}
  /\ upload.error \in {Nil, upload.stream}
  /\ upload.stream # Nil =>
       /\ mime.stream = Nil
       /\ upload.shouldEnd => Finished(upload.stream)
       /\ ~isRunning => stream[upload.stream].taken = 0

\* The stream of a MIME part belongs to the first request after it was set.
Parting ==
  mime.stream # Nil =>
    /\ mime.ended /\ ~mime.error => Finished(mime.stream)
    /\ mime.request = 0 => stream[mime.stream].taken = 0
    /\ mime.request # 0 =>
         phase[mime.request] # "idle" /\ source[mime.request] = mime.stream

\* A request has its own source, and what libcurl was fed is what was taken from it.
Sourced(r) ==
  /\ phase[r] = "idle" => abortedBy[r] = Nil
  /\ abortedBy[r] \in {Nil, source[r]}
  /\ phase[r] = "added" => ~bodyEnded
  /\ phase[r] \in {"added", "running"} =>
       /\ source[r] = IF mime.stream # Nil THEN mime.stream ELSE upload.stream
       /\ source[r] # Nil /\ (mime.stream # Nil => mime.request = r) =>
            fed = stream[source[r]].taken
  /\ phase[r] = "running" =>
       /\ mime.stream # Nil => mime.request = r
       /\ bodyEnded \/ returned = "eof" => source[r] # Nil /\ Finished(source[r])

\* A read callback returns to the request that runs.
Reading == returned # "none" => \E r \in Requests : phase[r] = "running"

IInv ==
  /\ TypeOK /\ Ordered /\ Queued /\ Reading
  /\ Uploading /\ Parting
  /\ \A s \in Streams : Streamed(s)
  /\ \A r \in Requests : Sourced(r)

----------------------------------------------------------------------------
(* Lemmas about the queue of immediates *)

Kinds == {"resume", "unpause", "finalize"}

\* What an appended immediate changes.
LEMMA AppendFinals ==
  ASSUME NEW q \in Seq(Kinds), NEW k \in Kinds
  PROVE  /\ Append(q, k) \in Seq(Kinds)
         /\ k # "finalize" => Finals(Append(q, k)) = Finals(q)
         /\ k = "finalize" => Finals(Append(q, k)) = Finals(q) \cup {Len(q) + 1}
<1>1. /\ Append(q, k) \in Seq(Kinds) /\ Len(q) \in Nat /\ Len(Append(q, k)) = Len(q) + 1
      /\ Append(q, k)[Len(q) + 1] = k
      /\ \A i \in 1..Len(q) : Append(q, k)[i] = q[i]
  OBVIOUS
<1> DEFINE n == Len(q)
           a == Append(q, k)
<1>2. n \in Nat /\ Len(a) = n + 1 /\ a[n + 1] = k /\ \A i \in 1..n : a[i] = q[i]
  BY <1>1
<1>3. /\ Finals(a) = {i \in 1..(n + 1) : a[i] = "finalize"}
      /\ Finals(q) = {i \in 1..n : q[i] = "finalize"}
  BY <1>2 DEF Finals
<1> HIDE DEF n, a
<1>4. 1..(n + 1) = 1..n \cup {n + 1} /\ n + 1 \notin 1..n
  BY <1>2
<1>5. k # "finalize" => Finals(a) = Finals(q)
  BY <1>2, <1>3, <1>4
<1>6. k = "finalize" => Finals(a) = Finals(q) \cup {n + 1}
  BY <1>2, <1>3, <1>4
<1> QED BY <1>1, <1>5, <1>6 DEF n, a

\* What the loop leaves when it takes an immediate.
LEMMA TailFinals ==
  ASSUME NEW q \in Seq(Kinds), q # << >>
  PROVE  /\ Tail(q) \in Seq(Kinds)
         /\ \A i \in Finals(Tail(q)) : i + 1 \in Finals(q)
         /\ Head(q) = "finalize" => 1 \in Finals(q)
<1>1. /\ Tail(q) \in Seq(Kinds) /\ Len(q) \in Nat /\ Len(q) > 0 /\ Len(Tail(q)) = Len(q) - 1
      /\ \A i \in 1..Len(Tail(q)) : Tail(q)[i] = q[i + 1]
      /\ Head(q) = q[1]
  OBVIOUS
<1> DEFINE n == Len(q)
           t == Tail(q)
<1>2. n \in Nat /\ n > 0 /\ Len(t) = n - 1 /\ \A i \in 1..(n - 1) : t[i] = q[i + 1]
  BY <1>1
<1>3. /\ Finals(t) = {i \in 1..(n - 1) : t[i] = "finalize"}
      /\ Finals(q) = {i \in 1..n : q[i] = "finalize"}
  BY <1>2 DEF Finals
<1> HIDE DEF n, t
<1>4. \A i \in 1..(n - 1) : i + 1 \in 1..n
  BY <1>2
<1>5. \A i \in Finals(t) : i + 1 \in Finals(q)
  BY <1>2, <1>3, <1>4
<1>6. Head(q) = "finalize" => 1 \in Finals(q)
  BY <1>1, <1>2, <1>3
<1> QED BY <1>1, <1>5, <1>6 DEF t

\* Waking libcurl up queues nothing that ends a request.
LEMMA WakeQueues ==
  ASSUME immediates \in Seq(Kinds), NEW s \in Streams, Wake(s)
  PROVE  immediates' \in Seq(Kinds) /\ Finals(immediates') = Finals(immediates)
<1> DEFINE q == IF UploadListens(s) /\ upload.paused THEN Append(immediates, "resume")
                                                     ELSE immediates
<1>1. q \in Seq(Kinds) /\ Finals(q) = Finals(immediates)
  BY AppendFinals DEF Kinds
<1>2. q = immediates \o (IF UploadListens(s) /\ upload.paused THEN <<"resume">> ELSE << >>)
  BY DEF Kinds
<1>3. immediates' = q \o (IF MimeListens(s) /\ mime.paused THEN <<"unpause">> ELSE << >>)
  BY <1>2 DEF Wake
<1> HIDE DEF q
<1>4. immediates' = IF MimeListens(s) /\ mime.paused THEN Append(q, "unpause") ELSE q
  BY <1>1, <1>3 DEF Kinds
<1> QED BY <1>1, <1>4, AppendFinals DEF Kinds

\* A queue with the same ends stays a good one.
LEMMA SameFinals ==
  ASSUME Queued, UNCHANGED phase,
         Finals(immediates') = Finals(immediates)
  PROVE  Queued'
BY DEF Queued, Settled, Finals

\* So does one an immediate was taken from.
LEMMA TakenFinals ==
  ASSUME immediates \in Seq(Kinds), Queued, UNCHANGED phase, NEW kind, TakeImmediate(kind)
  PROVE  immediates' \in Seq(Kinds) /\ Queued'
<1>1. immediates # << >> /\ immediates' = Tail(immediates)
  BY DEF TakeImmediate
<1>2. immediates' \in Seq(Kinds) /\ \A i \in Finals(immediates') : i + 1 \in Finals(immediates)
  BY <1>1, TailFinals
<1>3. \A i \in Finals(immediates') : i \in Nat
  BY DEF Finals
<1>4. \A i, j \in Finals(immediates') : i = j
  BY <1>2, <1>3 DEF Queued
<1>5. \A i \in Finals(immediates') : \E r \in Requests : Settled(r)'
  BY <1>2 DEF Queued, Settled
<1> QED BY <1>2, <1>4, <1>5 DEF Queued, Finals

----------------------------------------------------------------------------
(* The parts of the type invariant *)

StreamType == [made : 0..MaxBytes, taken : 0..MaxBytes, eof : BOOLEAN,
               life : {"new", "live", "ending", "ended", "destroyed", "closed", "left"},
               errored : BOOLEAN, due : BOOLEAN]

UploadType == [stream : Streams \cup {Nil}, readFunction : Streams \cup {Nil},
               listening : SUBSET Streams, error : Streams \cup {Nil},
               shouldEnd : BOOLEAN, shouldPause : BOOLEAN, paused : BOOLEAN]

MimeType == [stream : Streams \cup {Nil}, request : Requests \cup {0}, listening : BOOLEAN,
             ended : BOOLEAN, error : BOOLEAN, paused : BOOLEAN]

Flags == /\ isRunning \in BOOLEAN /\ closed \in BOOLEAN /\ progress \in BOOLEAN
         /\ sendPaused \in BOOLEAN /\ alive \in BOOLEAN
         /\ hasBody \in BOOLEAN /\ bodyEnded \in BOOLEAN

StreamsOK ==
  /\ stream \in [Streams -> StreamType]
  /\ \A s \in Streams : stream[s].taken <= stream[s].made

RequestsOK ==
  /\ phase \in [Requests -> {"idle", "added", "running", "complete", "failed", "done",
                             "abandoned"}]
  /\ source \in [Requests -> Streams \cup {Nil}]
  /\ abortedBy \in [Requests -> Streams \cup {Nil}]

Types ==
  /\ Flags /\ StreamsOK /\ RequestsOK
  /\ upload \in UploadType /\ mime \in MimeType
  /\ immediates \in Seq(Kinds)
  /\ fed \in Nat /\ returned \in {"none", "data", "pause", "eof", "abort"}

\* TypeOK in parts that a proof can cite one by one.
LEMMA TypeParts == TypeOK <=> Types
<1>1. {isRunning, closed, progress, sendPaused, alive} \subseteq BOOLEAN
        <=> /\ isRunning \in BOOLEAN /\ closed \in BOOLEAN /\ progress \in BOOLEAN
            /\ sendPaused \in BOOLEAN /\ alive \in BOOLEAN
  OBVIOUS
<1> QED BY <1>1 DEF TypeOK, Types, Flags, StreamsOK, RequestsOK, StreamType, UploadType, MimeType,
                    Kinds

\* The same of the next state.
LEMMA TypePartsNext == TypeOK' <=> Types'
<1>1. {isRunning', closed', progress', sendPaused', alive'} \subseteq BOOLEAN
        <=> /\ isRunning' \in BOOLEAN /\ closed' \in BOOLEAN /\ progress' \in BOOLEAN
            /\ sendPaused' \in BOOLEAN /\ alive' \in BOOLEAN
  OBVIOUS
<1> QED BY <1>1 DEF TypeOK, Types, Flags, StreamsOK, RequestsOK, StreamType, UploadType, MimeType,
                    Kinds

----------------------------------------------------------------------------
(* Lemmas about requests and streams *)

\* Only one request is in flight.
LEMMA OneInFlight ==
  ASSUME Ordered
  PROVE  \A r, x \in Requests : InFlight(r) /\ InFlight(x) => r = x
<1> SUFFICES ASSUME NEW r \in Requests, NEW x \in Requests, InFlight(r), InFlight(x), r # x
             PROVE  FALSE
  OBVIOUS
<1>1. r < x \/ x < r
  BY RequestsAreNumbered
<1> QED BY <1>1 DEF Ordered, InFlight

\* No stream is the stream of a request and Nil, none is read when nobody runs.
LEMMA SourceOfRunning ==
  ASSUME IInv, NEW r \in Requests, phase[r] = "running"
  PROVE  /\ isRunning /\ \A x \in Requests : InFlight(x) => x = r
         /\ mime.stream # Nil =>
              source[r] = mime.stream /\ mime.request = r /\ upload.stream = Nil
         /\ mime.stream = Nil => source[r] = upload.stream /\ upload.readFunction = upload.stream
         /\ source[r] # Nil => fed = stream[source[r]].taken
BY OneInFlight DEF IInv, Ordered, InFlight, Sourced, Uploading

\* A step that gives libcurl nothing, starts and ends nothing and moves only the
\* streams keeps the invariant, if it does not unfinish a stream.
LEMMA Aside ==
  ASSUME IInv, TypeOK', Queued',
         UNCHANGED <<isRunning, phase, source, abortedBy, fed, bodyEnded, returned>>,
         upload'.stream = upload.stream, upload'.readFunction = upload.readFunction,
         upload'.listening = upload.listening, upload'.error \in {upload.error, upload.stream},
         mime'.stream = mime.stream, mime'.request = mime.request,
         upload.stream # Nil /\ upload'.shouldEnd /\ ~upload.shouldEnd =>
           Finished(upload.stream)',
         mime.stream # Nil /\ mime'.ended /\ ~mime'.error =>
           (mime.ended /\ ~mime.error) \/ Finished(mime.stream)',
         \A s \in Streams : /\ stream'[s].taken = stream[s].taken
                            /\ Finished(s) => Finished(s)'
                            /\ Streamed(s)'
  PROVE  IInv'
<1>1. /\ TypeOK /\ Ordered /\ Reading /\ Uploading /\ Parting
      /\ \A r \in Requests : Sourced(r)
  BY DEF IInv
<1>2. /\ upload.stream \in Streams \cup {Nil} /\ mime.stream \in Streams \cup {Nil}
      /\ \A r \in Requests : source[r] \in Streams \cup {Nil}
  BY <1>1 DEF TypeOK
<1>3. Ordered' /\ Reading'
  BY <1>1 DEF Ordered, Reading, InFlight
<1>4. Uploading'
  BY <1>1, <1>2 DEF Uploading
<1>5. Parting'
  BY <1>1, <1>2 DEF Parting
<1>6. ASSUME NEW r \in Requests
      PROVE  Sourced(r)'
  <2>1. Sourced(r)
    BY <1>1
  <2>2. source[r] # Nil => stream'[source[r]].taken = stream[source[r]].taken
    BY <1>2
  <2>3. source[r] # Nil /\ Finished(source[r]) => Finished(source[r])'
    BY <1>2
  <2> QED BY <2>1, <2>2, <2>3 DEF Sourced, Finished
<1> QED BY <1>3, <1>4, <1>5, <1>6 DEF IInv

----------------------------------------------------------------------------
(* What a Readable does *)

\* A change of one stream leaves the others alone.
LEMMA OneStream ==
  ASSUME TypeOK, NEW s \in Streams, NEW x \in StreamType, x.taken <= x.made,
         stream' = [stream EXCEPT ![s] = x]
  PROVE  StreamsOK' /\ stream'[s] = x /\ \A t \in Streams \ {s} : stream'[t] = stream[t]
<1>1. stream \in [Streams -> StreamType] /\ \A t \in Streams : stream[t].taken <= stream[t].made
  BY TypeParts DEF Types, StreamsOK
<1> QED BY <1>1 DEF StreamsOK

\* The source of a stream produces, ends or is destroyed.
LEMMA SourceStepKeeps ==
  ASSUME IInv, NEW s \in Streams, SourceStep(s)
  PROVE  IInv'
<1>1. TypeOK /\ Queued /\ \A t \in Streams : Streamed(t)
  BY DEF IInv
<1>2. /\ stream[s].life = "live"
      /\ UNCHANGED <<isRunning, closed, progress, upload, mime, immediates, phase, source,
                     abortedBy, hasBody, fed, bodyEnded, returned, sendPaused, alive>>
  BY DEF SourceStep, Produce, EndOfData, Destroy, curlVars, requestVars
<1>3. stream[s] \in StreamType /\ stream[s].taken <= stream[s].made /\ Streamed(s)
  BY <1>1 DEF TypeOK, StreamType
<1> DEFINE Changed(x) ==
      /\ stream' = [stream EXCEPT ![s] = x]
      /\ x.taken = stream[s].taken /\ x.taken <= x.made
      /\ x.life \in {"live", "destroyed"} /\ (x.errored => x.life = "destroyed")
<1>4. PICK x \in StreamType : Changed(x)
  <2>1. CASE Produce(s)
    <3> DEFINE x == [stream[s] EXCEPT !.made = @ + 1, !.due = TRUE]
    <3>1. x \in StreamType /\ x.taken = stream[s].taken /\ x.taken <= x.made /\ x.life = "live"
      <4>1. stream[s].made + 1 \in 0..MaxBytes /\ stream[s].taken <= stream[s].made + 1
        <5>1. stream[s].made \in 0..MaxBytes /\ stream[s].made < MaxBytes
              /\ stream[s].taken \in 0..MaxBytes /\ stream[s].taken <= stream[s].made
          BY <2>1, <1>3 DEF Produce, StreamType
        <5>2. MaxBytes \in Nat
          BY SizesArePositive
        <5> QED BY <5>1, <5>2
      <4> QED BY <4>1, <1>2, <1>3 DEF StreamType
    <3>2. x.errored => x.life = "destroyed"
      BY <1>2, <1>3 DEF StreamType, Streamed
    <3>3. stream' = [stream EXCEPT ![s] = x]
      BY <2>1, <1>1 DEF Produce, TypeOK
    <3> QED BY <3>1, <3>2, <3>3
  <2>2. CASE EndOfData(s)
    <3> DEFINE x == [stream[s] EXCEPT !.eof = TRUE, !.due = TRUE]
    <3>1. x \in StreamType /\ x.taken = stream[s].taken /\ x.taken <= x.made /\ x.life = "live"
      BY <1>2, <1>3 DEF StreamType
    <3>2. x.errored => x.life = "destroyed"
      BY <1>2, <1>3 DEF StreamType, Streamed
    <3>3. stream' = [stream EXCEPT ![s] = x]
      BY <2>2, <1>1 DEF EndOfData, TypeOK
    <3> QED BY <3>1, <3>2, <3>3
  <2>3. ASSUME NEW error \in BOOLEAN, Destroy(s, error)
        PROVE  \E x \in StreamType : Changed(x)
    <3> DEFINE x == [stream[s] EXCEPT !.life = "destroyed", !.errored = error]
    <3>1. /\ x \in StreamType /\ x.taken = stream[s].taken /\ x.taken <= x.made
          /\ x.life = "destroyed"
      BY <1>3 DEF StreamType
    <3>2. stream' = [stream EXCEPT ![s] = x]
      BY <2>3, <1>1 DEF Destroy, TypeOK
    <3> QED BY <3>1, <3>2
  <2> QED BY <2>1, <2>2, <2>3 DEF SourceStep
<1>5. StreamsOK' /\ stream'[s] = x /\ \A t \in Streams \ {s} : stream'[t] = stream[t]
  BY <1>1, <1>4, OneStream
<1>6. TypeOK'
  BY <1>1, <1>2, <1>5, TypeParts, TypePartsNext DEF Types, Flags, RequestsOK
<1>7. Queued'
  BY <1>1, <1>2, SameFinals
<1>8. ASSUME NEW t \in Streams
      PROVE  /\ stream'[t].taken = stream[t].taken
             /\ Finished(t) => Finished(t)'
             /\ Streamed(t)'
  BY <1>1, <1>2, <1>4, <1>5 DEF Finished, Streamed
<1> QED BY <1>2, <1>6, <1>7, <1>8, Aside DEF IInv, Uploading

----------------------------------------------------------------------------
(* Listeners *)

\* Who listens to a stream is the upload stream's or the MIME part's listener.
LEMMA Listeners ==
  ASSUME IInv, NEW s \in Streams
  PROVE  /\ UploadListens(s) => upload.stream = s /\ upload.stream # Nil
         /\ MimeListens(s) => mime.stream = s /\ mime.stream # Nil
BY NilIsNoStream DEF IInv, Uploading, UploadListens, MimeListens

\* 'readable' keeps the invariant.
LEMMA EmitReadableKeeps ==
  ASSUME IInv, NEW s \in Streams, EmitReadable(s)
  PROVE  IInv'
<1>1. TypeOK /\ Types /\ Queued /\ Uploading /\ \A t \in Streams : Streamed(t)
  BY TypeParts DEF IInv
<1>2. /\ stream' = [stream EXCEPT ![s].due = FALSE] /\ Wake(s)
      /\ upload' = IF UploadListens(s) THEN [upload EXCEPT !.paused = FALSE] ELSE upload
      /\ mime' = IF MimeListens(s) THEN [mime EXCEPT !.paused = FALSE] ELSE mime
      /\ UNCHANGED <<isRunning, closed, progress, phase, source, abortedBy, hasBody, fed,
                     bodyEnded, returned, alive>>
  BY DEF EmitReadable, curlVars, requestVars
<1>3. immediates' \in Seq(Kinds) /\ Finals(immediates') = Finals(immediates) /\ sendPaused' = sendPaused
  <2>1. immediates \in Seq(Kinds)
    BY <1>1 DEF Types
  <2> QED BY <2>1, <1>2, WakeQueues DEF Wake
<1>4. /\ upload' \in UploadType
      /\ upload'.stream = upload.stream /\ upload'.readFunction = upload.readFunction
      /\ upload'.listening = upload.listening /\ upload'.error = upload.error
      /\ upload'.shouldEnd = upload.shouldEnd
  <2>1. upload \in UploadType
    BY <1>1 DEF Types
  <2>2. CASE UploadListens(s)
    BY <2>1, <2>2, <1>2 DEF UploadType
  <2>3. CASE ~UploadListens(s)
    BY <2>1, <2>3, <1>2
  <2> QED BY <2>2, <2>3
<1>5. /\ mime' \in MimeType
      /\ mime'.stream = mime.stream /\ mime'.request = mime.request
      /\ mime'.ended = mime.ended /\ mime'.error = mime.error
  <2>1. mime \in MimeType
    BY <1>1 DEF Types
  <2>2. CASE MimeListens(s)
    BY <2>1, <2>2, <1>2 DEF MimeType
  <2>3. CASE ~MimeListens(s)
    BY <2>1, <2>3, <1>2
  <2> QED BY <2>2, <2>3
<1>6. PICK x \in StreamType :
        /\ stream' = [stream EXCEPT ![s] = x]
        /\ x.taken = stream[s].taken /\ x.made = stream[s].made /\ x.eof = stream[s].eof
        /\ x.life = stream[s].life /\ x.errored = stream[s].errored
  <2> DEFINE x == [stream[s] EXCEPT !.due = FALSE]
  <2>1. stream[s] \in StreamType /\ stream \in [Streams -> StreamType]
    BY <1>1 DEF Types, StreamsOK
  <2>2. /\ x \in StreamType
        /\ x.taken = stream[s].taken /\ x.made = stream[s].made /\ x.eof = stream[s].eof
        /\ x.life = stream[s].life /\ x.errored = stream[s].errored
    BY <2>1 DEF StreamType
  <2>3. stream' = [stream EXCEPT ![s] = x]
    BY <2>1, <1>2
  <2> QED BY <2>2, <2>3
<1>7. StreamsOK' /\ stream'[s] = x /\ \A t \in Streams \ {s} : stream'[t] = stream[t]
  BY <1>1, <1>6, OneStream DEF Types, StreamsOK
<1>8. TypeOK'
  BY <1>1, <1>2, <1>3, <1>4, <1>5, <1>7, TypePartsNext DEF Types, Flags, RequestsOK
<1>9. Queued'
  BY <1>1, <1>2, <1>3, SameFinals
<1>10. ASSUME NEW t \in Streams
       PROVE  /\ stream'[t].taken = stream[t].taken
              /\ Finished(t) => Finished(t)'
              /\ Streamed(t)'
  BY <1>1, <1>6, <1>7 DEF Finished, Streamed
<1> QED BY <1>2, <1>4, <1>5, <1>8, <1>9, <1>10, Aside

\* 'end' keeps the invariant: the stream it is about is finished.
LEMMA EmitEndKeeps ==
  ASSUME IInv, NEW s \in Streams, EmitEnd(s)
  PROVE  IInv'
<1>1. TypeOK /\ Types /\ Queued /\ Uploading /\ \A t \in Streams : Streamed(t)
  BY TypeParts DEF IInv
<1>2. /\ stream[s].life = "ending"
      /\ stream' = [stream EXCEPT ![s].life = "ended"] /\ Wake(s)
      /\ upload' = IF UploadListens(s)
                     THEN [upload EXCEPT !.shouldEnd = TRUE, !.paused = FALSE] ELSE upload
      /\ mime' = IF MimeListens(s)
                   THEN [mime EXCEPT !.ended = TRUE, !.paused = FALSE, !.listening = FALSE]
                   ELSE mime
      /\ UNCHANGED <<isRunning, closed, progress, phase, source, abortedBy, hasBody, fed,
                     bodyEnded, returned, alive>>
  BY DEF EmitEnd, curlVars, requestVars
<1>3. immediates' \in Seq(Kinds) /\ Finals(immediates') = Finals(immediates) /\ sendPaused' = sendPaused
  <2>1. immediates \in Seq(Kinds)
    BY <1>1 DEF Types
  <2> QED BY <2>1, <1>2, WakeQueues DEF Wake
<1>4. /\ upload' \in UploadType
      /\ upload'.stream = upload.stream /\ upload'.readFunction = upload.readFunction
      /\ upload'.listening = upload.listening /\ upload'.error = upload.error
      /\ upload'.shouldEnd /\ ~upload.shouldEnd => upload.stream = s
  <2>1. upload \in UploadType
    BY <1>1 DEF Types
  <2>2. CASE UploadListens(s)
    BY <2>1, <2>2, <1>2, Listeners DEF UploadType
  <2>3. CASE ~UploadListens(s)
    BY <2>1, <2>3, <1>2
  <2> QED BY <2>2, <2>3
<1>5. /\ mime' \in MimeType
      /\ mime'.stream = mime.stream /\ mime'.request = mime.request
      /\ mime'.ended /\ ~mime'.error => (mime.ended /\ ~mime.error) \/ mime.stream = s
  <2>1. mime \in MimeType
    BY <1>1 DEF Types
  <2>2. CASE MimeListens(s)
    BY <2>1, <2>2, <1>2, Listeners DEF MimeType
  <2>3. CASE ~MimeListens(s)
    BY <2>1, <2>3, <1>2
  <2> QED BY <2>2, <2>3
<1>6. PICK x \in StreamType :
        /\ stream' = [stream EXCEPT ![s] = x]
        /\ x.taken = stream[s].taken /\ x.made = stream[s].made /\ x.eof = stream[s].eof
        /\ x.life = "ended" /\ x.errored = stream[s].errored
  <2> DEFINE x == [stream[s] EXCEPT !.life = "ended"]
  <2>1. stream[s] \in StreamType /\ stream \in [Streams -> StreamType]
    BY <1>1 DEF Types, StreamsOK
  <2>2. /\ x \in StreamType
        /\ x.taken = stream[s].taken /\ x.made = stream[s].made /\ x.eof = stream[s].eof
        /\ x.life = "ended" /\ x.errored = stream[s].errored
    BY <2>1 DEF StreamType
  <2>3. stream' = [stream EXCEPT ![s] = x]
    BY <2>1, <1>2
  <2> QED BY <2>2, <2>3
<1>7. StreamsOK' /\ stream'[s] = x /\ \A t \in Streams \ {s} : stream'[t] = stream[t]
  BY <1>1, <1>6, OneStream DEF Types, StreamsOK
<1>8. TypeOK'
  BY <1>1, <1>2, <1>3, <1>4, <1>5, <1>7, TypePartsNext DEF Types, Flags, RequestsOK
<1>9. Queued'
  BY <1>1, <1>2, <1>3, SameFinals
<1>10. ASSUME NEW t \in Streams
       PROVE  /\ stream'[t].taken = stream[t].taken
              /\ Finished(t) => Finished(t)'
              /\ Streamed(t)'
  BY <1>1, <1>2, <1>6, <1>7 DEF Finished, Streamed
<1>11. Finished(s)'
  BY <1>1, <1>2, <1>6, <1>7 DEF Finished, Streamed
<1> QED BY <1>2, <1>4, <1>5, <1>8, <1>9, <1>10, <1>11, Aside

\* 'error' and 'close' keep the invariant.
LEMMA EmitCloseKeeps ==
  ASSUME IInv, NEW s \in Streams, EmitClose(s)
  PROVE  IInv'
<1>1. TypeOK /\ Types /\ Queued /\ Uploading /\ \A t \in Streams : Streamed(t)
  BY TypeParts DEF IInv
<1>2. /\ stream[s].life \in {"ended", "destroyed"}
      /\ stream' = [stream EXCEPT ![s].life = "closed"]
      /\ Wake(s) \/ UNCHANGED <<immediates, sendPaused>>
      /\ \/ upload' = upload
         \/ /\ UploadListens(s)
            /\ upload' = [upload EXCEPT !.error = s, !.shouldPause = TRUE, !.paused = FALSE]
      /\ \/ mime' = mime
         \/ /\ MimeListens(s)
            /\ mime' = [mime EXCEPT !.error = TRUE, !.ended = TRUE, !.paused = FALSE,
                                    !.listening = FALSE]
      /\ UNCHANGED <<isRunning, closed, progress, phase, source, abortedBy, hasBody, fed,
                     bodyEnded, returned, alive>>
  BY DEF EmitClose, curlVars, requestVars
<1>3. immediates' \in Seq(Kinds) /\ Finals(immediates') = Finals(immediates) /\ sendPaused' = sendPaused
  <2>1. immediates \in Seq(Kinds)
    BY <1>1 DEF Types
  <2> QED BY <2>1, <1>2, WakeQueues DEF Wake
<1>4. /\ upload' \in UploadType
      /\ upload'.stream = upload.stream /\ upload'.readFunction = upload.readFunction
      /\ upload'.listening = upload.listening /\ upload'.error \in {upload.error, upload.stream}
      /\ upload'.shouldEnd = upload.shouldEnd
  <2>1. upload \in UploadType
    BY <1>1 DEF Types
  <2>2. CASE upload' = upload
    BY <2>1, <2>2
  <2>3. CASE /\ UploadListens(s)
             /\ upload' = [upload EXCEPT !.error = s, !.shouldPause = TRUE, !.paused = FALSE]
    BY <2>1, <2>3, Listeners DEF UploadType
  <2> QED BY <2>2, <2>3, <1>2
<1>5. /\ mime' \in MimeType
      /\ mime'.stream = mime.stream /\ mime'.request = mime.request
      /\ mime'.ended /\ ~mime'.error => mime.ended /\ ~mime.error
  <2>1. mime \in MimeType
    BY <1>1 DEF Types
  <2>2. CASE mime' = mime
    BY <2>1, <2>2
  <2>3. CASE mime' = [mime EXCEPT !.error = TRUE, !.ended = TRUE, !.paused = FALSE,
                                  !.listening = FALSE]
    BY <2>1, <2>3 DEF MimeType
  <2> QED BY <2>2, <2>3, <1>2
<1>6. PICK x \in StreamType :
        /\ stream' = [stream EXCEPT ![s] = x]
        /\ x.taken = stream[s].taken /\ x.made = stream[s].made /\ x.eof = stream[s].eof
        /\ x.life = "closed" /\ x.errored = stream[s].errored
  <2> DEFINE x == [stream[s] EXCEPT !.life = "closed"]
  <2>1. stream[s] \in StreamType /\ stream \in [Streams -> StreamType]
    BY <1>1 DEF Types, StreamsOK
  <2>2. /\ x \in StreamType
        /\ x.taken = stream[s].taken /\ x.made = stream[s].made /\ x.eof = stream[s].eof
        /\ x.life = "closed" /\ x.errored = stream[s].errored
    BY <2>1 DEF StreamType
  <2>3. stream' = [stream EXCEPT ![s] = x]
    BY <2>1, <1>2
  <2> QED BY <2>2, <2>3
<1>7. StreamsOK' /\ stream'[s] = x /\ \A t \in Streams \ {s} : stream'[t] = stream[t]
  BY <1>1, <1>6, OneStream DEF Types, StreamsOK
<1>8. TypeOK'
  BY <1>1, <1>2, <1>3, <1>4, <1>5, <1>7, TypePartsNext DEF Types, Flags, RequestsOK
<1>9. Queued'
  BY <1>1, <1>2, <1>3, SameFinals
<1>10. ASSUME NEW t \in Streams
       PROVE  /\ stream'[t].taken = stream[t].taken
              /\ Finished(t) => Finished(t)'
              /\ Streamed(t)'
  BY <1>1, <1>2, <1>6, <1>7 DEF Finished, Streamed
<1> QED BY <1>2, <1>4, <1>5, <1>8, <1>9, <1>10, Aside

\* The immediates that unpause keep the invariant.
LEMMA UnpauseKeeps ==
  ASSUME IInv, Resume \/ Unpause
  PROVE  IInv'
<1>1. TypeOK /\ Types /\ Queued /\ \A t \in Streams : Streamed(t)
  BY TypeParts DEF IInv
<1>2. UNCHANGED <<isRunning, closed, progress, upload, mime, stream, phase, source, abortedBy,
                  hasBody, fed, bodyEnded, returned>>
  BY DEF Resume, Unpause, curlVars, requestVars
<1>3. immediates' \in Seq(Kinds) /\ Queued'
  BY <1>1, <1>2, TakenFinals DEF Resume, Unpause, Types
<1>4. sendPaused' \in BOOLEAN /\ alive' \in BOOLEAN
  <2>1. CASE Resume
    BY <2>1 DEF Resume
  <2>2. CASE Unpause
    <3>1. alive' = ~closed
      BY <2>2 DEF Unpause
    <3> QED BY <2>2, <3>1, <1>1 DEF Unpause, Types, Flags
  <2> QED BY <2>1, <2>2
<1>5. TypeOK'
  BY <1>1, <1>2, <1>3, <1>4, TypePartsNext DEF Types, Flags, StreamsOK, RequestsOK
<1>6. \A t \in Streams : (Finished(t) => Finished(t)') /\ Streamed(t)'
  BY <1>1, <1>2 DEF Finished, Streamed
<1> QED BY <1>2, <1>3, <1>5, <1>6, Aside

----------------------------------------------------------------------------
(* The caller *)

\* Between two requests nobody is in flight and the queue ends nobody.
LEMMA Between ==
  ASSUME IInv, ~isRunning
  PROVE  /\ \A r \in Requests : ~InFlight(r) /\ phase[r] \in {"idle", "done"}
         /\ Finals(immediates) = {} /\ returned = "none"
<1>1. /\ Ordered /\ Queued /\ Reading
      /\ phase \in [Requests -> {"idle", "added", "running", "complete", "failed", "done",
                                 "abandoned"}]
  BY TypeParts DEF IInv, Types, RequestsOK
<1>2. \A r \in Requests : ~InFlight(r)
  BY <1>1 DEF Ordered
<1> QED BY <1>1, <1>2 DEF InFlight, Queued, Settled, Reading

\* perform() keeps the invariant.
LEMMA PerformKeeps ==
  ASSUME IInv, NEW r \in Requests, NEW body \in BOOLEAN, Perform(r, body)
  PROVE  IInv'
<1>1. /\ TypeOK /\ Types /\ Ordered /\ Queued /\ Reading /\ Uploading /\ Parting
      /\ (\A t \in Streams : Streamed(t)) /\ \A x \in Requests : Sourced(x)
  BY TypeParts DEF IInv
<1>2. /\ ~isRunning /\ phase[r] = "idle" /\ \A x \in Requests : x < r => phase[x] = "done"
      /\ phase' = [phase EXCEPT ![r] = "added"]
      /\ fed' = 0
      /\ source' = [source EXCEPT ![r] = IF mime.stream # Nil THEN mime.stream ELSE upload.stream]
      /\ mime' = IF mime.request = 0 /\ mime.stream # Nil THEN [mime EXCEPT !.request = r] ELSE mime
      /\ UNCHANGED <<closed, upload, immediates, stream, abortedBy, returned, sendPaused, alive>>
  BY DEF Perform
<1>3. isRunning' /\ isRunning' \in BOOLEAN /\ ~bodyEnded' /\ bodyEnded' \in BOOLEAN
  BY DEF Perform
<1>4. /\ RequestsOK'
      /\ \A x \in Requests : phase'[x] = IF x = r THEN "added" ELSE phase[x]
      /\ \A x \in Requests : x # r => source'[x] = source[x]
      /\ source'[r] = IF mime.stream # Nil THEN mime.stream ELSE upload.stream
  <2>1. upload.stream \in Streams \cup {Nil} /\ mime.stream \in Streams \cup {Nil}
    BY <1>1 DEF Types, UploadType, MimeType
  <2> QED BY <2>1, <1>1, <1>2 DEF Types, RequestsOK
<1>5. /\ mime' \in MimeType
      /\ mime'.stream = mime.stream /\ mime'.ended = mime.ended /\ mime'.error = mime.error
      /\ mime'.request = IF mime.request = 0 /\ mime.stream # Nil THEN r ELSE mime.request
  <2>1. mime \in MimeType
    BY <1>1 DEF Types
  <2> QED BY <2>1, <1>2 DEF MimeType
<1>6. TypeOK'
  <2>1. progress' \in BOOLEAN
    BY DEF Perform
  <2>2. hasBody' \in BOOLEAN
    BY DEF Perform
  <2> QED BY <2>1, <2>2, <1>1, <1>2, <1>3, <1>4, <1>5, TypePartsNext DEF Types, Flags, StreamsOK
<1>7. /\ \A x \in Requests : ~InFlight(x) /\ phase[x] \in {"idle", "done"}
      /\ Finals(immediates) = {} /\ returned = "none"
  BY <1>2, Between
<1>8. Ordered'
  <2>1. ASSUME NEW x \in Requests, NEW y \in Requests, phase'[x] # "idle", y < x
        PROVE  phase'[y] = "done"
    <3>1. CASE x = r
      BY <3>1, <2>1, <1>2, <1>4, RequestsAreNumbered
    <3>2. CASE x # r
      BY <3>2, <2>1, <1>1, <1>2, <1>4 DEF Ordered
    <3> QED BY <3>1, <3>2
  <2> QED BY <2>1, <1>3 DEF Ordered
<1>9. Queued' /\ Reading'
  BY <1>2, <1>7 DEF Queued, Reading, Finals
<1>10. Uploading'
  BY <1>1, <1>2, <1>3, <1>5 DEF Uploading, Finished
<1>11. r # 0 /\ (mime.stream # Nil => mime.request # r)
  BY <1>1, <1>2, RequestsAreNumbered DEF Parting
<1>12. Parting'
  BY <1>1, <1>2, <1>4, <1>5, <1>11, RequestsAreNumbered DEF Parting, Finished, Types, MimeType
<1>13. ASSUME NEW x \in Requests
       PROVE  Sourced(x)'
  <2>1. CASE x = r
    <3>1. fed' = 0 /\ abortedBy'[r] = Nil /\ phase'[r] = "added"
      BY <1>1, <1>2, <1>4 DEF Sourced
    <3>2. mime.stream # Nil /\ mime'.request = r => stream[mime.stream].taken = 0
      BY <1>1, <1>5, <1>11 DEF Parting
    <3>3. upload.stream # Nil => stream[upload.stream].taken = 0
      BY <1>1, <1>2 DEF Uploading
    <3> QED BY <2>1, <3>1, <3>2, <3>3, <1>2, <1>3, <1>4, <1>5 DEF Sourced
  <2>2. CASE x # r
    BY <2>2, <1>1, <1>2, <1>4, <1>7 DEF Sourced
  <2> QED BY <2>1, <2>2
<1>14. \A t \in Streams : Streamed(t)'
  BY <1>1, <1>2 DEF Streamed
<1> QED BY <1>6, <1>8, <1>9, <1>10, <1>12, <1>13, <1>14 DEF IInv

\* What nobody listens to any more has no bytes to give.
LEMMA LeaveFacts ==
  ASSUME Types, NEW gone, Leave(gone)
  PROVE  /\ StreamsOK'
         /\ \A s \in Streams : s \notin gone => stream'[s] = stream[s]
         /\ \A s \in Streams : s \in gone => stream'[s].taken = 0 /\ Streamed(s)'
<1> DEFINE Left == [NewStream EXCEPT !.life = "left"]
<1>1. 0 \in 0..MaxBytes
  BY SizesArePositive
<1>2. Left \in StreamType /\ Left.taken = 0 /\ Left.made = 0 /\ Left.life = "left" /\ ~Left.errored
  BY <1>1 DEF NewStream, StreamType
<1> HIDE DEF Left
<1>3. stream' = [s \in Streams |-> IF s \in gone THEN Left ELSE stream[s]]
  BY DEF Leave, Left
<1>4. stream \in [Streams -> StreamType] /\ \A s \in Streams : stream[s].taken <= stream[s].made
  BY DEF Types, StreamsOK
<1>5. StreamsOK'
  BY <1>2, <1>3, <1>4 DEF StreamsOK
<1> QED BY <1>2, <1>3, <1>5 DEF Streamed

\* Between two requests a step that sets or unsets streams keeps the invariant
\* if it keeps what is said of the upload stream and the part.
LEMMA BetweenRequests ==
  ASSUME IInv, ~isRunning,
         UNCHANGED <<isRunning, closed, immediates, phase, source, abortedBy, hasBody, fed,
                     bodyEnded, returned, sendPaused, alive>>,
         StreamsOK', \A s \in Streams : Streamed(s)',
         progress' \in BOOLEAN, upload' \in UploadType, mime' \in MimeType,
         Uploading', Parting'
  PROVE  IInv'
<1>1. /\ Types /\ Ordered /\ Queued /\ Reading
      /\ \A x \in Requests : Sourced(x) /\ ~InFlight(x)
  BY TypeParts, Between DEF IInv
<1>2. TypeOK'
  BY <1>1, TypePartsNext DEF Types, Flags, RequestsOK
<1>3. Ordered' /\ Queued' /\ Reading'
  BY <1>1 DEF Ordered, InFlight, Queued, Settled, Finals, Reading
<1>4. \A x \in Requests : Sourced(x)'
  BY <1>1 DEF Sourced, InFlight
<1> QED BY <1>2, <1>3, <1>4 DEF IInv

\* A stream that is handed over was not read.
LEMMA HandOverFacts ==
  ASSUME IInv, NEW s \in Streams, Fresh(s), HandOver(s)
  PROVE  /\ StreamsOK' /\ stream'[s].taken = 0
         /\ \A t \in Streams \ {s} : stream'[t] = stream[t]
         /\ \A t \in Streams : Streamed(t)'
<1>1. Types /\ TypeOK /\ \A t \in Streams : Streamed(t)
  BY TypeParts DEF IInv
<1> DEFINE x == [stream[s] EXCEPT !.life = "live"]
<1>2. stream[s] \in StreamType /\ stream \in [Streams -> StreamType] /\ stream[s].taken <= stream[s].made
  BY <1>1 DEF Types, StreamsOK
<1>3. stream[s].life = "new" /\ stream[s].taken = 0 /\ ~stream[s].errored
  BY <1>1, <1>2, SizesArePositive DEF Fresh, Streamed, StreamType
<1>4. x \in StreamType /\ x.taken = 0 /\ x.taken <= x.made /\ x.life = "live" /\ ~x.errored
  BY <1>2, <1>3 DEF StreamType
<1>5. stream' = [stream EXCEPT ![s] = x]
  BY <1>3 DEF HandOver
<1> HIDE DEF x
<1>6. StreamsOK' /\ stream'[s] = x /\ \A t \in Streams \ {s} : stream'[t] = stream[t]
  BY <1>1, <1>4, <1>5, OneStream
<1> QED BY <1>1, <1>4, <1>6 DEF Streamed

\* setUploadStream() before a request keeps the invariant.
LEMMA SetUploadStreamKeeps ==
  ASSUME Disciplined, IInv, NEW s \in Streams, SetUploadStream(s)
  PROVE  IInv'
<1>1. Types /\ Uploading /\ Parting
  BY TypeParts DEF IInv
<1>2. /\ ~isRunning /\ Fresh(s) /\ HandOver(s) /\ mime.stream = Nil
      /\ upload.stream = Nil /\ upload.error = Nil /\ ~upload.shouldEnd
      /\ upload' = [upload EXCEPT !.stream = s, !.readFunction = s, !.listening = @ \cup {s}]
      /\ UNCHANGED <<isRunning, closed, progress, mime, immediates, phase, source, abortedBy,
                     hasBody, fed, bodyEnded, returned, sendPaused, alive>>
  BY DEF SetUploadStream, Clean, curlVars, requestVars
<1>3. /\ StreamsOK' /\ stream'[s].taken = 0 /\ \A t \in Streams : Streamed(t)'
  BY <1>2, HandOverFacts
<1>4. upload \in UploadType /\ upload.listening = {}
  BY <1>1, <1>2 DEF Types, Uploading
<1>5. /\ upload' \in UploadType
      /\ upload'.stream = s /\ upload'.readFunction = s /\ upload'.listening = {s}
      /\ upload'.error = Nil /\ ~upload'.shouldEnd
  BY <1>2, <1>4 DEF UploadType
<1>6. Uploading'
  BY <1>2, <1>3, <1>5, NilIsNoStream DEF Uploading
<1>7. Parting'
  BY <1>2 DEF Parting
<1>8. progress' \in BOOLEAN /\ mime' \in MimeType
  BY <1>1, <1>2 DEF Types, Flags
<1> QED BY <1>2, <1>3, <1>5, <1>6, <1>7, <1>8, BetweenRequests

\* setUploadStream(null) between two requests keeps the invariant.
LEMMA UnsetUploadStreamKeeps ==
  ASSUME Disciplined, IInv, UnsetUploadStream
  PROVE  IInv'
<1>1. Types /\ Uploading /\ \A t \in Streams : Streamed(t)
  BY TypeParts DEF IInv
<1>2. /\ ~isRunning /\ upload.stream # Nil /\ upload.error = Nil
      /\ upload' = [upload EXCEPT !.stream = Nil, !.readFunction = Nil, !.listening = {}]
      /\ Leave(upload.listening)
      /\ UNCHANGED <<isRunning, closed, progress, mime, immediates, phase, source, abortedBy,
                     hasBody, fed, bodyEnded, returned, sendPaused, alive>>
  BY DEF UnsetUploadStream, curlVars, requestVars
<1>3. /\ StreamsOK' /\ \A t \in Streams : Streamed(t)'
  BY <1>1, <1>2, LeaveFacts DEF Streamed
<1>4. upload \in UploadType
  BY <1>1 DEF Types
<1>5. /\ upload' \in UploadType
      /\ upload'.stream = Nil /\ upload'.readFunction = Nil /\ upload'.listening = {}
      /\ upload'.error = Nil
  BY <1>2, <1>4 DEF UploadType
<1>6. Uploading'
  BY <1>5 DEF Uploading
<1>7. Parting'
  BY <1>1, <1>2 DEF Parting, Uploading
<1>8. progress' \in BOOLEAN /\ mime' \in MimeType
  BY <1>1, <1>2 DEF Types, Flags
<1> QED BY <1>2, <1>3, <1>5, <1>6, <1>7, <1>8, BetweenRequests

\* setMimePost() with a stream keeps the invariant.
LEMMA SetMimePostKeeps ==
  ASSUME IInv, NEW s \in Streams, SetMimePost(s)
  PROVE  IInv'
<1>1. Types /\ Uploading
  BY TypeParts DEF IInv
<1>2. /\ ~isRunning /\ Fresh(s) /\ HandOver(s) /\ mime = NoMime /\ upload.stream = Nil
      /\ mime' = [NoMime EXCEPT !.stream = s, !.listening = TRUE]
      /\ UNCHANGED <<isRunning, closed, progress, upload, immediates, phase, source, abortedBy,
                     hasBody, fed, bodyEnded, returned, sendPaused, alive>>
  BY DEF SetMimePost, curlVars, requestVars
<1>3. /\ StreamsOK' /\ stream'[s].taken = 0 /\ \A t \in Streams : Streamed(t)'
  BY <1>2, HandOverFacts
<1>4. mime' \in MimeType /\ mime'.stream = s /\ mime'.request = 0 /\ ~mime'.ended
  BY <1>2 DEF NoMime, MimeType
<1>5. Parting'
  BY <1>3, <1>4 DEF Parting
<1>6. Uploading'
  BY <1>1, <1>2 DEF Uploading
<1>7. progress' \in BOOLEAN /\ upload' \in UploadType
  BY <1>1, <1>2 DEF Types, Flags
<1> QED BY <1>2, <1>3, <1>4, <1>5, <1>6, <1>7, BetweenRequests

\* reset() without an upload stream keeps the invariant.
LEMMA ResetHandleKeeps ==
  ASSUME Disciplined, IInv, ResetHandle
  PROVE  IInv'
<1>1. Types /\ Uploading /\ \A t \in Streams : Streamed(t)
  BY TypeParts DEF IInv
<1>2. /\ ~isRunning /\ upload.stream = Nil /\ mime' = NoMime /\ Leave({mime.stream})
      /\ upload' = [upload EXCEPT !.readFunction = Nil]
      /\ UNCHANGED <<isRunning, closed, immediates, phase, source, abortedBy, hasBody, fed,
                     bodyEnded, returned, sendPaused, alive>>
  BY DEF ResetHandle, FreeMime, requestVars
<1>3. /\ StreamsOK' /\ \A t \in Streams : Streamed(t)'
  BY <1>1, <1>2, LeaveFacts DEF Streamed
<1>4. /\ upload' \in UploadType
      /\ upload'.stream = Nil /\ upload'.readFunction = Nil
      /\ upload'.listening = upload.listening /\ upload'.error = upload.error
  <2>1. upload \in UploadType
    BY <1>1 DEF Types
  <2> QED BY <2>1, <1>2 DEF UploadType
<1>5. Uploading'
  BY <1>1, <1>2, <1>4 DEF Uploading
<1>6. mime' \in MimeType /\ Parting'
  BY <1>2 DEF NoMime, MimeType, Parting
<1>7. progress' \in BOOLEAN
  BY DEF ResetHandle
<1> QED BY <1>2, <1>3, <1>4, <1>5, <1>6, <1>7, BetweenRequests

\* close() keeps the invariant, also in mid-transfer.
LEMMA CloseKeeps ==
  ASSUME IInv, Close
  PROVE  IInv'
<1>1. /\ Types /\ Ordered /\ Queued /\ Uploading
      /\ (\A t \in Streams : Streamed(t)) /\ \A x \in Requests : Sourced(x)
  BY TypeParts DEF IInv
<1>2. /\ returned = "none" /\ mime' = NoMime /\ Leave({mime.stream})
      /\ phase' = [r \in Requests |-> IF phase[r] \in {"added", "running"} THEN "abandoned"
                                                                           ELSE phase[r]]
      /\ UNCHANGED <<isRunning, progress, upload, immediates, source, hasBody, fed, bodyEnded,
                     abortedBy, returned, sendPaused, alive>>
  BY DEF Close, FreeMime
<1>3. /\ StreamsOK' /\ \A t \in Streams : Streamed(t)'
      /\ \A t \in Streams : t # mime.stream => stream'[t] = stream[t]
  BY <1>1, <1>2, LeaveFacts DEF Streamed
<1>4. /\ RequestsOK'
      /\ \A r \in Requests : phase'[r] = IF phase[r] \in {"added", "running"} THEN "abandoned"
                                                                             ELSE phase[r]
  BY <1>1, <1>2 DEF Types, RequestsOK
<1>5. mime' \in MimeType /\ mime'.stream = Nil
  BY <1>2 DEF NoMime, MimeType
<1>6. TypeOK'
  <2>1. closed' \in BOOLEAN
    BY DEF Close
  <2> QED BY <2>1, <1>1, <1>2, <1>3, <1>4, <1>5, TypePartsNext DEF Types, Flags
<1>7. \A r \in Requests : /\ InFlight(r)' <=> InFlight(r)
                          /\ Settled(r)' <=> Settled(r)
                          /\ phase'[r] = "idle" <=> phase[r] = "idle"
                          /\ phase'[r] = "done" <=> phase[r] = "done"
  BY <1>4 DEF InFlight, Settled
<1>8. Ordered' /\ Reading'
  BY <1>1, <1>2, <1>7 DEF Ordered, Reading
<1>9. Queued'
  BY <1>1, <1>2, <1>7 DEF Queued, Finals
<1>10. Uploading'
  <2>1. upload.stream \in Streams \cup {Nil}
    BY <1>1 DEF Types, UploadType
  <2>2. upload.stream # Nil => stream'[upload.stream] = stream[upload.stream]
    BY <2>1, <1>1, <1>3 DEF Uploading
  <2> QED BY <2>2, <1>1, <1>2, <1>5 DEF Uploading, Finished
<1>11. Parting'
  BY <1>5 DEF Parting
<1>12. \A r \in Requests : Sourced(r)'
  BY <1>1, <1>2, <1>4 DEF Sourced
<1> QED BY <1>3, <1>6, <1>8, <1>9, <1>10, <1>11, <1>12 DEF IInv

----------------------------------------------------------------------------
(* libcurl *)

\* A connection keeps the invariant.
LEMMA ConnectKeeps ==
  ASSUME IInv, NEW r \in Requests, Connect(r)
  PROVE  IInv'
<1>1. /\ Types /\ Ordered /\ Queued /\ Reading /\ Uploading /\ Parting
      /\ (\A t \in Streams : Streamed(t)) /\ \A x \in Requests : Sourced(x)
  BY TypeParts DEF IInv
<1>2. /\ phase[r] = "added" /\ (mime.stream # Nil => mime.request = r)
      /\ phase' = [phase EXCEPT ![r] = "running"] /\ sendPaused' = FALSE
      /\ UNCHANGED <<isRunning, closed, progress, upload, mime, immediates, stream, source,
                     hasBody, fed, bodyEnded, abortedBy, returned, alive>>
  BY DEF Connect, curlVars
<1>3. /\ RequestsOK'
      /\ \A x \in Requests : phase'[x] = IF x = r THEN "running" ELSE phase[x]
  BY <1>1, <1>2 DEF Types, RequestsOK
<1>4. TypeOK'
  BY <1>1, <1>2, <1>3, TypePartsNext DEF Types, Flags, StreamsOK
<1>5. Ordered' /\ Queued'
  BY <1>1, <1>2, <1>3 DEF Ordered, InFlight, Queued, Settled, Finals
<1>6. \A x \in Requests : InFlight(x) => x = r
  BY <1>1, <1>2, OneInFlight DEF InFlight
<1>7. returned = "none"
  BY <1>1, <1>2, <1>6 DEF Reading, InFlight
<1>8. Reading' /\ Uploading' /\ Parting'
  BY <1>1, <1>2, <1>3, <1>7 DEF Reading, Uploading, Parting, Finished
<1>9. ASSUME NEW x \in Requests
      PROVE  Sourced(x)'
  BY <1>1, <1>2, <1>3, <1>7 DEF Sourced, Finished
<1>10. \A t \in Streams : Streamed(t)'
  BY <1>1, <1>2 DEF Streamed
<1> QED BY <1>4, <1>5, <1>8, <1>9, <1>10 DEF IInv

\* What the call read(Ask) does to a Readable: a finished one gives nothing.
LEMMA Takes ==
  ASSUME Types, \A t \in Streams : Streamed(t), NEW s \in Streams, TakeFrom(s)
  PROVE  /\ Available(s) \in Nat /\ StreamsOK'
         /\ stream'[s].taken = stream[s].taken + Available(s)
         /\ \A t \in Streams \ {s} : stream'[t] = stream[t]
         /\ \A t \in Streams : Streamed(t)' /\ (Finished(t) => Finished(t)')
<1>1. /\ stream[s] \in StreamType /\ stream \in [Streams -> StreamType]
      /\ stream[s].taken <= stream[s].made
      /\ Ask \in Nat \ {0} /\ MaxBytes \in Nat
  BY SizesArePositive DEF Types, StreamsOK
<1>2. PICK n : n = Available(s)
  OBVIOUS
<1>3. stream[s].made \in Nat /\ stream[s].taken \in Nat /\ stream[s].eof \in BOOLEAN
  BY <1>1 DEF StreamType
<1>4. /\ n \in Nat /\ stream[s].taken + n <= stream[s].made /\ n <= Ask
      /\ stream[s].eof /\ n < Ask => stream[s].taken + n = stream[s].made
      /\ stream[s].taken = stream[s].made => n = 0
  BY <1>1, <1>2, <1>3 DEF Available
<1> DEFINE x == [stream[s] EXCEPT
              !.taken = @ + n,
              !.life = IF @ = "live" /\ stream[s].eof /\ n < Ask THEN "ending" ELSE @]
<1>5. /\ x \in StreamType /\ x.taken = stream[s].taken + n /\ x.taken <= x.made
      /\ x.made = stream[s].made /\ x.eof = stream[s].eof /\ x.errored = stream[s].errored
      /\ x.life = IF stream[s].life = "live" /\ stream[s].eof /\ n < Ask THEN "ending"
                                                                      ELSE stream[s].life
  <2>1. stream[s].taken + n \in 0..MaxBytes
    BY <1>1, <1>3, <1>4 DEF StreamType
  <2> QED BY <2>1, <1>1, <1>4 DEF StreamType
<1>6. stream' = [stream EXCEPT ![s] = x]
  BY <1>1, <1>2 DEF TakeFrom
<1> HIDE DEF x
<1>7. StreamsOK' /\ stream'[s] = x /\ \A t \in Streams \ {s} : stream'[t] = stream[t]
  BY <1>5, <1>6, OneStream, TypeParts
<1>8. Streamed(s)' /\ (Finished(s) => Finished(s)')
  BY <1>1, <1>4, <1>5, <1>7 DEF Streamed, Finished
<1>9. \A t \in Streams \ {s} : Streamed(t)' /\ (Finished(t) => Finished(t)')
  BY <1>7 DEF Streamed, Finished
<1> QED BY <1>2, <1>4, <1>5, <1>7, <1>8, <1>9

\* A read by the request that runs keeps the invariant, if libcurl is fed what is taken
\* from its source and is told of an end only when the source finished.
LEMMA ReadFrame ==
  ASSUME IInv, NEW r \in Requests, phase[r] = "running", ~bodyEnded,
         UNCHANGED <<isRunning, closed, progress, immediates, phase, source, hasBody, bodyEnded,
                     abortedBy, sendPaused, alive>>,
         StreamsOK', upload' \in UploadType, mime' \in MimeType, fed' \in Nat,
         returned' \in {"none", "data", "pause", "eof", "abort"},
         upload'.stream = upload.stream, upload'.readFunction = upload.readFunction,
         upload'.listening = upload.listening, upload'.error = upload.error,
         upload'.shouldEnd = upload.shouldEnd,
         mime'.stream = mime.stream, mime'.request = mime.request, mime'.ended = mime.ended,
         mime'.error = mime.error,
         \A t \in Streams : Streamed(t)' /\ (Finished(t) => Finished(t)'),
         source[r] # Nil => fed' = stream'[source[r]].taken,
         returned' = "eof" => source[r] # Nil /\ Finished(source[r])'
  PROVE  IInv'
<1>1. /\ Types /\ Ordered /\ Queued /\ Uploading /\ Parting
      /\ \A x \in Requests : Sourced(x)
  BY TypeParts DEF IInv
<1>2. /\ isRunning /\ \A x \in Requests : InFlight(x) => x = r
      /\ (mime.stream # Nil => mime.request = r)
      /\ r # 0
  BY SourceOfRunning, RequestsAreNumbered
<1>3. upload.stream \in Streams \cup {Nil} /\ mime.stream \in Streams \cup {Nil}
  BY <1>1 DEF Types, UploadType, MimeType
<1>4. TypeOK'
  BY <1>1, TypePartsNext DEF Types, Flags, RequestsOK
<1>5. Ordered' /\ Queued' /\ Reading'
  BY <1>1 DEF Ordered, InFlight, Queued, Settled, Finals, Reading
<1>6. Uploading'
  BY <1>1, <1>2, <1>3 DEF Uploading
<1>7. Parting'
  BY <1>1, <1>2, <1>3 DEF Parting
<1>8. ASSUME NEW x \in Requests
      PROVE  Sourced(x)'
  <2>1. Sourced(x)
    BY <1>1
  <2>2. CASE x = r
    BY <2>1, <2>2 DEF Sourced
  <2>3. CASE x # r
    BY <2>1, <2>3, <1>2 DEF Sourced, InFlight
  <2> QED BY <2>2, <2>3
<1> QED BY <1>4, <1>5, <1>6, <1>7, <1>8 DEF IInv

\* What is left as it is gives libcurl nothing.
LEMMA NothingTaken ==
  ASSUME IInv, NEW r \in Requests, phase[r] = "running", UNCHANGED <<stream, fed>>
  PROVE  /\ StreamsOK' /\ fed' \in Nat
         /\ \A t \in Streams : Streamed(t)' /\ (Finished(t) => Finished(t)')
         /\ source[r] # Nil => fed' = stream'[source[r]].taken
<1>1. Types /\ \A t \in Streams : Streamed(t)
  BY TypeParts DEF IInv
<1>2. source[r] # Nil => fed = stream[source[r]].taken
  BY SourceOfRunning
<1> QED BY <1>1, <1>2 DEF Types, StreamsOK, Streamed, Finished

\* What is taken from its source is fed to libcurl.
LEMMA TakenIsFed ==
  ASSUME IInv, NEW r \in Requests, phase[r] = "running", source[r] \in Streams,
         TakeFrom(source[r]), fed' = fed + Available(source[r])
  PROVE  /\ StreamsOK' /\ fed' \in Nat
         /\ \A t \in Streams : Streamed(t)' /\ (Finished(t) => Finished(t)')
         /\ fed' = stream'[source[r]].taken
<1>1. Types /\ fed \in Nat /\ \A t \in Streams : Streamed(t)
  BY TypeParts DEF IInv, Types
<1>2. fed = stream[source[r]].taken
  BY SourceOfRunning, NilIsNoStream
<1> QED BY <1>1, <1>2, Takes

\* The read callbacks keep the invariant.
LEMMA ReadKeeps ==
  ASSUME IInv, NEW r \in Requests, Read(r)
  PROVE  IInv'
<1>1. /\ Types /\ Uploading /\ Parting
      /\ upload \in UploadType /\ mime \in MimeType
      /\ upload.stream \in Streams \cup {Nil} /\ mime.stream \in Streams \cup {Nil}
  BY TypeParts DEF IInv, Types, UploadType, MimeType
<1>2. /\ phase[r] = "running" /\ ~bodyEnded
      /\ UNCHANGED <<isRunning, closed, progress, immediates, phase, source, hasBody, bodyEnded,
                     abortedBy, sendPaused, alive>>
  BY DEF Read, curlVars
<1>3. /\ mime.stream # Nil => source[r] = mime.stream
      /\ mime.stream = Nil => source[r] = upload.stream /\ upload.readFunction = upload.stream
  BY <1>2, SourceOfRunning
<1>4. CASE mime.stream # Nil /\ MimeRead(mime.stream) /\ UNCHANGED upload
  <2>1. source[r] = mime.stream /\ source[r] \in Streams /\ source[r] # Nil
    BY <1>1, <1>3, <1>4, NilIsNoStream
  <2>2. CASE mime.error /\ returned' = "abort" /\ UNCHANGED <<mime, stream, fed>>
    BY <2>2, <1>1, <1>2, <1>4, NothingTaken, ReadFrame
  <2>3. CASE ~mime.error /\ mime.ended /\ returned' = "eof" /\ UNCHANGED <<mime, stream, fed>>
    <3>1. Finished(source[r])
      BY <2>1, <2>3, <1>1, <1>4 DEF Parting
    <3>2. Finished(source[r])'
      BY <3>1, <2>3, <1>2 DEF Finished
    <3> QED BY <3>2, <2>1, <2>3, <1>1, <1>2, <1>4, NothingTaken, ReadFrame
  <2>4. CASE /\ ~mime.error /\ ~mime.ended /\ TakeFrom(mime.stream)
             /\ fed' = fed + Available(mime.stream)
             /\ \/ returned' = "data" /\ UNCHANGED mime
                \/ returned' = "pause" /\ mime' = [mime EXCEPT !.paused = TRUE]
    <3>1. /\ mime' \in MimeType
          /\ mime'.stream = mime.stream /\ mime'.request = mime.request
          /\ mime'.ended = mime.ended /\ mime'.error = mime.error
      BY <2>4, <1>1 DEF MimeType
    <3>2. /\ StreamsOK' /\ fed' \in Nat
          /\ \A t \in Streams : Streamed(t)' /\ (Finished(t) => Finished(t)')
          /\ fed' = stream'[source[r]].taken
      BY <2>1, <2>4, <1>2, TakenIsFed
    <3>3. returned' \in {"data", "pause"}
      BY <2>4
    <3> QED BY <3>1, <3>2, <3>3, <1>1, <1>2, <1>4, ReadFrame
  <2> QED BY <2>2, <2>3, <2>4, <1>4 DEF MimeRead
<1>5. CASE /\ mime.stream = Nil /\ upload.readFunction # Nil
           /\ UploadRead(upload.readFunction) /\ UNCHANGED mime
  <2> DEFINE s == upload.readFunction
  <2>1. source[r] = s /\ s = upload.stream /\ s \in Streams /\ s # Nil
    BY <1>1, <1>3, <1>5, NilIsNoStream
  <2>2. CASE /\ upload.shouldPause /\ returned' = "pause" /\ UNCHANGED <<stream, fed>>
             /\ upload' = [upload EXCEPT !.shouldPause = FALSE, !.paused = TRUE]
    <3>1. /\ upload' \in UploadType
          /\ upload'.stream = upload.stream /\ upload'.readFunction = upload.readFunction
          /\ upload'.listening = upload.listening /\ upload'.error = upload.error
          /\ upload'.shouldEnd = upload.shouldEnd
      BY <2>2, <1>1 DEF UploadType
    <3> QED BY <3>1, <2>2, <1>1, <1>2, <1>5, NothingTaken, ReadFrame
  <2>3. CASE /\ TakeFrom(s) /\ fed' = fed + Available(s)
             /\ \/ returned' = "data" /\ UNCHANGED upload
                \/ upload.shouldEnd /\ returned' = "eof" /\ UNCHANGED upload
                \/ returned' = "pause" /\ upload' = [upload EXCEPT !.paused = TRUE]
    <3>1. /\ upload' \in UploadType
          /\ upload'.stream = upload.stream /\ upload'.readFunction = upload.readFunction
          /\ upload'.listening = upload.listening /\ upload'.error = upload.error
          /\ upload'.shouldEnd = upload.shouldEnd
      BY <2>3, <1>1 DEF UploadType
    <3>2. /\ StreamsOK' /\ fed' \in Nat
          /\ \A t \in Streams : Streamed(t)' /\ (Finished(t) => Finished(t)')
          /\ fed' = stream'[source[r]].taken
      BY <2>1, <2>3, <1>2, TakenIsFed
    <3>3. returned' \in {"data", "eof", "pause"} /\ (returned' = "eof" => upload.shouldEnd)
      BY <2>3
    <3>4. returned' = "eof" => source[r] # Nil /\ Finished(source[r])'
      BY <2>1, <3>2, <3>3, <1>1, <1>2 DEF Uploading
    <3> QED BY <3>1, <3>2, <3>3, <3>4, <1>1, <1>2, <1>5, ReadFrame
  <2> QED BY <2>2, <2>3, <1>5 DEF UploadRead
<1>6. CASE /\ mime.stream = Nil /\ upload.readFunction = Nil
           /\ returned' = "abort" /\ UNCHANGED <<upload, mime, stream, fed>>
  BY <1>6, <1>1, <1>2, NothingTaken, ReadFrame
<1> QED BY <1>4, <1>5, <1>6 DEF Read

\* The end of a request that is in flight keeps the invariant: the queue holds one
\* immediate that ends it, and nobody else is aborted.
LEMMA SettleKeeps ==
  ASSUME IInv, NEW r \in Requests, phase[r] \in {"added", "running"},
         NEW how \in {"complete", "failed"}, Settle(r, how),
         UNCHANGED <<isRunning, closed, progress, upload, mime, stream, source, hasBody, fed, alive>>,
         returned' = "none", sendPaused' \in BOOLEAN, bodyEnded' \in BOOLEAN,
         abortedBy' \in {abortedBy, [abortedBy EXCEPT ![r] = source[r]]}
  PROVE  IInv'
<1>1. /\ Types /\ Ordered /\ Queued /\ Uploading /\ Parting
      /\ (\A t \in Streams : Streamed(t)) /\ \A x \in Requests : Sourced(x)
  BY TypeParts DEF IInv
<1>2. /\ phase' = [phase EXCEPT ![r] = how] /\ immediates' = Append(immediates, "finalize")
  BY DEF Settle
<1>3. /\ RequestsOK'
      /\ \A x \in Requests : phase'[x] = IF x = r THEN how ELSE phase[x]
      /\ \A x \in Requests : /\ abortedBy'[x] \in {abortedBy[x], source[x]}
                             /\ x # r => abortedBy'[x] = abortedBy[x]
  BY <1>1, <1>2 DEF Types, RequestsOK
<1>4. \A x \in Requests : InFlight(x) => x = r
  BY <1>1, OneInFlight DEF InFlight
<1>5. Finals(immediates) = {}
  BY <1>1, <1>4 DEF Queued, Settled, InFlight
<1>6. /\ immediates' \in Seq(Kinds)
      /\ Finals(immediates') = {Len(immediates) + 1}
  BY <1>1, <1>2, <1>5, AppendFinals DEF Types, Kinds
<1>7. TypeOK'
  BY <1>1, <1>3, <1>6, TypePartsNext DEF Types, Flags, StreamsOK
<1>8. Ordered'
  BY <1>1, <1>3 DEF Ordered, InFlight
<1>9. Queued'
  <2>1. Settled(r)'
    BY <1>3 DEF Settled
  <2>2. Finals(immediates)' = Finals(immediates')
    BY DEF Finals
  <2> QED BY <2>1, <2>2, <1>6 DEF Queued
<1>10. Reading' /\ Uploading' /\ Parting'
  <2>1. mime.request \in Requests \cup {0}
    BY <1>1 DEF Types, MimeType
  <2>2. Reading' /\ Uploading'
    BY <1>1 DEF Reading, Uploading, Finished
  <2>3. Parting'
    BY <2>1, <1>1, <1>3 DEF Parting, Finished
  <2> QED BY <2>2, <2>3
<1>11. ASSUME NEW x \in Requests
       PROVE  Sourced(x)'
  <2>1. abortedBy'[x] \in {Nil, source'[x]} /\ (phase'[x] = "idle" => abortedBy'[x] = Nil)
    BY <1>1, <1>3 DEF Sourced
  <2>2. phase'[x] \notin {"added", "running"}
    BY <1>3, <1>4 DEF InFlight
  <2> QED BY <2>1, <2>2 DEF Sourced
<1>12. \A t \in Streams : Streamed(t)'
  BY <1>1 DEF Streamed
<1> QED BY <1>7, <1>8, <1>9, <1>10, <1>11, <1>12 DEF IInv

\* What libcurl makes of a read keeps the invariant.
LEMMA ReturnsKeeps ==
  ASSUME IInv, NEW r \in Requests, Returns(r)
  PROVE  IInv'
<1>1. /\ Types /\ Ordered /\ Queued /\ Uploading /\ Parting
      /\ (\A t \in Streams : Streamed(t)) /\ \A x \in Requests : Sourced(x)
  BY TypeParts DEF IInv
<1>2. /\ phase[r] = "running" /\ returned' = "none"
      /\ bodyEnded' = (returned = "eof")
      /\ UNCHANGED <<isRunning, closed, progress, upload, mime, stream, source, hasBody, fed,
                     abortedBy, alive>>
  BY DEF Returns, curlVars
<1>3. sendPaused' \in BOOLEAN
  BY DEF Returns
<1>4. bodyEnded' \in BOOLEAN
  BY DEF Returns
<1>5. CASE returned = "abort"
  <2>1. Settle(r, "failed")
    BY <1>5 DEF Returns
  <2> QED BY <2>1, <1>2, <1>3, <1>4, SettleKeeps
<1>6. CASE returned # "abort"
  <2>1. UNCHANGED <<phase, immediates>>
    BY <1>6 DEF Returns
  <2>2. TypeOK'
    BY <2>1, <1>1, <1>2, <1>3, <1>4, TypePartsNext DEF Types, Flags, StreamsOK, RequestsOK
  <2>3. Ordered' /\ Queued' /\ Reading' /\ Uploading' /\ Parting' /\ \A t \in Streams : Streamed(t)'
    BY <2>1, <1>1, <1>2
       DEF Ordered, InFlight, Queued, Settled, Finals, Reading, Uploading, Parting, Finished, Streamed
  <2>4. \A x \in Requests : InFlight(x) => x = r
    BY <1>1, <1>2, OneInFlight DEF InFlight
  <2>5. ASSUME NEW x \in Requests
        PROVE  Sourced(x)'
    <3>1. Sourced(x)
      BY <1>1
    <3>2. phase[x] \in {"added", "running"} => x = r
      BY <2>4 DEF InFlight
    <3> QED BY <3>1, <3>2, <2>1, <1>2 DEF Sourced, Finished
  <2> QED BY <2>2, <2>3, <2>5 DEF IInv
<1> QED BY <1>5, <1>6

\* A request that fails, is answered or is aborted by its stream keeps the invariant.
LEMMA EndKeeps ==
  ASSUME IInv, NEW r \in Requests, Progress(r) \/ Fails(r) \/ Answers(r)
  PROVE  IInv'
<1>1. sendPaused \in BOOLEAN /\ bodyEnded \in BOOLEAN
  BY TypeParts DEF IInv, Types, Flags
<1>2. CASE Progress(r)
  <2>1. /\ phase[r] = "running" /\ upload.error # Nil /\ Settle(r, "failed")
        /\ abortedBy' = [abortedBy EXCEPT ![r] = upload.error]
        /\ returned' = "none"
        /\ UNCHANGED <<isRunning, closed, progress, upload, mime, stream, source, hasBody, fed,
                       bodyEnded, sendPaused, alive>>
    BY <1>2 DEF Progress, curlVars
  <2>2. upload.error = upload.stream /\ upload.stream # Nil /\ mime.stream = Nil
    BY <2>1 DEF IInv, Uploading
  <2>3. source[r] = upload.error
    BY <2>1, <2>2, SourceOfRunning
  <2>4. abortedBy' = [abortedBy EXCEPT ![r] = source[r]]
    BY <2>1, <2>3
  <2> QED BY <2>1, <2>4, <1>1, SettleKeeps
<1>3. CASE Fails(r)
  <2>1. /\ phase[r] \in {"added", "running"} /\ Settle(r, "failed") /\ returned' = "none"
        /\ UNCHANGED <<isRunning, closed, progress, upload, mime, stream, source, hasBody, fed,
                       bodyEnded, abortedBy, sendPaused, alive>>
    BY <1>3 DEF Fails, curlVars
  <2> QED BY <2>1, <1>1, SettleKeeps
<1>4. CASE Answers(r)
  <2>1. /\ phase[r] = "running" /\ Settle(r, "complete") /\ returned' = "none"
        /\ UNCHANGED <<isRunning, closed, progress, upload, mime, stream, source, hasBody, fed,
                       bodyEnded, abortedBy, sendPaused, alive>>
    BY <1>4 DEF Answers, curlVars
  <2> QED BY <2>1, <1>1, SettleKeeps
<1> QED BY <1>2, <1>3, <1>4

\* The immediate that ends a request keeps the invariant: it ends the one in flight.
LEMMA FinalizeKeeps ==
  ASSUME IInv, Finalize
  PROVE  IInv'
<1>1. /\ Types /\ Ordered /\ Queued /\ Reading /\ Uploading /\ Parting
      /\ (\A t \in Streams : Streamed(t)) /\ \A x \in Requests : Sourced(x)
  BY TypeParts DEF IInv
<1>2. /\ returned = "none" /\ immediates # << >> /\ Head(immediates) = "finalize"
      /\ immediates' = Tail(immediates)
      /\ upload' = NoUpload /\ Leave(upload.listening) /\ ~isRunning'
      /\ phase' = [r \in Requests |-> IF phase[r] \in {"complete", "failed"} THEN "done"
                                                                             ELSE phase[r]]
      /\ UNCHANGED <<closed, mime, source, hasBody, fed, bodyEnded, abortedBy, returned,
                     sendPaused, alive>>
  BY DEF Finalize, TakeImmediate, ResetInternalState
<1>3. isRunning' \in BOOLEAN /\ progress' \in BOOLEAN
  <2>1. isRunning' \in BOOLEAN
    BY DEF Finalize, ResetInternalState
  <2>2. progress' \in BOOLEAN
    BY DEF Finalize, ResetInternalState
  <2> QED BY <2>1, <2>2
<1>4. /\ immediates' \in Seq(Kinds) /\ 1 \in Finals(immediates)
      /\ \A i \in Finals(immediates') : i + 1 \in Finals(immediates)
  BY <1>1, <1>2, TailFinals DEF Types
<1>5. Finals(immediates') = {}
  <2>1. \A i \in Finals(immediates') : i \in Nat \ {0}
    BY <1>4 DEF Finals
  <2> QED BY <2>1, <1>1, <1>4 DEF Queued
<1>6. PICK y \in Requests : Settled(y)
  BY <1>1, <1>4 DEF Queued
<1>7. \A x \in Requests : InFlight(x) => x = y
  BY <1>1, <1>6, OneInFlight DEF InFlight, Settled
<1>8. /\ RequestsOK'
      /\ \A x \in Requests : phase'[x] = IF phase[x] \in {"complete", "failed"} THEN "done"
                                                                               ELSE phase[x]
      /\ \A x \in Requests : ~InFlight(x)'
  BY <1>1, <1>2, <1>6, <1>7 DEF Types, RequestsOK, InFlight, Settled
<1>9. /\ StreamsOK' /\ (\A t \in Streams : Streamed(t)')
      /\ \A t \in Streams : t \notin upload.listening => stream'[t] = stream[t]
  BY <1>1, <1>2, LeaveFacts DEF Streamed
<1>10. TypeOK'
  <2>1. upload' \in UploadType
    BY <1>2 DEF NoUpload, UploadType
  <2> QED BY <2>1, <1>1, <1>2, <1>3, <1>4, <1>8, <1>9, TypePartsNext DEF Types, Flags
<1>11. Ordered' /\ Reading'
  BY <1>1, <1>2, <1>8 DEF Ordered, Reading
<1>12. Queued'
  BY <1>5 DEF Queued, Finals
<1>13. Uploading'
  BY <1>2 DEF Uploading, NoUpload
<1>14. Parting'
  <2>1. mime.stream \in Streams \cup {Nil} /\ mime.request \in Requests \cup {0}
    BY <1>1 DEF Types, MimeType
  <2>2. mime.stream # Nil => stream'[mime.stream] = stream[mime.stream]
    BY <2>1, <1>1, <1>9 DEF Uploading
  <2> QED BY <2>1, <2>2, <1>1, <1>2, <1>8 DEF Parting, Finished
<1>15. \A x \in Requests : Sourced(x)'
  BY <1>1, <1>2, <1>8 DEF Sourced, InFlight
<1> QED BY <1>9, <1>10, <1>11, <1>12, <1>13, <1>14, <1>15 DEF IInv

----------------------------------------------------------------------------
(* The invariant *)

\* The initial states satisfy the invariant.
LEMMA Initially == Init => IInv
<1> SUFFICES ASSUME Init
             PROVE  IInv
  OBVIOUS
<1>1. /\ upload = NoUpload /\ mime = NoMime /\ immediates = << >>
      /\ stream = [s \in Streams |-> NewStream]
      /\ phase = [r \in Requests |-> "idle"] /\ source = [r \in Requests |-> Nil]
      /\ abortedBy = [r \in Requests |-> Nil] /\ fed = 0 /\ returned = "none"
  BY DEF Init
<1>2. Flags
  BY DEF Init, Flags
<1>3. StreamsOK
  <2>1. NewStream \in StreamType /\ NewStream.taken <= NewStream.made
    <3>1. 0 \in 0..MaxBytes
      BY SizesArePositive
    <3> QED BY <3>1 DEF NewStream, StreamType
  <2> QED BY <2>1, <1>1 DEF StreamsOK
<1>4. TypeOK
  <2>1. upload \in UploadType /\ mime \in MimeType
    BY <1>1 DEF NoUpload, NoMime, UploadType, MimeType
  <2>2. RequestsOK
    BY <1>1 DEF RequestsOK
  <2>3. immediates \in Seq(Kinds)
    BY <1>1
  <2> QED BY <2>1, <2>2, <2>3, <1>1, <1>2, <1>3, TypeParts DEF Types
<1>5. Ordered /\ Reading
  BY <1>1 DEF Ordered, InFlight, Reading
<1>6. Queued
  <2>1. Finals(immediates) = {}
    BY <1>1 DEF Finals
  <2> QED BY <2>1 DEF Queued
<1>7. Uploading /\ Parting
  BY <1>1 DEF Uploading, Parting, NoUpload, NoMime
<1>8. \A s \in Streams : Streamed(s)
  BY <1>1 DEF Streamed, NewStream
<1>9. \A r \in Requests : Sourced(r)
  BY <1>1 DEF Sourced
<1> QED BY <1>4, <1>5, <1>6, <1>7, <1>8, <1>9 DEF IInv

\* Every step keeps the invariant; one step of the proof per action.
LEMMA Preserved ==
  ASSUME Disciplined, IInv, [Next]_vars
  PROVE  IInv'
<1>1. CASE CallerStep
  <2>1. ASSUME NEW s \in Streams, SetUploadStream(s) \/ SetMimePost(s)
        PROVE  IInv'
    BY <2>1, SetUploadStreamKeeps, SetMimePostKeeps
  <2>2. ASSUME NEW r \in Requests, NEW body \in BOOLEAN, Perform(r, body)
        PROVE  IInv'
    BY <2>2, PerformKeeps
  <2>3. CASE UnsetUploadStream \/ ResetHandle \/ Close
    BY <2>3, UnsetUploadStreamKeeps, ResetHandleKeeps, CloseKeeps
  <2> QED BY <1>1, <2>1, <2>2, <2>3 DEF CallerStep
<1>2. ASSUME NEW s \in Streams, SourceStep(s) \/ Event(s)
      PROVE  IInv'
  BY <1>2, SourceStepKeeps, EmitReadableKeeps, EmitEndKeeps, EmitCloseKeeps DEF Event
<1>3. ASSUME NEW r \in Requests, TransferStep(r)
      PROVE  IInv'
  BY <1>3, ConnectKeeps, ReadKeeps, ReturnsKeeps, EndKeeps DEF TransferStep
<1>4. CASE Immediate
  BY <1>4, UnpauseKeeps, FinalizeKeeps DEF Immediate
<1>5. CASE UNCHANGED vars
  <2>1. UNCHANGED <<isRunning, closed, progress, upload, mime, immediates, stream, phase, source,
                    abortedBy, hasBody, fed, bodyEnded, returned, sendPaused, alive>>
    BY <1>5 DEF vars, curlVars, requestVars
  <2>2. Types /\ Queued /\ \A t \in Streams : Streamed(t)
    BY TypeParts DEF IInv
  <2>3. TypeOK' /\ Queued'
    BY <2>1, <2>2, SameFinals, TypePartsNext DEF Types, Flags, StreamsOK, RequestsOK
  <2>4. \A t \in Streams : (Finished(t) => Finished(t)') /\ Streamed(t)'
    BY <2>1, <2>2 DEF Finished, Streamed
  <2> QED BY <2>1, <2>3, <2>4, Aside
<1> QED BY <1>1, <1>2, <1>3, <1>4, <1>5 DEF Next

\* The invariant holds of every behavior, if a stream is set for one request.
THEOREM Invariance ==
  ASSUME Disciplined
  PROVE  Spec => []IInv
<1>1. Init => IInv
  BY Initially
<1>2. IInv /\ [Next]_vars => IInv'
  BY Preserved
<1> QED BY <1>1, <1>2, PTL DEF Spec

----------------------------------------------------------------------------
(* What it shows *)

\* libcurl is told that the body is complete only if it has every byte of the
\* request's own stream, which ended by itself, and only a request's own upload
\* stream aborts it (BodyWhole; the read callbacks and the listeners of
\* setUploadStream() and setDataStream()).
THEOREM BodyIsWhole ==
  ASSUME Disciplined
  PROVE  Spec => []BodyWhole
<1>1. IInv => BodyWhole
  <2> SUFFICES ASSUME IInv
               PROVE  BodyWhole
    OBVIOUS
  <2>1. TypeOK /\ \A r \in Requests : Sourced(r)
    BY DEF IInv
  <2>2. AbortedByOwnUpload
    BY <2>1 DEF AbortedByOwnUpload, Sourced
  <2>3. ASSUME NEW r \in Requests, phase[r] = "running", bodyEnded
        PROVE  /\ stream[source[r]].eof /\ ~stream[source[r]].errored
               /\ fed = stream[source[r]].made
    BY <2>1, <2>3 DEF Sourced, Finished
  <2> QED BY <2>1, <2>2, <2>3 DEF BodyWhole
<1> QED BY <1>1, Invariance, PTL

\* What a step takes from a stream, it takes for the request whose source it is.
LEMMA OwnReads ==
  ASSUME IInv, Next, NEW s \in Streams, stream'[s].taken > stream[s].taken
  PROVE  \E r \in Requests : phase[r] = "running" /\ source[r] = s
<1>1. /\ Types /\ (\A t \in Streams : Streamed(t))
      /\ \A t \in Streams : stream[t].taken \in Nat
  <2>1. Types /\ (\A t \in Streams : Streamed(t))
    BY TypeParts DEF IInv
  <2> QED BY <2>1, SizesArePositive DEF Types, StreamsOK, StreamType
<1> DEFINE Left == \E gone : Leave(gone)
<1>2. ~Left
  <2> SUFFICES ASSUME NEW gone, Leave(gone)
               PROVE  FALSE
    OBVIOUS
  <2> QED BY <1>1, LeaveFacts
<1>3. ~\E t \in Streams : Fresh(t) /\ HandOver(t)
  <2> SUFFICES ASSUME NEW t \in Streams, Fresh(t), HandOver(t)
               PROVE  FALSE
    OBVIOUS
  <2> QED BY <1>1, HandOverFacts
<1>4. stream' # stream
  BY <1>1
<1>5. ~\E t \in Streams : SourceStep(t) \/ Event(t)
  <2> SUFFICES ASSUME NEW t \in Streams, SourceStep(t) \/ Event(t)
               PROVE  stream'[s].taken = stream[s].taken
    BY <1>1
  <2>1. stream[t] \in StreamType /\ stream[s] \in StreamType /\ stream \in [Streams -> StreamType]
    BY <1>1 DEF Types, StreamsOK
  <2> QED BY <2>1 DEF SourceStep, Produce, EndOfData, Destroy, Event, EmitReadable, EmitEnd,
                      EmitClose, StreamType
<1>6. ~CallerStep /\ ~Immediate
  BY <1>2, <1>3, <1>4
     DEF CallerStep, SetUploadStream, SetMimePost, Perform, UnsetUploadStream, ResetHandle, Close,
         FreeMime, Immediate, Resume, Unpause, Finalize, ResetInternalState
<1>7. PICK r \in Requests : Read(r)
  <2>1. PICK r \in Requests : TransferStep(r)
    BY <1>5, <1>6 DEF Next
  <2> QED BY <2>1, <1>4 DEF TransferStep, Connect, Returns, Progress, Fails, Answers
<1>8. phase[r] = "running"
  BY <1>7 DEF Read
<1>9. source[r] \in Streams /\ TakeFrom(source[r])
  <2>1. /\ upload.stream \in Streams \cup {Nil} /\ mime.stream \in Streams \cup {Nil}
    BY <1>1 DEF Types, UploadType, MimeType
  <2>2. CASE mime.stream # Nil
    <3>1. TakeFrom(mime.stream)
      BY <2>2, <1>4, <1>7 DEF Read, MimeRead
    <3> QED BY <3>1, <2>1, <2>2, <1>8, SourceOfRunning
  <2>3. CASE mime.stream = Nil
    <3>1. upload.readFunction # Nil /\ TakeFrom(upload.readFunction)
      BY <2>3, <1>4, <1>7 DEF Read, UploadRead
    <3> QED BY <3>1, <2>1, <2>3, <1>8, SourceOfRunning
  <2> QED BY <2>2, <2>3
<1>10. s = source[r]
  <2>1. \A t \in Streams \ {source[r]} : stream'[t] = stream[t]
    BY <1>1, <1>9, Takes
  <2> QED BY <2>1, <1>1
<1> QED BY <1>8, <1>10

\* Only the request that runs reads a stream, and only its own (ReadsOwnSource).
THEOREM OnlyItsSource ==
  ASSUME Disciplined
  PROVE  Spec => ReadsOwnSource
<1>1. IInv /\ [Next]_vars =>
        [\A s \in Streams : stream'[s].taken > stream[s].taken =>
           \E r \in Requests : phase[r] = "running" /\ source[r] = s]_vars
  BY OwnReads
<1> QED BY <1>1, Invariance, PTL DEF Spec, ReadsOwnSource

=============================================================================
