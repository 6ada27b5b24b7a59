---------------------------- MODULE RequestBody ----------------------------
(***************************************************************************)
(* The body of a request that libcurl reads from a Node.js Readable: the   *)
(* upload stream of a Curl (setUploadStream, src/lib/Curl.ts) and the      *)
(* stream of a MIME part (setDataStream, src/lib/CurlMimePart.ts).         *)
(*                                                                         *)
(* libcurl asks when it likes and pauses when it is told to; the Readable  *)
(* tells what happened to it in events of its own.  Events also run after  *)
(* the read callback returned and before libcurl has seen what it          *)
(* returned, which is why the transfer is unpaused from an immediate.      *)
(***************************************************************************)
EXTENDS Integers, Sequences, SequencesExt

CONSTANTS
  Requests,   \* the requests of one behavior, numbered in their order
  Streams,    \* the Readables, each the source of one body, numbered in their order
  Nil,        \* no stream
  Ask,        \* what libcurl asks the read callback for
  MaxBytes,   \* bound on what a Readable produces
  Disciplined \* one stream for one request, see SetUploadStream

ASSUME RequestsAreNumbered == Requests \subseteq Nat \ {0}
ASSUME StreamsAreNumbered == Streams \subseteq Nat \ {0}
ASSUME NilIsNoStream == Nil \notin Streams
ASSUME SizesArePositive == {Ask, MaxBytes} \subseteq Nat \ {0}
ASSUME DisciplineIsAChoice == Disciplined \in BOOLEAN

VARIABLES
  isRunning, closed, progress,  \* the Curl; its progress function is installed
  upload,      \* readFunctionStream, READFUNCTION, listeners, the three flags and streamError
  mime,        \* the part with a stream the Easy holds, and the locals of setDataStream
  immediates,  \* the queue of setImmediate
  stream,      \* the Readables
  phase, source, abortedBy,  \* per request
  hasBody, fed, bodyEnded,  \* of the request that runs; fed counts bytes
  returned,    \* what the read callback returned and libcurl has not looked at yet
  sendPaused,  \* libcurl does not ask
  alive        \* FALSE after an uncaught exception

curlVars    == <<isRunning, closed, progress>>
requestVars == <<phase, source, abortedBy, hasBody, fed, bodyEnded>>
vars == <<curlVars, upload, mime, immediates, stream, requestVars, returned, sendPaused,
          alive>>

NoUpload == [stream |-> Nil, readFunction |-> Nil, listening |-> {}, error |-> Nil,
             shouldEnd |-> FALSE, shouldPause |-> FALSE, paused |-> FALSE]
NoMime   == [stream |-> Nil, request |-> 0, listening |-> FALSE, ended |-> FALSE,
             error |-> FALSE, paused |-> FALSE]

\* life: "new" (not handed over), "live", "ending" ('end' is due), "ended",
\* "destroyed" ('close' is due), "closed", "left" (nobody listens any more).
NewStream == [made |-> 0, taken |-> 0, eof |-> FALSE, life |-> "new", errored |-> FALSE,
              due |-> FALSE]

Init ==
  /\ isRunning = FALSE /\ closed = FALSE /\ progress = FALSE
  /\ upload = NoUpload /\ mime = NoMime /\ immediates = <<>>
  /\ stream = [s \in Streams |-> NewStream]
  /\ phase = [r \in Requests |-> "idle"] /\ source = [r \in Requests |-> Nil]
  /\ hasBody = FALSE /\ fed = 0 /\ bodyEnded = FALSE
  /\ abortedBy = [r \in Requests |-> Nil]
  /\ returned = "none" /\ sendPaused = FALSE /\ alive = TRUE

Fresh(s) ==
  /\ stream[s].life = "new"
  /\ \A x \in Streams : x < s => stream[x].life # "new"

\* A stream without listeners is out of the picture, whatever happens to it.
Leave(streams) ==
  stream' = [s \in Streams |-> IF s \in streams THEN [NewStream EXCEPT !.life = "left"]
                                               ELSE stream[s]]

HandOver(s) == stream' = [stream EXCEPT ![s].life = "live"]

\* A request with a connection: curl_easy_pause() works on it.
Connected == \E r \in Requests : phase[r] = "running"

----------------------------------------------------------------------------
(* The caller *)

\* No stream is set, and none that was left a flag behind.
Clean ==
  upload.stream = Nil /\ upload.error = Nil /\ ~upload.shouldEnd /\ ~upload.shouldPause

\* The listeners of a stream set before stay, and so do the flags: only
\* resetInternalState() clears them.  A disciplined caller sets one stream per
\* request, before perform().
SetUploadStream(s) ==
  /\ alive /\ ~closed /\ Fresh(s) /\ upload.stream # s /\ mime.stream = Nil
  /\ Disciplined => ~isRunning /\ Clean
  /\ upload' = [upload EXCEPT !.stream = s, !.readFunction = s, !.listening = @ \cup {s}]
  /\ HandOver(s)
  /\ UNCHANGED <<curlVars, mime, immediates, requestVars, returned, sendPaused,
                 alive>>

\* setUploadStream(null)
UnsetUploadStream ==
  /\ alive /\ ~closed /\ upload.stream # Nil
  /\ Disciplined => ~isRunning /\ upload.error = Nil
  /\ upload' = [upload EXCEPT !.stream = Nil, !.readFunction = Nil, !.listening = {}]
  /\ Leave(upload.listening)
  /\ UNCHANGED <<curlVars, mime, immediates, requestVars, returned, sendPaused,
                 alive>>

\* Easy.setMimePost() with a part of type 'stream'.
SetMimePost(s) ==
  /\ alive /\ ~closed /\ ~isRunning /\ Fresh(s)
  /\ mime = NoMime /\ upload.stream = Nil
  /\ mime' = [mime EXCEPT !.stream = s, !.listening = TRUE]
  /\ HandOver(s)
  /\ UNCHANGED <<curlVars, upload, immediates, requestVars, returned, sendPaused, alive>>

\* A request may have a body without a stream: UPLOAD stays set after the
\* stream of an earlier request is gone.
Perform(r, body) ==
  /\ alive /\ ~closed /\ ~isRunning /\ phase[r] = "idle"
  /\ \A x \in Requests : x < r => phase[x] = "done"
  /\ isRunning' = TRUE
  /\ progress' = (progress \/ upload.stream # Nil)
  /\ phase' = [phase EXCEPT ![r] = "added"]
  /\ body \/ (mime.stream = Nil /\ upload.stream = Nil)
  /\ hasBody' = body /\ fed' = 0 /\ bodyEnded' = FALSE
  /\ source' = [source EXCEPT ![r] = IF mime.stream # Nil THEN mime.stream ELSE upload.stream]
  /\ mime' = IF mime.request = 0 /\ mime.stream # Nil THEN [mime EXCEPT !.request = r] ELSE mime
  /\ UNCHANGED <<closed, upload, immediates, stream, abortedBy, returned,
                 sendPaused, alive>>

\* The free callback of the part: cleanup() and stream.destroy().
FreeMime ==
  /\ mime' = NoMime
  /\ Leave({mime.stream})

\* Curl.reset() resets the Easy, but not the state of the Curl: it still has
\* its upload stream, without the READFUNCTION.
ResetHandle ==
  /\ alive /\ ~closed /\ ~isRunning
  /\ Disciplined => upload.stream = Nil
  /\ FreeMime
  /\ upload' = [upload EXCEPT !.readFunction = Nil]
  /\ progress' = FALSE
  /\ UNCHANGED <<isRunning, closed, immediates, requestVars, returned, sendPaused, alive>>

\* Curl.close() also removes a handle in mid-transfer; isRunning and the
\* listeners on the upload stream stay.
Close ==
  /\ alive /\ ~closed /\ returned = "none"
  /\ closed' = TRUE
  /\ FreeMime
  /\ phase' = [r \in Requests |-> IF phase[r] \in {"added", "running"} THEN "abandoned"
                                                                        ELSE phase[r]]
  /\ UNCHANGED <<isRunning, progress, upload, immediates, source, hasBody, fed, bodyEnded, abortedBy,
                 returned, sendPaused, alive>>

----------------------------------------------------------------------------
(* Node.js: what a Readable does *)

UploadListens(s) == s \in upload.listening
MimeListens(s)   == mime.stream = s /\ mime.listening

\* A Readable asks its source while somebody listens to 'readable'.
Wanted(s) == UploadListens(s) \/ MimeListens(s)

Produce(s) ==
  /\ alive /\ Wanted(s) /\ stream[s].life = "live" /\ ~stream[s].eof /\ stream[s].made < MaxBytes
  /\ stream' = [stream EXCEPT ![s].made = @ + 1, ![s].due = TRUE]
  /\ UNCHANGED <<curlVars, upload, mime, immediates, requestVars, returned, sendPaused, alive>>

EndOfData(s) ==
  /\ alive /\ Wanted(s) /\ stream[s].life = "live" /\ ~stream[s].eof
  /\ stream' = [stream EXCEPT ![s].eof = TRUE, ![s].due = TRUE]
  /\ UNCHANGED <<curlVars, upload, mime, immediates, requestVars, returned, sendPaused, alive>>

Destroy(s, error) ==
  /\ alive /\ Wanted(s) /\ stream[s].life = "live"
  /\ stream' = [stream EXCEPT ![s].life = "destroyed", ![s].errored = error]
  /\ UNCHANGED <<curlVars, upload, mime, immediates, requestVars, returned, sendPaused, alive>>

\* read(Ask): all of it or nothing, until the source has ended.
Available(s) ==
  LET buffered == stream[s].made - stream[s].taken IN
  IF buffered >= Ask THEN Ask ELSE IF stream[s].eof THEN buffered ELSE 0

\* A read past the last byte makes 'end' due.
TakeFrom(s) ==
  LET n == Available(s) IN
  stream' = [stream EXCEPT
    ![s].taken = @ + n,
    ![s].life = IF @ = "live" /\ stream[s].eof /\ n < Ask THEN "ending" ELSE @]

----------------------------------------------------------------------------
(* Listeners *)

\* [mutant] the listener unpauses the transfer itself.
WakeAtOnce(s) ==
  /\ sendPaused' = IF (UploadListens(s) /\ upload.paused) \/ (MimeListens(s) /\ mime.paused)
                     THEN FALSE ELSE sendPaused
  /\ UNCHANGED immediates

\* resumeIfPaused() and deferredUnpause(): an immediate will unpause.
Wake(s) ==
  /\ immediates' = immediates
       \o (IF UploadListens(s) /\ upload.paused THEN <<"resume">> ELSE <<>>)
       \o (IF MimeListens(s) /\ mime.paused THEN <<"unpause">> ELSE <<>>)
  /\ UNCHANGED sendPaused

EmitReadable(s) ==
  /\ alive /\ Wanted(s) /\ stream[s].due /\ stream[s].life \in {"live", "ending"}
  /\ stream' = [stream EXCEPT ![s].due = FALSE]
  /\ Wake(s)
  /\ upload' = IF UploadListens(s) THEN [upload EXCEPT !.paused = FALSE] ELSE upload
  /\ mime' = IF MimeListens(s) THEN [mime EXCEPT !.paused = FALSE] ELSE mime
  /\ UNCHANGED <<curlVars, requestVars, returned, alive>>

EmitEnd(s) ==
  /\ alive /\ stream[s].life = "ending"
  /\ stream' = [stream EXCEPT ![s].life = "ended"]
  /\ Wake(s)
  /\ upload' = IF UploadListens(s)
                 THEN [upload EXCEPT !.shouldEnd = TRUE, !.paused = FALSE] ELSE upload
  /\ mime' = IF MimeListens(s)
               THEN [mime EXCEPT !.ended = TRUE, !.paused = FALSE, !.listening = FALSE]
               ELSE mime
  /\ UNCHANGED <<curlVars, requestVars, returned, alive>>

\* 'error' and 'close' of a destroyed stream come in one tick.  A MIME part
\* does not listen to 'close'.
EmitClose(s) ==
  LET errored     == stream[s].life = "destroyed" /\ stream[s].errored
      uploadFails == /\ UploadListens(s)
                     /\ errored \/ (~upload.shouldEnd /\ upload.error = Nil)
      mimeFails   == MimeListens(s) /\ errored
  IN
  /\ alive /\ stream[s].life \in {"ended", "destroyed"}
  /\ stream' = [stream EXCEPT ![s].life = "closed"]
  /\ IF uploadFails \/ mimeFails THEN Wake(s) ELSE UNCHANGED <<immediates, sendPaused>>
  /\ upload' = IF uploadFails
                 THEN [upload EXCEPT !.error = s, !.shouldPause = TRUE, !.paused = FALSE]
                 ELSE upload
  /\ mime' = IF mimeFails
               THEN [mime EXCEPT !.error = TRUE, !.ended = TRUE, !.paused = FALSE,
                                 !.listening = FALSE]
               ELSE mime
  /\ UNCHANGED <<curlVars, requestVars, returned, alive>>

----------------------------------------------------------------------------
(* The read callbacks *)

\* [mutant] nothing to read is taken for the end of the body.
UploadEndsOnEmpty(s) ==
  /\ TakeFrom(s)
  /\ fed' = fed + Available(s)
  /\ returned' = IF Available(s) > 0 THEN "data" ELSE "eof"
  /\ UNCHANGED upload

\* The READFUNCTION of setUploadStream() for the stream s.
UploadRead(s) ==
  \/ /\ upload.shouldPause
     /\ upload' = [upload EXCEPT !.shouldPause = FALSE, !.paused = TRUE]
     /\ returned' = "pause"
     /\ UNCHANGED <<stream, fed>>
  \/ /\ ~upload.shouldPause
     /\ TakeFrom(s)
     /\ fed' = fed + Available(s)
     /\ \/ Available(s) > 0 /\ returned' = "data" /\ UNCHANGED upload
        \/ Available(s) = 0 /\ upload.shouldEnd /\ returned' = "eof" /\ UNCHANGED upload
        \/ /\ Available(s) = 0 /\ ~upload.shouldEnd
           /\ returned' = "pause"
           /\ upload' = [upload EXCEPT !.paused = TRUE]

\* The read callback of setDataStream().
MimeRead(s) ==
  \/ mime.error /\ returned' = "abort" /\ UNCHANGED <<mime, stream, fed>>
  \/ ~mime.error /\ mime.ended /\ returned' = "eof" /\ UNCHANGED <<mime, stream, fed>>
  \/ /\ ~mime.error /\ ~mime.ended
     /\ TakeFrom(s)
     /\ fed' = fed + Available(s)
     /\ \/ Available(s) > 0 /\ returned' = "data" /\ UNCHANGED mime
        \/ /\ Available(s) = 0 /\ returned' = "pause"
           /\ mime' = [mime EXCEPT !.paused = TRUE]

\* Without a READFUNCTION the native callback aborts.
Read(r) ==
  /\ alive /\ phase[r] = "running" /\ hasBody
  /\ ~sendPaused /\ returned = "none" /\ ~bodyEnded
  /\ \/ mime.stream # Nil /\ MimeRead(mime.stream) /\ UNCHANGED upload
     \/ /\ mime.stream = Nil /\ upload.readFunction # Nil
        /\ UploadRead(upload.readFunction) /\ UNCHANGED mime
     \/ /\ mime.stream = Nil /\ upload.readFunction = Nil
        /\ returned' = "abort" /\ UNCHANGED <<upload, mime, stream, fed>>
  /\ UNCHANGED <<curlVars, immediates, phase, source, hasBody, bodyEnded, abortedBy, sendPaused, alive>>

----------------------------------------------------------------------------
(* libcurl *)

\* The promise is settled, its reaction queues the immediate.
Settle(r, how) ==
  /\ phase' = [phase EXCEPT ![r] = how]
  /\ immediates' = Append(immediates, "finalize")

\* A MIME body that was sent before cannot be rewound, its part has no seek.
Connect(r) ==
  /\ alive /\ phase[r] = "added" /\ (mime.stream # Nil => mime.request = r)
  /\ phase' = [phase EXCEPT ![r] = "running"]
  /\ sendPaused' = FALSE
  /\ UNCHANGED <<curlVars, upload, mime, immediates, stream, source, hasBody, fed, bodyEnded,
                 abortedBy, returned, alive>>

\* libcurl looks at what the read callback returned.
Returns(r) ==
  /\ alive /\ phase[r] = "running" /\ returned # "none"
  /\ returned' = "none"
  /\ sendPaused' = (returned = "pause")
  /\ bodyEnded' = (returned = "eof")
  /\ IF returned = "abort" THEN Settle(r, "failed") ELSE UNCHANGED <<phase, immediates>>
  /\ UNCHANGED <<curlVars, upload, mime, stream, source, hasBody, fed, abortedBy, alive>>

\* streamModeProgressFunction() throws streamError, also while paused.
Progress(r) ==
  /\ alive /\ phase[r] = "running" /\ returned = "none"
  /\ progress /\ upload.error # Nil
  /\ abortedBy' = [abortedBy EXCEPT ![r] = upload.error]
  /\ Settle(r, "failed")
  /\ UNCHANGED <<curlVars, upload, mime, stream, source, hasBody, fed, bodyEnded, returned,
                 sendPaused, alive>>

Fails(r) ==
  /\ alive /\ phase[r] \in {"added", "running"} /\ returned = "none"
  /\ Settle(r, "failed")
  /\ UNCHANGED <<curlVars, upload, mime, stream, source, hasBody, fed, bodyEnded, abortedBy, returned,
                 sendPaused, alive>>

\* The peer may answer before it has the body.
Answers(r) ==
  /\ alive /\ phase[r] = "running" /\ returned = "none"
  /\ Settle(r, "complete")
  /\ UNCHANGED <<curlVars, upload, mime, stream, source, hasBody, fed, bodyEnded, abortedBy, returned,
                 sendPaused, alive>>

----------------------------------------------------------------------------
(* Immediates: never while libcurl is on the stack *)

TakeImmediate(kind) ==
  /\ alive /\ returned = "none"
  /\ immediates # <<>> /\ Head(immediates) = kind
  /\ immediates' = Tail(immediates)

\* pause(CurlPause.Cont) throws without a connection, and nobody catches it.
Resume ==
  /\ TakeImmediate("resume")
  /\ sendPaused' = (sendPaused /\ ~(isRunning /\ Connected))
  /\ alive' = (isRunning => Connected)
  /\ UNCHANGED <<curlVars, upload, mime, stream, requestVars, returned>>

\* The unpause of setMimePost() ignores what pause() returns, which throws
\* when the Easy is closed.
Unpause ==
  /\ TakeImmediate("unpause")
  /\ sendPaused' = (sendPaused /\ ~Connected)
  /\ alive' = ~closed
  /\ UNCHANGED <<curlVars, upload, mime, stream, requestVars, returned>>

\* [mutant] the listeners and the READFUNCTION of the stream stay.
ResetFlagsOnly ==
  /\ isRunning' = FALSE
  /\ progress' = (progress /\ upload.stream = Nil)
  /\ upload' = [NoUpload EXCEPT !.listening = upload.listening,
                                !.readFunction = upload.readFunction]
  /\ UNCHANGED stream

ResetInternalState ==
  /\ isRunning' = FALSE
  /\ progress' = (progress /\ upload.stream = Nil)
  /\ upload' = NoUpload
  /\ Leave(upload.listening)

\* onEnd() or onError() of the request whose promise is settled.
Finalize ==
  /\ TakeImmediate("finalize")
  /\ ResetInternalState
  /\ phase' = [r \in Requests |-> IF phase[r] \in {"complete", "failed"} THEN "done"
                                                                          ELSE phase[r]]
  /\ UNCHANGED <<closed, mime, source, hasBody, fed, bodyEnded, abortedBy, returned,
                 sendPaused, alive>>

----------------------------------------------------------------------------
CallerStep ==
  \/ \E s \in Streams : SetUploadStream(s) \/ SetMimePost(s)
  \/ \E r \in Requests, body \in BOOLEAN : Perform(r, body)
  \/ UnsetUploadStream
  \/ ResetHandle
  \/ Close

SourceStep(s) == Produce(s) \/ EndOfData(s) \/ \E error \in BOOLEAN : Destroy(s, error)

Event(s) == EmitReadable(s) \/ EmitEnd(s) \/ EmitClose(s)

TransferStep(r) ==
  \/ Connect(r)
  \/ Read(r)
  \/ Returns(r)
  \/ Progress(r)
  \/ Fails(r)
  \/ Answers(r)

Immediate == Resume \/ Unpause \/ Finalize

Next ==
  \/ CallerStep
  \/ \E s \in Streams : SourceStep(s) \/ Event(s)
  \/ \E r \in Requests : TransferStep(r)
  \/ Immediate

Spec == Init /\ [][Next]_vars

\* Node.js runs ticks and immediates, libcurl connects or fails, asks while it
\* may and calls the progress function, the peer answers a whole request, and a
\* source ends.
Fairness ==
  /\ WF_vars(Immediate)
  /\ \A s \in Streams : WF_vars(Event(s)) /\ WF_vars(EndOfData(s))
  /\ \A r \in Requests :
       /\ WF_vars(Connect(r)) /\ WF_vars(Returns(r)) /\ WF_vars(phase[r] = "added" /\ Fails(r))
       /\ SF_vars(Read(r)) /\ SF_vars(Progress(r))
       /\ SF_vars((hasBody => bodyEnded) /\ Answers(r))

FairSpec == Spec /\ Fairness

----------------------------------------------------------------------------
(* Properties *)

\* Values stay in their ranges and no stream gives more than it got.
TypeOK ==
  /\ {isRunning, closed, progress, sendPaused, alive} \subseteq BOOLEAN
  /\ upload \in [stream : Streams \cup {Nil}, readFunction : Streams \cup {Nil},
                 listening : SUBSET Streams, error : Streams \cup {Nil},
                 shouldEnd : BOOLEAN, shouldPause : BOOLEAN, paused : BOOLEAN]
  /\ mime \in [stream : Streams \cup {Nil}, request : Requests \cup {0}, listening : BOOLEAN,
               ended : BOOLEAN, error : BOOLEAN, paused : BOOLEAN]
  /\ immediates \in Seq({"resume", "unpause", "finalize"})
  /\ stream \in [Streams -> [made : 0..MaxBytes, taken : 0..MaxBytes, eof : BOOLEAN,
                             life : {"new", "live", "ending", "ended", "destroyed", "closed", "left"},
                             errored : BOOLEAN, due : BOOLEAN]]
  /\ \A s \in Streams : stream[s].taken <= stream[s].made
  /\ phase \in [Requests -> {"idle", "added", "running", "complete", "failed", "done",
                             "abandoned"}]
  /\ source \in [Requests -> Streams \cup {Nil}]
  /\ hasBody \in BOOLEAN /\ fed \in Nat /\ bodyEnded \in BOOLEAN
  /\ abortedBy \in [Requests -> Streams \cup {Nil}]
  /\ returned \in {"none", "data", "pause", "eof", "abort"}

\* A request is aborted by the error of its own upload stream, never by what
\* happens to the stream of an earlier request (Curl.ts:918-966).
AbortedByOwnUpload ==
  \A r \in Requests : abortedBy[r] \in {Nil, source[r]}

\* libcurl is told that the body is complete only if it has every byte of a
\* stream that ended by itself; a stream that is destroyed on the way never makes a
\* short body that looks whole (Curl.ts:559-606, CurlMimePart.ts:442-496); nor does
\* the stream of another request end it.
BodyWhole ==
  /\ TypeOK /\ AbortedByOwnUpload
  /\ \A r \in Requests :
       phase[r] = "running" /\ bodyEnded =>
         /\ stream[source[r]].eof /\ ~stream[source[r]].errored
         /\ fed = stream[source[r]].made

\* Only the request that runs reads a stream, and only its own: a stream keeps what
\* is left of it when its request ends early.
ReadsOwnSource ==
  [][\A s \in Streams : stream'[s].taken > stream[s].taken =>
       \E r \in Requests : phase[r] = "running" /\ source[r] = s]_vars

\* Sources that end or are destroyed do not leave a transfer paused: whatever
\* the order of libcurl's reads, the events and the immediates, the request
\* ends.  Excepted is the part whose stream is destroyed without an error: no
\* listener hears of it, and the transfer stays paused.
EveryBodyEnds ==
  \A r \in Requests :
    (phase[r] = "running")
      ~> (\/ phase[r] = "done" \/ closed \/ ~alive
          \/ (/\ mime.stream # Nil /\ ~stream[mime.stream].errored
              /\ stream[mime.stream].life \in {"destroyed", "closed"}))
=============================================================================
