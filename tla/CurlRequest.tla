---------------------------- MODULE CurlRequest ----------------------------
(***************************************************************************)
(* The life of a request of the Curl class (src/lib/Curl.ts): perform(),   *)
(* the promise reactions of Multi.perform(), the setImmediate that removes *)
(* the handle from its multi, and the 'end' or 'error' event; and the      *)
(* calls that may come in between: close(), reset(), setMulti(), the close *)
(* of a custom Multi, and perform() again.                                 *)
(*                                                                         *)
(* A promise settled inside libcurl has its reaction run as a microtask,   *)
(* possibly before libcurl has returned; the reaction only queues an       *)
(* immediate, which runs from the loop.  Between those steps any other     *)
(* JavaScript may run.  Multi itself is what PerformContract says of it.   *)
(***************************************************************************)
EXTENDS Naturals, Sequences

CONSTANTS
  Curls,        \* Curl instances
  Multis,       \* Multi instances
  Default,      \* the Multi every Curl uses unless setMulti() was called
  Requests,     \* bound on the successful perform() calls of one behavior
  Nil,          \* no multi, no request
  MaxChunks,    \* bound on the chunks of one response
  Disciplined   \* callers attach listeners, close and reset only idle Curls,
                \* and close only Multis that nobody runs in

ASSUME DefaultIsMulti == Default \in Multis
ASSUME NilIsNothing == Nil \notin Multis \cup Requests
ASSUME ChunksAreCounted == MaxChunks \in Nat

VARIABLES
  \* Curl and its Easy
  isOpen,         \* of the Easy
  isRunning,
  multiInstance,
  listening,      \* 'end' and 'error' listeners are attached
  chunks,         \* the response chunks stored: pairs of request and number
  inside,         \* the Easy's isInsideMultiHandle
  member,         \* the multi libcurl has the Easy in
  multiOpen,
  \* requests
  phase, owner,
  multi,          \* the Multi perform() used, captured by the reactions
  answer, threw,  \* libcurl's code; a callback of the transfer threw
  received,       \* chunks libcurl delivered
  event, payload, \* the event emitted to listeners, and the data it carried
  immediates,     \* the queue of setImmediate
  \* control
  at,             \* "dead" after an uncaught exception
  activeMulti,    \* the multi inside curl_multi_socket_action
  active          \* the request whose callback or listener is on the stack

curlVars    == <<isOpen, isRunning, multiInstance, listening, chunks>>
insideVars  == <<inside, member, multiOpen>>
requestVars == <<phase, owner, multi, answer, threw, received, event, payload>>
loopVars    == <<at, activeMulti, active>>
vars == <<curlVars, insideVars, requestVars, immediates, loopVars>>

Phases == {"idle", "running", "answered", "settled", "scheduled", "done", "abandoned"}

Init ==
  /\ isOpen = [c \in Curls |-> TRUE]
  /\ isRunning = [c \in Curls |-> FALSE]
  /\ multiInstance = [c \in Curls |-> Default]
  /\ listening = [c \in Curls |-> FALSE]
  /\ chunks = [c \in Curls |-> {}]
  /\ inside = [c \in Curls |-> FALSE]
  /\ member = [c \in Curls |-> Nil]
  /\ multiOpen = [m \in Multis |-> TRUE]
  /\ phase = [r \in Requests |-> "idle"]
  /\ owner = [r \in Requests |-> Nil]
  /\ multi = [r \in Requests |-> Nil]
  /\ answer = [r \in Requests |-> "none"]
  /\ threw = [r \in Requests |-> FALSE]
  /\ received = [r \in Requests |-> 0]
  /\ event = [r \in Requests |-> "none"]
  /\ payload = [r \in Requests |-> {}]
  /\ immediates = <<>>
  /\ at = "loop" /\ activeMulti = Nil /\ active = Nil

----------------------------------------------------------------------------
JavaScript == at \in {"loop", "callback", "listener"}

\* libcurl refuses calls on a multi from the callbacks it makes for it.
InCallback(m) == at \in {"callback", "libcurl"} /\ activeMulti = m

\* curl_multi_remove_handle on the Easy of c.
CanRemove(c, m) == multiOpen[m] /\ ~InCallback(m) /\ member[c] \in {m, Nil}

InFlight(r) == phase[r] \in {"running", "answered", "settled", "scheduled"}

\* Requests of c that libcurl still works on do so no more.
Abandon(S) ==
  phase' = [r \in Requests |->
              IF phase[r] \in {"running", "answered"} /\ owner[r] \in S
                THEN "abandoned" ELSE phase[r]]

\* [mutant] the stored response survives.
KeepChunks(c) == isRunning' = [isRunning EXCEPT ![c] = FALSE] /\ UNCHANGED chunks

ResetInternalState(c) ==
  /\ isRunning' = [isRunning EXCEPT ![c] = FALSE]
  /\ chunks' = [chunks EXCEPT ![c] = {}]

----------------------------------------------------------------------------
(* Calls on a Curl *)

\* Multi::Perform accepts the handle.
Accepts(m, c) == multiOpen[m] /\ isOpen[c] /\ ~inside[c] /\ ~InCallback(m)

AddListeners(c) ==
  /\ JavaScript
  /\ listening' = [listening EXCEPT ![c] = TRUE]
  /\ UNCHANGED <<isOpen, isRunning, multiInstance, chunks, insideVars, requestVars,
                 immediates, loopVars>>

SetMulti(c, m) ==
  /\ JavaScript
  /\ multiInstance' = [multiInstance EXCEPT ![c] = m]
  /\ UNCHANGED <<isOpen, isRunning, listening, chunks, insideVars, requestVars,
                 immediates, loopVars>>

Perform(c, r) ==
  LET m == multiInstance[c] IN
  /\ JavaScript
  /\ ~isRunning[c]
  /\ Accepts(m, c)
  /\ Disciplined => listening[c]
  /\ phase[r] = "idle"
  /\ isRunning' = [isRunning EXCEPT ![c] = TRUE]
  /\ inside' = [inside EXCEPT ![c] = TRUE]
  /\ member' = [member EXCEPT ![c] = m]
  /\ phase' = [phase EXCEPT ![r] = "running"]
  /\ owner' = [owner EXCEPT ![r] = c]
  /\ multi' = [multi EXCEPT ![r] = m]
  /\ UNCHANGED <<isOpen, multiInstance, listening, chunks, multiOpen, answer, threw,
                 received, event, payload, immediates, loopVars>>

\* The native perform() throws: isRunning was set before and stays.
PerformThrows(c) ==
  /\ JavaScript
  /\ ~isRunning[c]
  /\ ~Accepts(multiInstance[c], c)
  /\ ~Disciplined
  /\ isRunning' = [isRunning EXCEPT ![c] = TRUE]
  /\ UNCHANGED <<isOpen, multiInstance, listening, chunks, insideVars, requestVars,
                 immediates, loopVars>>

\* close() removes the handle from the default Multi, whichever it is in.
Close(c) ==
  /\ JavaScript
  /\ isOpen[c]
  /\ Disciplined => ~isRunning[c]
  /\ inside[c] => CanRemove(c, Default)
  /\ listening' = [listening EXCEPT ![c] = FALSE]
  /\ isOpen' = [isOpen EXCEPT ![c] = FALSE]
  /\ inside' = [inside EXCEPT ![c] = FALSE]
  /\ member' = [member EXCEPT ![c] = Nil]
  /\ Abandon({c})
  /\ UNCHANGED <<isRunning, multiInstance, chunks, multiOpen, owner, multi, answer,
                 threw, received, event, payload, immediates, loopVars>>

\* ... and when libcurl refuses, only the listeners are gone.
CloseThrows(c) ==
  /\ JavaScript
  /\ isOpen[c]
  /\ Disciplined => ~isRunning[c]
  /\ inside[c] /\ ~CanRemove(c, Default)
  /\ listening' = [listening EXCEPT ![c] = FALSE]
  /\ UNCHANGED <<isOpen, isRunning, multiInstance, chunks, insideVars, requestVars,
                 immediates, loopVars>>

\* reset() works on the Easy; of the Curl only the listeners go, before the Easy
\* throws when it is closed.
Reset(c) ==
  /\ JavaScript
  /\ Disciplined => ~isRunning[c]
  /\ listening' = [listening EXCEPT ![c] = FALSE]
  /\ UNCHANGED <<isOpen, isRunning, multiInstance, chunks, insideVars, requestVars,
                 immediates, loopVars>>

\* A custom Multi is its user's to close; the Easies inside are not told.
CloseMulti(m) ==
  /\ JavaScript
  /\ m # Default /\ multiOpen[m] /\ ~InCallback(m)
  /\ Disciplined => \A c \in Curls : isRunning[c] => multiInstance[c] # m /\ member[c] # m
  /\ multiOpen' = [multiOpen EXCEPT ![m] = FALSE]
  /\ member' = [c \in Curls |-> IF member[c] = m THEN Nil ELSE member[c]]
  /\ Abandon({c \in Curls : member[c] = m})
  /\ UNCHANGED <<curlVars, inside, owner, multi, answer, threw, received, event,
                 payload, immediates, loopVars>>

----------------------------------------------------------------------------
(* libcurl: chunks, the answer, and the promise Multi settles *)

SocketAction(m) ==
  /\ at = "loop"
  /\ multiOpen[m]
  /\ \E r \in Requests : phase[r] = "running" /\ multi[r] = m
  /\ at' = "libcurl" /\ activeMulti' = m
  /\ UNCHANGED <<curlVars, insideVars, requestVars, immediates, active>>

\* defaultWriteFunction stores the chunk and emits 'data'.
DataCallback(r) ==
  LET c == owner[r] IN
  /\ at = "libcurl"
  /\ phase[r] = "running" /\ multi[r] = activeMulti
  /\ received[r] < MaxChunks /\ ~threw[r]
  /\ received' = [received EXCEPT ![r] = @ + 1]
  /\ chunks' = [chunks EXCEPT ![c] = @ \cup {<<r, received[r] + 1>>}]
  /\ at' = "callback" /\ active' = r
  /\ UNCHANGED <<isOpen, isRunning, multiInstance, listening, insideVars, phase, owner,
                 multi, answer, threw, event, payload, immediates, activeMulti>>

\* A listener that throws makes the native code abort the transfer.
CallbackReturns(throws) ==
  /\ at = "callback"
  /\ at' = "libcurl" /\ active' = Nil
  /\ threw' = [threw EXCEPT ![active] = @ \/ throws]
  /\ UNCHANGED <<curlVars, insideVars, phase, owner, multi, answer, received, event,
                 payload, immediates, activeMulti>>

TransferDone(r, code) ==
  /\ at = "libcurl"
  /\ phase[r] = "running" /\ multi[r] = activeMulti
  /\ phase' = [phase EXCEPT ![r] = "answered"]
  /\ answer' = [answer EXCEPT ![r] = code]
  /\ UNCHANGED <<curlVars, insideVars, owner, multi, threw, received, event, payload,
                 immediates, loopVars>>

SettlePromise(r) ==
  /\ at = "libcurl"
  /\ phase[r] = "answered" /\ multi[r] = activeMulti
  /\ phase' = [phase EXCEPT ![r] = "settled"]
  /\ UNCHANGED <<curlVars, insideVars, owner, multi, answer, threw, received, event,
                 payload, immediates, loopVars>>

LibcurlReturns ==
  /\ at = "libcurl"
  /\ \A r \in Requests : multi[r] = activeMulti => phase[r] # "answered"
  /\ at' = "loop" /\ activeMulti' = Nil
  /\ UNCHANGED <<curlVars, insideVars, requestVars, immediates, active>>

----------------------------------------------------------------------------
(* The reactions of the promise *)

Succeeded(r) == answer[r] = "ok" /\ ~threw[r]

\* The removal that finalize() tries, whose failure is swallowed.
RemoveFromMulti(r) ==
  LET c == owner[r]
      removed == isOpen[c] /\ inside[c] /\ CanRemove(c, multi[r])
  IN
  /\ inside' = [inside EXCEPT ![c] = @ /\ ~removed]
  /\ member' = [member EXCEPT ![c] = IF removed THEN Nil ELSE @]

\* An 'end' nobody listens to is lost; an 'error' nobody listens to is thrown.
Emit(r, name) ==
  \/ /\ listening[owner[r]]
     /\ event' = [event EXCEPT ![r] = name]
     /\ at' = "listener" /\ active' = r
  \/ /\ ~listening[owner[r]] /\ name = "end"
     /\ UNCHANGED <<event, at, active>>
  \/ /\ ~listening[owner[r]] /\ name = "error"
     /\ at' = "dead" /\ active' = r
     /\ UNCHANGED event

\* onEnd() asks the handle for the response code first, which throws when the
\* handle is closed; the exception leaves the immediate.
OnEnd(r) ==
  IF isOpen[owner[r]]
    THEN /\ ResetInternalState(owner[r])
         /\ payload' = [payload EXCEPT ![r] = chunks[owner[r]]]
         /\ Emit(r, "end")
    ELSE at' = "dead" /\ active' = r /\ UNCHANGED <<isRunning, chunks, payload, event>>

\* [mutant] a failed request leaves the Curl running.
OnErrorKeepsState(r) ==
  /\ Emit(r, "error")
  /\ UNCHANGED <<isRunning, chunks, payload>>

OnError(r) ==
  /\ ResetInternalState(owner[r])
  /\ Emit(r, "error")
  /\ UNCHANGED payload

\* finalize(), from the queue of immediates or where a mutant calls it.
Finalize(r) ==
  /\ RemoveFromMulti(r)
  /\ IF Succeeded(r) THEN OnEnd(r) ELSE OnError(r)
  /\ phase' = [phase EXCEPT ![r] = "done"]
  /\ UNCHANGED <<isOpen, multiInstance, listening, multiOpen, owner, multi, answer,
                 threw, received, activeMulti>>

\* [mutant] finalize() without setImmediate.
ReactionFinalizes(r) ==
  /\ at \in {"loop", "libcurl"}
  /\ phase[r] = "settled"
  /\ Finalize(r)
  /\ UNCHANGED immediates

\* [mutant] isRunning is cleared as soon as the promise is settled.
ReactionStops(r) ==
  /\ at \in {"loop", "libcurl"}
  /\ phase[r] = "settled"
  /\ phase' = [phase EXCEPT ![r] = "scheduled"]
  /\ immediates' = Append(immediates, r)
  /\ isRunning' = [isRunning EXCEPT ![owner[r]] = FALSE]
  /\ UNCHANGED <<isOpen, multiInstance, listening, chunks, insideVars, owner, multi,
                 answer, threw, received, event, payload, loopVars>>

\* [mutant] one slot instead of a queue.
ReactionOverwrites(r) ==
  /\ at \in {"loop", "libcurl"}
  /\ phase[r] = "settled"
  /\ phase' = [phase EXCEPT ![r] = "scheduled"]
  /\ immediates' = <<r>>
  /\ UNCHANGED <<curlVars, insideVars, owner, multi, answer, threw, received, event,
                 payload, loopVars>>

\* .then() or .catch(): a microtask, run when JavaScript leaves the stack.
Reaction(r) ==
  /\ at \in {"loop", "libcurl"}
  /\ phase[r] = "settled"
  /\ phase' = [phase EXCEPT ![r] = "scheduled"]
  /\ immediates' = Append(immediates, r)
  /\ UNCHANGED <<curlVars, insideVars, owner, multi, answer, threw, received, event,
                 payload, loopVars>>

RunImmediate ==
  /\ at = "loop" /\ immediates # <<>>
  /\ Finalize(Head(immediates))
  /\ immediates' = Tail(immediates)

ListenerReturns ==
  /\ at = "listener"
  /\ at' = "loop" /\ active' = Nil
  /\ UNCHANGED <<curlVars, insideVars, requestVars, immediates, activeMulti>>

----------------------------------------------------------------------------
CurlCall(c) ==
  \/ AddListeners(c)
  \/ \E m \in Multis : SetMulti(c, m)
  \/ \E r \in Requests : Perform(c, r)
  \/ PerformThrows(c)
  \/ Close(c)
  \/ CloseThrows(c)
  \/ Reset(c)

LibcurlStep ==
  \/ \E m \in Multis : SocketAction(m)
  \/ \E r \in Requests : DataCallback(r)
  \/ \E throws \in BOOLEAN : CallbackReturns(throws)
  \/ \E r \in Requests, code \in {"ok", "failed"} : TransferDone(r, code)
  \/ \E r \in Requests : SettlePromise(r)
  \/ LibcurlReturns

Next ==
  \/ \E c \in Curls : CurlCall(c)
  \/ \E m \in Multis : CloseMulti(m)
  \/ LibcurlStep
  \/ \E r \in Requests : Reaction(r)
  \/ RunImmediate
  \/ ListenerReturns

Spec == Init /\ [][Next]_vars

\* Callbacks, listeners and libcurl return, promise reactions run, the loop
\* reaches the immediates it queued, and the peers answer.
Fairness ==
  /\ WF_vars(\E throws \in BOOLEAN : CallbackReturns(throws))
  /\ WF_vars(ListenerReturns)
  /\ WF_vars(LibcurlReturns)
  /\ SF_vars(RunImmediate)
  /\ \A m \in Multis : SF_vars(SocketAction(m))
  /\ \A r \in Requests :
       /\ SF_vars(Reaction(r))
       /\ SF_vars(SettlePromise(r))
       /\ SF_vars(\E code \in {"ok", "failed"} : TransferDone(r, code))

FairSpec == Spec /\ Fairness

----------------------------------------------------------------------------
(* Properties *)

\* Values stay in their ranges, and the Easy of a Curl is in a multi only if
\* its flag says so.
TypeOK ==
  /\ isOpen \in [Curls -> BOOLEAN]
  /\ isRunning \in [Curls -> BOOLEAN]
  /\ multiInstance \in [Curls -> Multis]
  /\ listening \in [Curls -> BOOLEAN]
  /\ chunks \in [Curls -> SUBSET (Requests \X (1..MaxChunks))]
  /\ inside \in [Curls -> BOOLEAN]
  /\ member \in [Curls -> Multis \cup {Nil}]
  /\ multiOpen \in [Multis -> BOOLEAN]
  /\ phase \in [Requests -> Phases]
  /\ owner \in [Requests -> Curls \cup {Nil}]
  /\ multi \in [Requests -> Multis \cup {Nil}]
  /\ answer \in [Requests -> {"none", "ok", "failed"}]
  /\ threw \in [Requests -> BOOLEAN]
  /\ received \in [Requests -> 0..MaxChunks]
  /\ event \in [Requests -> {"none", "end", "error"}]
  /\ payload \in [Requests -> SUBSET (Requests \X (1..MaxChunks))]
  /\ immediates \in Seq(Requests)
  /\ at \in {"loop", "libcurl", "callback", "listener", "dead"}
  /\ activeMulti \in Multis \cup {Nil}
  /\ active \in Requests \cup {Nil}
  /\ \A c \in Curls : member[c] # Nil => inside[c]

\* 'end' carries the chunks of its own request and all of them, although the
\* buffer is shared by all requests of the Curl and anything may be called
\* between the last chunk and the event (Curl.ts:300-301, 923-926).
OwnData ==
  /\ TypeOK
  /\ \A r \in Requests :
       event[r] = "end" => payload[r] = {<<r, i>> : i \in 1..received[r]}

\* When 'end' or 'error' is emitted the handle has left its multi, so the
\* listener may close it, reuse it or return it to a pool: the removal must not
\* meet CURLM_RECURSIVE_API_CALL (Curl.ts:750-758).  A Multi closed under the
\* request is the only way to keep the handle inside.
FinalizedOutside ==
  [][\A r \in Requests :
       event[r] = "none" /\ event'[r] # "none" =>
         ~inside'[owner[r]] \/ ~multiOpen[multi[r]]]_vars

\* A Curl is running exactly as long as it has a request under way: it neither
\* stays busy for ever nor becomes free before the event (disciplined callers).
RunningInFlight ==
  at # "dead" =>
    \A c \in Curls : isRunning[c] <=> \E r \in Requests : owner[r] = c /\ InFlight(r)

\* A caller that closes and resets only Curls that are not running never meets
\* an exception thrown from an immediate.
NoUncaught == at # "dead"

\* Every request perform() accepted ends in an 'end' or 'error' event.
EveryRequestEnds ==
  \A r \in Requests : phase[r] = "running" ~> event[r] # "none"
=============================================================================
