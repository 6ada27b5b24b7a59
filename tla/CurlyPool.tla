----------------------------- MODULE CurlyPool -----------------------------
(***************************************************************************)
(* curly() and its object pool (src/lib/curly.ts, create()): a call takes  *)
(* a Curl, configures it, attaches listeners and performs; the 'end' and   *)
(* 'error' listeners give the Curl back before they settle the promise,    *)
(* and the response body parser, user code, runs in between.               *)
(*                                                                         *)
(* A Curl is what CurlRequest says of one nobody else touches: perform()   *)
(* is followed by one 'end' or 'error' event.  Here it has in addition the *)
(* StreamResponse feature.  curly() may be called from the loop, from a    *)
(* transfer callback (where libcurl refuses to add a handle) and from a    *)
(* parser.                                                                 *)
(***************************************************************************)
EXTENDS Naturals, Sequences, SequencesExt

CONSTANTS
  Curls,    \* Curl instances that exist at one time
  Calls,    \* bound on the curly() calls of one behavior
  Limits,   \* the limits setObjectPoolLimit() is called with
  Nil       \* no Curl, no call

ASSUME NilIsNothing == Nil \notin Curls \cup Calls
ASSUME LimitsAreNatural == Limits \subseteq Nat

VARIABLES
  \* Curl
  isOpen, isRunning,
  streaming,    \* CurlFeature.StreamResponse is enabled
  listeners,    \* the calls whose listeners are attached
  request,      \* the call whose request the Curl performs
  body,         \* its response has a body, of which a part arrived
  \* create()
  pool, poolLimit,
  \* calls of curly()
  call, wantsStream, handle,
  \* control
  at,           \* "event": an event is dispatched, "parser": user code in it
  event         \* who emits, whether 'end' or 'error', listeners still to run

curlVars == <<isOpen, isRunning, streaming, listeners, request, body>>
poolVars == <<pool, poolLimit>>
callVars == <<call, wantsStream, handle>>
vars == <<curlVars, poolVars, callVars, at, event>>

NoEvent == [curl |-> Nil, end |-> FALSE, to |-> <<>>]

Init ==
  /\ isOpen = [c \in Curls |-> FALSE]
  /\ isRunning = [c \in Curls |-> FALSE]
  /\ streaming = [c \in Curls |-> FALSE]
  /\ listeners = [c \in Curls |-> {}]
  /\ request = [c \in Curls |-> Nil]
  /\ body = [c \in Curls |-> FALSE]
  /\ pool = <<>> /\ poolLimit = 0
  /\ call = [k \in Calls |-> "idle"]
  /\ wantsStream = [k \in Calls |-> FALSE]
  /\ handle = [k \in Calls |-> Nil]
  /\ at = "loop" /\ event = NoEvent

----------------------------------------------------------------------------
JavaScript == at \in {"loop", "callback", "parser"}

\* A Curl that is not constructed yet; closed ones are constructed anew.
Fresh(c) == ~isOpen[c] /\ c # event.curl

\* A promise is settled once.
Settle(S, how) ==
  call' = [k \in Calls |-> IF k \in S /\ call[k] = "pending" THEN how ELSE call[k]]

\* getFromPool() yields c and leaves Rest in the pool.
FromPool == poolLimit # 0 /\ pool # <<>>
GetFromPool(c) == IF FromPool THEN c = Last(pool) ELSE Fresh(c)
Rest == IF FromPool THEN Front(pool) ELSE pool

\* Whether c came out of the pool still running: enable() throws.
Poisoned(c) == isOpen[c] /\ isRunning[c]

\* What constructing c, or taking it as it is, makes of its features.
Features(c) == isOpen[c] /\ streaming[c]

\* [mutant] a pooled handle keeps its listeners.
ReturnWithListeners(c, q) ==
  LET kept == poolLimit # 0 /\ Len(q) < poolLimit IN
  /\ pool' = IF kept THEN Append(q, c) ELSE q
  /\ isOpen' = [isOpen EXCEPT ![c] = kept]
  /\ UNCHANGED listeners

\* returnToPool(): reset() and close() both drop the listeners, and neither
\* touches the features or isRunning.
ReturnToPool(c, q) ==
  LET kept == poolLimit # 0 /\ Len(q) < poolLimit IN
  /\ pool' = IF kept THEN Append(q, c) ELSE q
  /\ isOpen' = [isOpen EXCEPT ![c] = kept]
  /\ listeners' = [listeners EXCEPT ![c] = {}]

----------------------------------------------------------------------------
(* The calls of the API *)

SetObjectPoolLimit(n) ==
  LET kept == IF Len(pool) < n THEN Len(pool) ELSE n
      excess == ToSet(SubSeq(pool, kept + 1, Len(pool)))
  IN
  /\ JavaScript
  /\ poolLimit' = n
  /\ pool' = SubSeq(pool, 1, kept)
  /\ isOpen' = [c \in Curls |-> isOpen[c] /\ c \notin excess]
  /\ UNCHANGED <<isRunning, streaming, listeners, request, body, callVars, at, event>>

\* curly() throws before it made a promise: enable() on a running handle, or an
\* option that setOpt() refuses.  Nobody has the handle any more.
CurlyThrows(k, c) ==
  /\ JavaScript
  /\ call[k] = "idle"
  /\ GetFromPool(c)
  /\ call' = [call EXCEPT ![k] = "threw"]
  /\ handle' = [handle EXCEPT ![k] = c]
  /\ pool' = Rest
  /\ isOpen' = [isOpen EXCEPT ![c] = TRUE]
  /\ isRunning' = [isRunning EXCEPT ![c] = Poisoned(c)]
  /\ streaming' = [streaming EXCEPT ![c] = Features(c)]
  /\ UNCHANGED <<listeners, request, body, poolLimit, wantsStream, at, event>>

Curly(k, c, stream) ==
  /\ at \in {"loop", "parser"}
  /\ call[k] = "idle"
  /\ GetFromPool(c) /\ ~Poisoned(c)
  /\ call' = [call EXCEPT ![k] = "pending"]
  /\ wantsStream' = [wantsStream EXCEPT ![k] = stream]
  /\ handle' = [handle EXCEPT ![k] = c]
  /\ pool' = Rest
  /\ isOpen' = [isOpen EXCEPT ![c] = TRUE]
  /\ isRunning' = [isRunning EXCEPT ![c] = TRUE]
  /\ streaming' = [streaming EXCEPT ![c] = Features(c) \/ stream]
  /\ listeners' = [listeners EXCEPT ![c] = @ \cup {k}]
  /\ request' = [request EXCEPT ![c] = k]
  /\ UNCHANGED <<body, poolLimit, at, event>>

\* perform() throws in a transfer callback, after it set isRunning; the handle
\* goes back to the pool as it is.
CurlyRefused(k, c, stream) ==
  /\ at = "callback"
  /\ call[k] = "idle"
  /\ GetFromPool(c) /\ ~Poisoned(c)
  /\ call' = [call EXCEPT ![k] = "rejected"]
  /\ wantsStream' = [wantsStream EXCEPT ![k] = stream]
  /\ handle' = [handle EXCEPT ![k] = c]
  /\ isRunning' = [isRunning EXCEPT ![c] = TRUE]
  /\ streaming' = [streaming EXCEPT ![c] = Features(c) \/ stream]
  /\ ReturnToPool(c, Rest)
  /\ UNCHANGED <<request, body, poolLimit, at, event>>

----------------------------------------------------------------------------
(* The requests of the Curls *)

EnterCallback ==
  /\ at = "loop"
  /\ \E c \in Curls : request[c] # Nil
  /\ at' = "callback"
  /\ UNCHANGED <<curlVars, poolVars, callVars, event>>

CallbackReturns ==
  /\ at = "callback"
  /\ at' = "loop"
  /\ UNCHANGED <<curlVars, poolVars, callVars, event>>

\* The 'stream' listeners of the calls that asked for a stream resolve them.
StreamEvent(c) == Settle({k \in listeners[c] : wantsStream[k]}, "resolved")

\* The first chunk: in streaming mode it creates the stream and emits it.
BodyStarts(c) ==
  /\ at = "loop"
  /\ request[c] # Nil /\ ~body[c]
  /\ body' = [body EXCEPT ![c] = TRUE]
  /\ IF streaming[c] THEN StreamEvent(c) ELSE UNCHANGED call
  /\ UNCHANGED <<isOpen, isRunning, streaming, listeners, request, poolVars,
                 wantsStream, handle, at, event>>

\* The transfer waits for a reader its stream does not have.
Stuck(c) == streaming[c] /\ body[c] /\ ~wantsStream[request[c]]

\* onEnd() or onError(): the Curl is idle again and emits.
Ends(c, end) ==
  /\ at = "loop"
  /\ request[c] # Nil
  /\ end => ~Stuck(c)
  /\ isRunning' = [isRunning EXCEPT ![c] = FALSE]
  /\ request' = [request EXCEPT ![c] = Nil]
  /\ body' = [body EXCEPT ![c] = FALSE]
  /\ IF end /\ streaming[c] /\ ~body[c] THEN StreamEvent(c) ELSE UNCHANGED call
  /\ at' = "event"
  /\ event' = [curl |-> c, end |-> end, to |-> SetToSeq(listeners[c])]
  /\ UNCHANGED <<isOpen, streaming, listeners, poolVars, wantsStream, handle>>

\* [mutant] only a successful request gives its handle back.
OnErrorKeepsHandle ==
  LET k == Head(event.to) IN
  /\ at = "event" /\ event.to # <<>> /\ ~event.end
  /\ Settle({k}, "rejected")
  /\ event' = [event EXCEPT !.to = Tail(@)]
  /\ UNCHANGED <<curlVars, poolVars, wantsStream, handle, at>>

\* The 'error' listener.  A call that has its stream already is not rejected,
\* the error is emitted on the stream.
OnError ==
  LET k == Head(event.to) IN
  /\ at = "event" /\ event.to # <<>> /\ ~event.end
  /\ ReturnToPool(event.curl, pool)
  /\ Settle({k}, "rejected")
  /\ event' = [event EXCEPT !.to = Tail(@)]
  /\ UNCHANGED <<isRunning, streaming, request, body, poolLimit, wantsStream, handle, at>>

\* The 'end' listener: the handle goes back first, then the body is parsed.
OnEnd ==
  LET k == Head(event.to) IN
  /\ at = "event" /\ event.to # <<>> /\ event.end
  /\ ReturnToPool(event.curl, pool)
  /\ IF wantsStream[k]
       THEN event' = [event EXCEPT !.to = Tail(@)] /\ UNCHANGED at
       ELSE at' = "parser" /\ UNCHANGED event
  /\ UNCHANGED <<isRunning, streaming, request, body, poolLimit, callVars>>

\* [mutant] the exception of a parser is not caught.
ParserReturnsOnly(ok) ==
  /\ at = "parser"
  /\ IF ok THEN Settle({Head(event.to)}, "resolved") ELSE UNCHANGED call
  /\ at' = "event"
  /\ event' = [event EXCEPT !.to = Tail(@)]
  /\ UNCHANGED <<curlVars, poolVars, wantsStream, handle>>

\* The parser returned or threw.
ParserReturns(ok) ==
  /\ at = "parser"
  /\ Settle({Head(event.to)}, IF ok THEN "resolved" ELSE "rejected")
  /\ at' = "event"
  /\ event' = [event EXCEPT !.to = Tail(@)]
  /\ UNCHANGED <<curlVars, poolVars, wantsStream, handle>>

EventDone ==
  /\ at = "event" /\ event.to = <<>>
  /\ at' = "loop" /\ event' = NoEvent
  /\ UNCHANGED <<curlVars, poolVars, callVars>>

----------------------------------------------------------------------------
Call(k) ==
  \E c \in Curls :
    \/ CurlyThrows(k, c)
    \/ \E stream \in BOOLEAN : Curly(k, c, stream)
    \/ \E stream \in BOOLEAN : CurlyRefused(k, c, stream)

RequestStep(c) == BodyStarts(c) \/ \E end \in BOOLEAN : Ends(c, end)

Next ==
  \/ \E n \in Limits : SetObjectPoolLimit(n)
  \/ \E k \in Calls : Call(k)
  \/ EnterCallback
  \/ CallbackReturns
  \/ \E c \in Curls : RequestStep(c)
  \/ OnError
  \/ OnEnd
  \/ \E ok \in BOOLEAN : ParserReturns(ok)
  \/ EventDone

Spec == Init /\ [][Next]_vars

\* Callbacks, listeners and parsers return; the peers answer and the streams
\* that callers got are read.
Fairness ==
  /\ WF_vars(CallbackReturns)
  /\ WF_vars(OnError) /\ WF_vars(OnEnd) /\ WF_vars(EventDone)
  /\ WF_vars(\E ok \in BOOLEAN : ParserReturns(ok))
  /\ \A c \in Curls : SF_vars(~Stuck(c) /\ \E end \in BOOLEAN : Ends(c, end))

FairSpec == Spec /\ Fairness

----------------------------------------------------------------------------
(* Properties *)

\* Values stay in their ranges.
TypeOK ==
  /\ isOpen \in [Curls -> BOOLEAN]
  /\ isRunning \in [Curls -> BOOLEAN]
  /\ streaming \in [Curls -> BOOLEAN]
  /\ listeners \in [Curls -> SUBSET Calls]
  /\ request \in [Curls -> Calls \cup {Nil}]
  /\ body \in [Curls -> BOOLEAN]
  /\ pool \in Seq(Curls)
  /\ poolLimit \in Limits \cup {0}
  /\ call \in [Calls -> {"idle", "pending", "resolved", "rejected", "threw"}]
  /\ wantsStream \in [Calls -> BOOLEAN]
  /\ handle \in [Calls -> Curls \cup {Nil}]
  /\ at \in {"loop", "callback", "event", "parser"}
  /\ event.curl \in Curls \cup {Nil} /\ event.end \in BOOLEAN /\ event.to \in Seq(Calls)

\* A handle in the pool is there once, open, performs nothing, and no listener
\* of its last call is left: the next call gets it to itself (curly.ts:347-362,
\* with a parser calling curly() while the handle's event is still dispatched).
\* And the pool keeps to its limit, also when that is lowered while handles are out.
PoolSound ==
  /\ TypeOK /\ Len(pool) <= poolLimit
  /\ IsInjective(pool)
  /\ \A c \in ToSet(pool) :
       isOpen[c] /\ request[c] = Nil /\ (at = "loop" => listeners[c] = {})

\* A Curl is open only as long as somebody has it: the pool, its request, or
\* the event being dispatched.  Only a call that threw loses its handle.
HandlesAccounted ==
  \A c \in Curls :
    isOpen[c] => \/ c \in ToSet(pool) \cup {event.curl}
                 \/ request[c] # Nil
                 \/ \E k \in Calls : call[k] = "threw" /\ handle[k] = c

\* A call whose handle streams exactly if the call asked for it is settled,
\* through pool changes, failing parsers and calls nested in them.
MatchedCallsSettle ==
  \A k \in Calls :
    (call[k] = "pending" /\ (streaming[handle[k]] <=> wantsStream[k]))
      ~> call[k] \in {"resolved", "rejected"}
=============================================================================
