-------------------------- MODULE CurlRequestProofs --------------------------
(***************************************************************************)
(* Proofs about CurlRequest, for every number of Curls, Multis and         *)
(* requests and responses of any length.                                   *)
(***************************************************************************)
EXTENDS CurlRequest, SequenceTheorems, TLAPS

----------------------------------------------------------------------------
(* The inductive invariant *)

\* A request was started by a Curl on a Multi, and its callback is on the stack
\* only while there is one.
Started ==
  /\ \A r \in Requests : phase[r] # "idle" => owner[r] \in Curls /\ multi[r] \in Multis
  /\ at = "callback" => active \in Requests

\* A Curl has one request under way, and is busy as long as it has it.
OneAtATime ==
  /\ \A r \in Requests : InFlight(r) => isRunning[owner[r]]
  /\ \A r, s \in Requests : InFlight(r) /\ InFlight(s) /\ owner[r] = owner[s] => r = s

Response(r) == {<<r, i>> : i \in 1..received[r]}

\* The buffer of a Curl holds what its request received so far, and nothing
\* when the Curl is free.
Stored ==
  /\ \A c \in Curls : ~isRunning[c] => chunks[c] = {}
  /\ \A r \in Requests : InFlight(r) => chunks[owner[r]] = Response(r)
  /\ \A r \in Requests : phase[r] = "idle" => received[r] = 0

\* Immediates are queued for scheduled requests, one for each.
Queued ==
  /\ \A i \in 1..Len(immediates) : phase[immediates[i]] = "scheduled"
  /\ \A i, j \in 1..Len(immediates) : immediates[i] = immediates[j] => i = j

\* Only a finalized request has emitted.
Emitted == \A r \in Requests : event[r] # "none" => phase[r] = "done"

\* The handle of a closed Curl is in no multi, that of a running request in the
\* multi perform() used, or in none.
Whereabouts ==
  /\ \A c \in Curls : ~isOpen[c] => ~inside[c]
  /\ \A r \in Requests : InFlight(r) => member[owner[r]] \in {multi[r], Nil}

\* An emitted 'end' carries the whole response.
EndsWhole ==
  \A r \in Requests : event[r] = "end" => payload[r] = Response(r)

IInv ==
  /\ TypeOK
  /\ Started
  /\ OneAtATime
  /\ Stored
  /\ Queued
  /\ Emitted
  /\ Whereabouts
  /\ EndsWhole

----------------------------------------------------------------------------
(* Lemmas on parts of steps *)

\* Nothing the invariant knows of a request changes when the Curls and requests
\* stay and control moves between loop, libcurl and listeners.
LEMMA Frame ==
  ASSUME IInv, TypeOK',
         UNCHANGED <<isOpen, chunks, inside, member, phase, owner, multi, received, event,
                     payload, immediates>>,
         \A c \in Curls : isRunning[c] => isRunning'[c],
         \A c \in Curls : isRunning'[c] = isRunning[c] \/ chunks[c] = {},
         at' = "callback" => at = "callback" /\ active' = active
  PROVE  IInv'
<1>1. \A r \in Requests : InFlight(r)' <=> InFlight(r)
  BY DEF InFlight
<1>2. \A r \in Requests : InFlight(r) => owner[r] \in Curls
  BY DEF IInv, Started, InFlight
<1>3. Started' /\ Queued' /\ Emitted'
  BY DEF IInv, Started, Queued, Emitted
<1>4. OneAtATime' /\ Whereabouts'
  BY <1>1, <1>2 DEF IInv, OneAtATime, Whereabouts
<1>5. \A r \in Requests : Response(r)' = Response(r)
  BY DEF Response
<1>6. Stored' /\ EndsWhole'
  BY <1>1, <1>5 DEF IInv, TypeOK, Stored, EndsWhole
<1>. QED
  BY <1>3, <1>4, <1>6 DEF IInv

\* Abandoning requests of some Curls ends requests and starts none.
LEMMA AbandonFacts ==
  ASSUME IInv, NEW S \in SUBSET Curls, Abandon(S), UNCHANGED owner
  PROVE  /\ phase' \in [Requests -> Phases]
         /\ \A r \in Requests :
              \/ phase'[r] = phase[r]
              \/ phase[r] \in {"running", "answered"} /\ phase'[r] = "abandoned"
         /\ \A r \in Requests : InFlight(r)' => InFlight(r)
<1>1. \A r \in Requests :
        \/ phase'[r] = phase[r]
        \/ phase[r] \in {"running", "answered"} /\ phase'[r] = "abandoned"
  BY DEF Abandon
<1>2. phase' \in [Requests -> Phases]
  BY <1>1 DEF Abandon, IInv, TypeOK, Phases
<1>. QED
  BY <1>1, <1>2 DEF InFlight

\* Requests that are given up take nothing of the others with them.
LEMMA AbandonKeeps ==
  ASSUME IInv, TypeOK', NEW S \in SUBSET Curls, Abandon(S),
         UNCHANGED <<isRunning, chunks, owner, multi, received, event, payload, immediates,
                     at, active>>
  PROVE  /\ Started' /\ OneAtATime' /\ Stored' /\ Queued' /\ Emitted' /\ EndsWhole'
<1>1. /\ \A r \in Requests :
           \/ phase'[r] = phase[r]
           \/ phase[r] \in {"running", "answered"} /\ phase'[r] = "abandoned"
      /\ \A r \in Requests : InFlight(r)' => InFlight(r)
  BY AbandonFacts
<1>2. \A r \in Requests : Response(r)' = Response(r)
  BY DEF Response
<1>3. Started' /\ Emitted'
  BY <1>1 DEF IInv, Started, Emitted
<1>4. OneAtATime'
  BY <1>1 DEF IInv, OneAtATime
<1>5. Stored'
  BY <1>1, <1>2 DEF IInv, Stored
<1>6. Queued'
  <2>1. \A i \in 1..Len(immediates) : immediates[i] \in Requests
    BY DEF IInv, TypeOK
  <2>. QED
    BY <1>1, <2>1 DEF IInv, Queued
<1>7. EndsWhole'
  BY <1>2 DEF IInv, EndsWhole
<1>. QED
  BY <1>3, <1>4, <1>5, <1>6, <1>7

----------------------------------------------------------------------------
(* The invariant is kept, one lemma for each action *)

\* Steps that move control, listeners or the Multi of a Curl.
LEMMA QuietStep ==
  ASSUME IInv,
         \/ \E c \in Curls : \/ AddListeners(c) \/ PerformThrows(c) \/ CloseThrows(c)
                             \/ Reset(c) \/ \E m \in Multis : SetMulti(c, m)
         \/ \E m \in Multis : SocketAction(m)
         \/ \E throws \in BOOLEAN : CallbackReturns(throws)
         \/ LibcurlReturns
         \/ ListenerReturns
  PROVE  IInv'
<1>. USE DEF curlVars, insideVars, requestVars, loopVars
<1>1. CASE \E c \in Curls : AddListeners(c) \/ CloseThrows(c) \/ Reset(c)
  <2>1. listening' \in [Curls -> BOOLEAN]
    BY <1>1 DEF IInv, TypeOK, AddListeners, CloseThrows, Reset
  <2>2. UNCHANGED <<isOpen, isRunning, multiInstance, chunks, insideVars, requestVars,
                    immediates, loopVars>>
    BY <1>1 DEF AddListeners, CloseThrows, Reset
  <2>3. TypeOK'
    BY <2>1, <2>2 DEF IInv, TypeOK
  <2>. QED
    BY <2>2, <2>3, Frame
<1>0. CASE \E c \in Curls, m \in Multis : SetMulti(c, m)
  <2>1. TypeOK'
    BY <1>0 DEF IInv, TypeOK, SetMulti
  <2>. QED
    BY <1>0, <2>1, Frame DEF SetMulti
<1>2. CASE \E c \in Curls : PerformThrows(c)
  <2>1. PICK c \in Curls : PerformThrows(c)
    BY <1>2
  <2>2. TypeOK' /\ \A d \in Curls \ {c} : isRunning'[d] = isRunning[d]
    BY <2>1 DEF IInv, TypeOK, PerformThrows
  <2>3. chunks[c] = {}
    BY <2>1 DEF IInv, Stored, PerformThrows
  <2>4. isRunning'[c]
    BY <2>1 DEF IInv, TypeOK, PerformThrows
  <2>. QED
    BY <2>1, <2>2, <2>3, <2>4, Frame DEF PerformThrows
<1>3. CASE \/ \E m \in Multis : SocketAction(m)
           \/ \E throws \in BOOLEAN : CallbackReturns(throws)
           \/ LibcurlReturns \/ ListenerReturns
  <2>1. TypeOK'
    BY <1>3 DEF IInv, TypeOK, SocketAction, CallbackReturns, LibcurlReturns, ListenerReturns
  <2>. QED
    BY <1>3, <2>1, Frame DEF SocketAction, CallbackReturns, LibcurlReturns, ListenerReturns
<1>. QED
  BY <1>0, <1>1, <1>2, <1>3

\* An accepted perform() finds the buffer empty: no request of the Curl is
\* under way, and the last one left nothing behind.
LEMMA PerformStep ==
  ASSUME NEW c \in Curls, NEW r \in Requests, IInv, Perform(c, r)
  PROVE  IInv'
<1>. USE DEF loopVars
<1>. DEFINE m == multiInstance[c]
<1>1. /\ phase[r] = "idle" /\ ~isRunning[c] /\ m \in Multis
      /\ received[r] = 0 /\ event[r] = "none" /\ chunks[c] = {}
      /\ ~InFlight(r) /\ isOpen[c]
  BY DEF IInv, TypeOK, Perform, Stored, Emitted, InFlight, Accepts
<1>2. \A s \in Requests : InFlight(s) => owner[s] \in Curls /\ owner[s] # c
  BY <1>1 DEF IInv, OneAtATime, Started, InFlight
<1>3. /\ isRunning'[c] /\ inside'[c] /\ member'[c] = m
      /\ \A d \in Curls \ {c} : /\ isRunning'[d] = isRunning[d] /\ inside'[d] = inside[d]
                                /\ member'[d] = member[d]
      /\ phase'[r] = "running" /\ owner'[r] = c /\ multi'[r] = m
      /\ \A s \in Requests \ {r} : /\ phase'[s] = phase[s] /\ owner'[s] = owner[s]
                                   /\ multi'[s] = multi[s]
      /\ UNCHANGED <<isOpen, chunks, received, event, payload, immediates, at, active>>
  BY DEF IInv, TypeOK, Perform
<1>4. TypeOK'
  BY <1>1, <1>3 DEF IInv, TypeOK, Perform, Phases
<1>5. InFlight(r)' /\ \A s \in Requests \ {r} : InFlight(s)' <=> InFlight(s)
  BY <1>3 DEF InFlight
<1>6. \A s \in Requests : Response(s)' = Response(s)
  BY <1>3 DEF Response
<1>7. Started' /\ Emitted'
  BY <1>1, <1>3 DEF IInv, Started, Emitted
<1>8. OneAtATime'
  BY <1>2, <1>3, <1>5 DEF IInv, OneAtATime
<1>9. Stored'
  <2>1. Response(r) = {}
    BY <1>1 DEF Response
  <2>2. \A d \in Curls : ~isRunning'[d] => chunks'[d] = {}
    BY <1>3 DEF IInv, Stored
  <2>3. \A s \in Requests \ {r} : InFlight(s)' => chunks'[owner'[s]] = Response(s)'
    BY <1>3, <1>5, <1>6 DEF IInv, Stored
  <2>4. chunks'[owner'[r]] = Response(r)'
    BY <2>1, <1>1, <1>3, <1>6
  <2>5. \A s \in Requests : phase'[s] = "idle" => received'[s] = 0
    BY <1>3 DEF IInv, Stored
  <2>. QED
    BY <2>2, <2>3, <2>4, <2>5 DEF Stored
<1>10. Queued'
  <2>1. \A i \in 1..Len(immediates) : immediates[i] \in Requests \ {r}
    BY <1>1 DEF IInv, TypeOK, Queued
  <2>. QED
    BY <2>1, <1>3 DEF IInv, Queued
<1>11. Whereabouts'
  BY <1>1, <1>2, <1>3, <1>5 DEF IInv, Whereabouts
<1>12. EndsWhole'
  BY <1>3, <1>6 DEF IInv, EndsWhole
<1>. QED
  BY <1>4, <1>7, <1>8, <1>9, <1>10, <1>11, <1>12 DEF IInv

\* close() of a Curl, also of one that runs: its request is abandoned, or it is
\* finalized later without its handle.
LEMMA CloseStep ==
  ASSUME NEW c \in Curls, IInv, Close(c)
  PROVE  IInv'
<1>. USE DEF loopVars
<1>1. TypeOK'
  BY AbandonFacts DEF IInv, TypeOK, Close
<1>2. Started' /\ OneAtATime' /\ Stored' /\ Queued' /\ Emitted' /\ EndsWhole'
  BY <1>1, AbandonKeeps DEF Close
<1>3. Whereabouts'
  <2>1. \A r \in Requests : InFlight(r)' => InFlight(r)
    BY AbandonFacts DEF Close
  <2>2. /\ ~isOpen'[c] /\ ~inside'[c] /\ member'[c] = Nil
        /\ \A d \in Curls \ {c} : /\ isOpen'[d] = isOpen[d] /\ inside'[d] = inside[d]
                                  /\ member'[d] = member[d]
        /\ UNCHANGED <<owner, multi>>
    BY DEF IInv, TypeOK, Close
  <2>3. \A r \in Requests : InFlight(r) => owner[r] \in Curls
    BY DEF IInv, Started, InFlight
  <2>. QED
    BY <2>1, <2>2, <2>3 DEF IInv, Whereabouts
<1>. QED
  BY <1>1, <1>2, <1>3 DEF IInv

\* The close of a custom Multi.
LEMMA CloseMultiStep ==
  ASSUME NEW m \in Multis, IInv, CloseMulti(m)
  PROVE  IInv'
<1>. USE DEF loopVars, curlVars
<1>. DEFINE S == {c \in Curls : member[c] = m}
<1>1. S \in SUBSET Curls /\ Abandon(S)
  BY DEF CloseMulti
<1>2. TypeOK'
  BY <1>1, AbandonFacts DEF IInv, TypeOK, CloseMulti
<1>3. Started' /\ OneAtATime' /\ Stored' /\ Queued' /\ Emitted' /\ EndsWhole'
  BY <1>1, <1>2, AbandonKeeps DEF CloseMulti
<1>4. Whereabouts'
  <2>1. \A r \in Requests : InFlight(r)' => InFlight(r)
    BY <1>1, AbandonFacts DEF CloseMulti
  <2>2. /\ \A d \in Curls : member'[d] \in {member[d], Nil}
        /\ UNCHANGED <<isOpen, inside, owner, multi>>
    BY DEF CloseMulti
  <2>3. \A r \in Requests : InFlight(r) => owner[r] \in Curls
    BY DEF IInv, Started, InFlight
  <2>. QED
    BY <2>1, <2>2, <2>3 DEF IInv, Whereabouts
<1>. QED
  BY <1>2, <1>3, <1>4 DEF IInv

\* A chunk is the next one of the only request its Curl has.
LEMMA DataCallbackStep ==
  ASSUME NEW r \in Requests, IInv, DataCallback(r)
  PROVE  IInv'
<1>. USE DEF insideVars
<1>. DEFINE c == owner[r]
            n == received[r] + 1
<1>1. /\ InFlight(r) /\ c \in Curls /\ isRunning[c] /\ received[r] \in Nat
      /\ n \in 1..MaxChunks
      /\ \A s \in Requests \ {r} : InFlight(s) => owner[s] \in Curls \ {c}
  BY ChunksAreCounted DEF IInv, TypeOK, Started, OneAtATime, DataCallback, InFlight
<1>2. /\ received' = [received EXCEPT ![r] = n]
      /\ chunks' = [chunks EXCEPT ![c] = @ \cup {<<r, n>>}]
      /\ at' = "callback" /\ active' = r
      /\ UNCHANGED <<isOpen, isRunning, multiInstance, listening, insideVars, phase, owner,
                     multi, answer, threw, event, payload, immediates, activeMulti>>
  BY DEF DataCallback
<1>3. /\ received'[r] = n /\ chunks'[c] = chunks[c] \cup {<<r, n>>}
      /\ \A s \in Requests \ {r} : received'[s] = received[s]
      /\ \A d \in Curls \ {c} : chunks'[d] = chunks[d]
  BY <1>1, <1>2 DEF IInv, TypeOK
<1>4. TypeOK'
  <2>1. received' \in [Requests -> 0..MaxChunks]
    BY <1>1, <1>2 DEF IInv, TypeOK
  <2>2. chunks' \in [Curls -> SUBSET (Requests \X (1..MaxChunks))]
    BY <1>1, <1>2 DEF IInv, TypeOK
  <2>. QED
    BY <2>1, <2>2, <1>2 DEF IInv, TypeOK
<1>5. \A s \in Requests : InFlight(s)' <=> InFlight(s)
  BY <1>2 DEF InFlight
<1>6. Response(r)' = Response(r) \cup {<<r, n>>}
  <2>1. 1..n = (1..received[r]) \cup {n}
    BY <1>1
  <2>2. Response(r)' = {<<r, i>> : i \in 1..n}
    BY <1>3 DEF Response
  <2>. QED
    BY <2>1, <2>2 DEF Response
<1>7. \A s \in Requests \ {r} : Response(s)' = Response(s)
  BY <1>3 DEF Response
<1>8. Started' /\ Queued' /\ Emitted'
  BY <1>1, <1>2 DEF IInv, Started, Queued, Emitted
<1>9. OneAtATime' /\ Whereabouts'
  BY <1>2, <1>5 DEF IInv, OneAtATime, Whereabouts
<1>10. Stored'
  <2>1. \A d \in Curls : ~isRunning'[d] => chunks'[d] = {}
    BY <1>1, <1>2, <1>3 DEF IInv, Stored
  <2>2. ASSUME NEW s \in Requests, InFlight(s)'
        PROVE  chunks'[owner'[s]] = Response(s)'
    <3>1. InFlight(s) /\ chunks[owner[s]] = Response(s) /\ owner'[s] = owner[s]
      BY <2>2, <1>2, <1>5 DEF IInv, Stored
    <3>2. CASE s = r
      BY <3>1, <3>2, <1>3, <1>6
    <3>3. CASE s # r
      BY <3>1, <3>3, <1>1, <1>3, <1>7
    <3>. QED
      BY <3>2, <3>3
  <2>3. \A s \in Requests : phase'[s] = "idle" => received'[s] = 0
    BY <1>1, <1>2, <1>3 DEF IInv, Stored, InFlight
  <2>. QED
    BY <2>1, <2>2, <2>3 DEF Stored
<1>11. EndsWhole'
  <2>1. event[r] = "none"
    BY <1>1 DEF IInv, TypeOK, Emitted, InFlight
  <2>. QED
    BY <2>1, <1>2, <1>7 DEF IInv, EndsWhole
<1>. QED
  BY <1>4, <1>8, <1>9, <1>10, <1>11 DEF IInv

\* A request moves on while it stays under way, and its immediate is queued
\* behind those of others when it becomes scheduled.
LEMMA AdvanceStep ==
  ASSUME NEW r \in Requests, IInv,
         \/ \E code \in {"ok", "failed"} : TransferDone(r, code)
         \/ SettlePromise(r)
         \/ Reaction(r)
  PROVE  IInv'
<1>. USE DEF curlVars, insideVars, loopVars
<1>1. /\ phase[r] \in {"running", "answered", "settled"}
      /\ phase'[r] \in {"answered", "settled", "scheduled"}
      /\ \A s \in Requests \ {r} : phase'[s] = phase[s]
      /\ \/ phase'[r] # "scheduled" /\ immediates' = immediates
         \/ phase'[r] = "scheduled" /\ immediates' = Append(immediates, r)
      /\ UNCHANGED <<curlVars, insideVars, owner, multi, threw, received, event, payload,
                     loopVars>>
  BY DEF IInv, TypeOK, TransferDone, SettlePromise, Reaction
<1>2. TypeOK'
  <2>1. immediates \in Seq(Requests)
    BY DEF IInv, TypeOK
  <2>2. immediates' \in Seq(Requests)
    <3>1. Append(immediates, r) \in Seq(Requests)
      BY <2>1, AppendProperties
    <3>. QED
      BY <2>1, <3>1, <1>1
  <2>3. phase \in [Requests -> Phases] /\ answer \in [Requests -> {"none", "ok", "failed"}]
    BY DEF IInv, TypeOK
  <2>4. phase' \in [Requests -> Phases]
    BY <2>3 DEF Phases, TransferDone, SettlePromise, Reaction
  <2>5. answer' \in [Requests -> {"none", "ok", "failed"}]
    BY <2>3 DEF TransferDone, SettlePromise, Reaction
  <2>. QED
    BY <2>2, <2>4, <2>5, <1>1 DEF IInv, TypeOK
<1>3. \A s \in Requests : InFlight(s)' <=> InFlight(s)
  BY <1>1 DEF InFlight
<1>4. \A s \in Requests : Response(s)' = Response(s)
  BY <1>1 DEF Response
<1>5. Started' /\ Emitted'
  BY <1>1 DEF IInv, TypeOK, Started, Emitted
<1>6. OneAtATime' /\ Whereabouts' /\ Stored' /\ EndsWhole'
  <2>1. OneAtATime' /\ Whereabouts'
    BY <1>1, <1>3 DEF IInv, OneAtATime, Whereabouts
  <2>2. Stored'
    BY <1>1, <1>3, <1>4 DEF IInv, Stored
  <2>3. EndsWhole'
    BY <1>1, <1>4 DEF IInv, EndsWhole
  <2>. QED
    BY <2>1, <2>2, <2>3
<1>7. Queued'
  <2>1. /\ Len(immediates) \in Nat
        /\ \A i \in 1..Len(immediates) : immediates[i] \in Requests \ {r}
    BY <1>1 DEF IInv, TypeOK, Queued
  <2>2. CASE immediates' = immediates
    BY <2>1, <2>2, <1>1 DEF IInv, Queued
  <2>3. CASE phase'[r] = "scheduled" /\ immediates' = Append(immediates, r)
    <3>1. /\ Len(immediates') = Len(immediates) + 1
          /\ immediates'[Len(immediates) + 1] = r
          /\ \A i \in 1..Len(immediates) : immediates'[i] = immediates[i]
      BY <2>3 DEF IInv, TypeOK
    <3>. HIDE DEF IInv
    <3>2. \A i \in 1..Len(immediates') :
            i = Len(immediates) + 1 \/ i \in 1..Len(immediates)
      BY <3>1, <2>1
    <3>. QED
      BY <3>1, <3>2, <2>1, <2>3, <1>1 DEF IInv, Queued
  <2>. QED
    BY <2>2, <2>3, <1>1
<1>. QED
  BY <1>2, <1>5, <1>6, <1>7 DEF IInv

\* What finalize() does to the request, its Curl and the handle, whichever way
\* the request ended.
LEMMA FinalizeFacts ==
  ASSUME NEW r \in Requests, IInv, Finalize(r), InFlight(r)
  PROVE  LET c == owner[r] IN
         /\ phase' = [phase EXCEPT ![r] = "done"]
         /\ UNCHANGED <<isOpen, multiInstance, listening, multiOpen, owner, multi, answer,
                        threw, received, activeMulti>>
         /\ inside' \in [Curls -> BOOLEAN] /\ member' \in [Curls -> Multis \cup {Nil}]
         /\ \A d \in Curls : /\ inside'[d] => inside[d]
                             /\ member'[d] \in {member[d], Nil}
                             /\ member'[d] # Nil => inside'[d]
         /\ \/ /\ isRunning' = [isRunning EXCEPT ![c] = FALSE]
               /\ chunks' = [chunks EXCEPT ![c] = {}]
            \/ UNCHANGED <<isRunning, chunks>> /\ at' = "dead"
         /\ payload' = payload \/ payload' = [payload EXCEPT ![r] = chunks[c]]
         /\ \/ event' = event
            \/ event' = [event EXCEPT ![r] = "error"]
            \/ /\ event' = [event EXCEPT ![r] = "end"]
               /\ payload' = [payload EXCEPT ![r] = chunks[c]]
         /\ \/ at' \in {"listener", "dead"} /\ active' = r
            \/ UNCHANGED <<at, active>>
<1>. DEFINE c == owner[r]
<1>1. c \in Curls
  BY DEF IInv, Started, InFlight
<1>2. /\ phase' = [phase EXCEPT ![r] = "done"]
      /\ UNCHANGED <<isOpen, multiInstance, listening, multiOpen, owner, multi, answer,
                     threw, received, activeMulti>>
  BY DEF Finalize
<1>3. /\ inside' \in [Curls -> BOOLEAN] /\ member' \in [Curls -> Multis \cup {Nil}]
      /\ \A d \in Curls : /\ inside'[d] => inside[d]
                          /\ member'[d] \in {member[d], Nil}
                          /\ member'[d] # Nil => inside'[d]
  <2>1. PICK removed \in BOOLEAN :
          /\ inside' = [inside EXCEPT ![c] = @ /\ ~removed]
          /\ member' = [member EXCEPT ![c] = IF removed THEN Nil ELSE @]
    BY DEF Finalize, RemoveFromMulti
  <2>2. /\ inside \in [Curls -> BOOLEAN] /\ member \in [Curls -> Multis \cup {Nil}]
        /\ \A d \in Curls : member[d] # Nil => inside[d]
    BY DEF IInv, TypeOK
  <2>3. inside' \in [Curls -> BOOLEAN] /\ member' \in [Curls -> Multis \cup {Nil}]
    BY <2>1, <2>2
  <2>4. \A d \in Curls \ {c} : inside'[d] = inside[d] /\ member'[d] = member[d]
    BY <2>1, <2>2
  <2>5. (inside'[c] <=> inside[c] /\ ~removed) /\ member'[c] = IF removed THEN Nil ELSE member[c]
    BY <1>1, <2>1, <2>2
  <2>. QED
    BY <2>2, <2>3, <2>4, <2>5, NilIsNothing
<1>4. CASE Succeeded(r) /\ isOpen[c]
  BY <1>2, <1>3, <1>4 DEF Finalize, OnEnd, ResetInternalState, Emit
<1>5. CASE Succeeded(r) /\ ~isOpen[c]
  BY <1>2, <1>3, <1>5 DEF Finalize, OnEnd
<1>6. CASE ~Succeeded(r)
  BY <1>2, <1>3, <1>6 DEF Finalize, OnError, ResetInternalState, Emit
<1>. QED
  BY <1>4, <1>5, <1>6

\* The next immediate finalizes a request of its own; the buffer it empties
\* held that request's response and nothing else.
LEMMA ImmediateStep ==
  ASSUME IInv, RunImmediate
  PROVE  IInv'
<1>1. /\ immediates \in Seq(Requests) /\ immediates # <<>>
      /\ Head(immediates) = immediates[1] /\ Len(immediates) \in Nat \ {0}
  BY DEF IInv, TypeOK, RunImmediate
<1>2. PICK r \in Requests : r = immediates[1]
  BY <1>1
<1>3. Finalize(r) /\ immediates' = Tail(immediates)
  BY <1>1, <1>2 DEF RunImmediate
<1>4. phase[r] = "scheduled" /\ InFlight(r)
  BY <1>1, <1>2 DEF IInv, Queued, InFlight
<1>. DEFINE c == owner[r]
<1>5. /\ phase' = [phase EXCEPT ![r] = "done"]
      /\ UNCHANGED <<isOpen, multiInstance, listening, multiOpen, owner, multi, answer,
                     threw, received, activeMulti>>
      /\ inside' \in [Curls -> BOOLEAN] /\ member' \in [Curls -> Multis \cup {Nil}]
      /\ \A d \in Curls : /\ inside'[d] => inside[d]
                          /\ member'[d] \in {member[d], Nil}
                          /\ member'[d] # Nil => inside'[d]
      /\ \/ /\ isRunning' = [isRunning EXCEPT ![c] = FALSE]
            /\ chunks' = [chunks EXCEPT ![c] = {}]
         \/ UNCHANGED <<isRunning, chunks>> /\ at' = "dead"
      /\ payload' = payload \/ payload' = [payload EXCEPT ![r] = chunks[c]]
      /\ \/ event' = event
         \/ event' = [event EXCEPT ![r] = "error"]
         \/ /\ event' = [event EXCEPT ![r] = "end"]
            /\ payload' = [payload EXCEPT ![r] = chunks[c]]
      /\ \/ at' \in {"listener", "dead"} /\ active' = r
         \/ UNCHANGED <<at, active>>
  BY <1>3, <1>4, FinalizeFacts
<1>6. /\ c \in Curls /\ isRunning[c] /\ chunks[c] = Response(r) /\ event[r] = "none"
      /\ \A s \in Requests \ {r} : InFlight(s) => owner[s] \in Curls \ {c}
  BY <1>4 DEF IInv, TypeOK, Started, OneAtATime, Stored, Emitted, InFlight
<1>7. /\ phase'[r] = "done" /\ ~InFlight(r)'
      /\ \A s \in Requests \ {r} : phase'[s] = phase[s] /\ (InFlight(s)' <=> InFlight(s))
  BY <1>5 DEF IInv, TypeOK, InFlight
<1>8. \A d \in Curls \ {c} : isRunning'[d] = isRunning[d] /\ chunks'[d] = chunks[d]
  BY <1>5 DEF IInv, TypeOK
<1>9. \/ ~isRunning'[c] /\ chunks'[c] = {}
      \/ isRunning'[c]
  BY <1>5, <1>6 DEF IInv, TypeOK
<1>10. TypeOK'
  <2>1. immediates' \in Seq(Requests)
    BY <1>1, <1>3, HeadTailProperties
  <2>2. phase' \in [Requests -> Phases]
    BY <1>5 DEF IInv, TypeOK, Phases
  <2>3. /\ isRunning' \in [Curls -> BOOLEAN]
        /\ chunks' \in [Curls -> SUBSET (Requests \X (1..MaxChunks))]
    BY <1>5 DEF IInv, TypeOK
  <2>4. /\ chunks[c] \in SUBSET (Requests \X (1..MaxChunks))
        /\ payload \in [Requests -> SUBSET (Requests \X (1..MaxChunks))]
        /\ event \in [Requests -> {"none", "end", "error"}]
    BY <1>6 DEF IInv, TypeOK
  <2>5. payload' \in [Requests -> SUBSET (Requests \X (1..MaxChunks))]
    BY <1>5, <2>4
  <2>6. event' \in [Requests -> {"none", "end", "error"}]
    BY <1>5, <2>4
  <2>7. at' \in {"loop", "libcurl", "callback", "listener", "dead"} /\ active' \in Requests \cup {Nil}
    BY <1>5 DEF IInv, TypeOK
  <2>. QED
    BY <2>1, <2>2, <2>3, <2>5, <2>6, <2>7, <1>5 DEF IInv, TypeOK
<1>11. \A s \in Requests : Response(s)' = Response(s)
  BY <1>5 DEF Response
<1>12. Started'
  BY <1>4, <1>5, <1>7 DEF IInv, Started
<1>13. OneAtATime'
  BY <1>5, <1>6, <1>7, <1>8 DEF IInv, OneAtATime
<1>14. Stored'
  <2>1. \A d \in Curls : ~isRunning'[d] => chunks'[d] = {}
    BY <1>8, <1>9 DEF IInv, Stored
  <2>2. \A s \in Requests : InFlight(s)' => chunks'[owner'[s]] = Response(s)'
    BY <1>5, <1>6, <1>7, <1>8, <1>11 DEF IInv, Stored
  <2>3. \A s \in Requests : phase'[s] = "idle" => received'[s] = 0
    BY <1>5, <1>7 DEF IInv, Stored
  <2>. QED
    BY <2>1, <2>2, <2>3 DEF Stored
<1>15. Queued'
  <2>1. /\ Len(immediates') = Len(immediates) - 1
        /\ \A i \in 1..Len(immediates') : immediates'[i] = immediates[i + 1]
    BY <1>1, <1>3
  <2>2. \A i \in 1..Len(immediates') : /\ i + 1 \in 1..Len(immediates) /\ i + 1 # 1
                                       /\ immediates[i + 1] \in Requests
    BY <1>1, <2>1
  <2>3. \A i \in 1..Len(immediates') : immediates'[i] \in Requests \ {r}
    BY <1>1, <1>2, <2>1, <2>2 DEF IInv, Queued
  <2>4. \A i \in 1..Len(immediates') : phase'[immediates'[i]] = "scheduled"
    BY <1>7, <2>1, <2>2, <2>3 DEF IInv, Queued
  <2>5. \A i, j \in 1..Len(immediates') : immediates'[i] = immediates'[j] => i = j
    BY <1>1, <2>1, <2>2 DEF IInv, Queued
  <2>. QED
    BY <2>4, <2>5 DEF Queued
<1>16. \A s \in Requests \ {r} : event'[s] = event[s] /\ payload'[s] = payload[s]
  BY <1>5 DEF IInv, TypeOK
<1>17. Emitted'
  BY <1>7, <1>16 DEF IInv, Emitted
<1>18. Whereabouts'
  BY <1>5, <1>6, <1>7 DEF IInv, Whereabouts
<1>19. EndsWhole'
  <2>1. event'[r] = "end" => payload'[r] = Response(r)
    BY <1>5, <1>6 DEF IInv, TypeOK
  <2>. QED
    BY <2>1, <1>11, <1>16 DEF IInv, EndsWhole
<1>. QED
  BY <1>10, <1>12, <1>13, <1>14, <1>15, <1>17, <1>18, <1>19 DEF IInv

----------------------------------------------------------------------------
(* The invariant of every behavior *)

\* The initial states satisfy the invariant.
LEMMA InitIInv == Init => IInv
<1>. SUFFICES ASSUME Init PROVE IInv
  OBVIOUS
<1>1. TypeOK
  BY DefaultIsMulti, ChunksAreCounted DEF Init, TypeOK, Phases
<1>2. Started /\ OneAtATime /\ Emitted /\ Whereabouts /\ EndsWhole
  BY DEF Init, Started, OneAtATime, Emitted, Whereabouts, EndsWhole, InFlight
<1>3. Stored /\ Queued
  BY DEF Init, Stored, Queued, InFlight
<1>. QED
  BY <1>1, <1>2, <1>3 DEF IInv

\* A step that changes nothing keeps the invariant.
LEMMA StutterIInv == IInv /\ UNCHANGED vars => IInv'
<1>. SUFFICES ASSUME IInv, UNCHANGED vars PROVE IInv'
  OBVIOUS
<1>1. TypeOK'
  BY DEF IInv, TypeOK, vars, curlVars, insideVars, requestVars, loopVars
<1>. QED
  BY <1>1, Frame DEF vars, curlVars, insideVars, requestVars, loopVars

\* Every step keeps the invariant; one step of the proof per action.
LEMMA NextIInv == IInv /\ [Next]_vars => IInv'
<1>. SUFFICES ASSUME IInv, Next PROVE IInv'
  BY StutterIInv
<1>1. CASE \E c \in Curls : CurlCall(c)
  BY <1>1, QuietStep, PerformStep, CloseStep DEF CurlCall
<1>2. CASE \E m \in Multis : CloseMulti(m)
  BY <1>2, CloseMultiStep
<1>3. CASE LibcurlStep
  BY <1>3, QuietStep, DataCallbackStep, AdvanceStep DEF LibcurlStep
<1>4. CASE \E r \in Requests : Reaction(r)
  BY <1>4, AdvanceStep
<1>5. CASE RunImmediate
  BY <1>5, ImmediateStep
<1>6. CASE ListenerReturns
  BY <1>6, QuietStep
<1>. QED
  BY <1>1, <1>2, <1>3, <1>4, <1>5, <1>6 DEF Next

\* The invariant holds in every reachable state.
LEMMA Invariance == Spec => []IInv
BY InitIInv, NextIInv, PTL DEF Spec

\* The values of Curl, Easy and request stay in their ranges, and an Easy is in
\* a multi only if its flag says so (Multi.cc:297-381).
THEOREM TypeCorrect == Spec => []TypeOK
<1>1. IInv => TypeOK
  BY DEF IInv
<1>. QED
  BY <1>1, Invariance, PTL

\* An 'end' event carries the response of its own request and all of it,
\* whatever callers do between the last chunk and the event, with the one
\* buffer that all requests of a Curl share (Curl.ts:300-301, 923-926).
THEOREM EndCarriesItsResponse == Spec => []OwnData
<1>1. IInv => OwnData
  BY DEF IInv, EndsWhole, Response, OwnData
<1>. QED
  BY <1>1, Invariance, PTL

----------------------------------------------------------------------------
(* The removal in finalize() *)

\* The removal runs from the loop, outside every callback, and on the multi
\* that perform() used: libcurl can refuse it only when that multi is closed.
LEMMA RemovedBeforeEvent ==
  ASSUME IInv, Next, NEW r \in Requests, event[r] = "none", event'[r] # "none"
  PROVE  ~inside'[owner[r]] \/ ~multiOpen[multi[r]]
<1>1. RunImmediate
  BY DEF Next, CurlCall, LibcurlStep, AddListeners, SetMulti, Perform, PerformThrows, Close,
         CloseThrows, Reset, CloseMulti, SocketAction, DataCallback, CallbackReturns,
         TransferDone, SettlePromise, LibcurlReturns, Reaction, ListenerReturns,
         requestVars
<1>2. PICK s \in Requests : s = Head(immediates) /\ s = immediates[1] /\ 1 \in 1..Len(immediates)
  BY <1>1 DEF IInv, TypeOK, RunImmediate
<1>3. Finalize(s) /\ at = "loop"
  BY <1>1, <1>2 DEF RunImmediate
<1>4. phase[s] = "scheduled" /\ InFlight(s)
  BY <1>2 DEF IInv, Queued, InFlight
<1>5. r = s
  <2>1. event' = event \/ \E name \in {"error", "end"} : event' = [event EXCEPT ![s] = name]
    BY <1>3, <1>4, FinalizeFacts
  <2>. QED
    BY <2>1 DEF IInv, TypeOK
<1>. DEFINE c == owner[r]
            removed == isOpen[c] /\ inside[c] /\ CanRemove(c, multi[r])
<1>6. c \in Curls /\ inside'[c] = (inside[c] /\ ~removed)
  BY <1>3, <1>4, <1>5 DEF IInv, TypeOK, Started, InFlight, Finalize, RemoveFromMulti
<1>7. /\ isOpen[c] \/ ~inside[c]
      /\ member[c] \in {multi[r], Nil}
  BY <1>4, <1>5, <1>6 DEF IInv, Whereabouts
<1>8. CanRemove(c, multi[r]) <=> multiOpen[multi[r]]
  BY <1>3, <1>7 DEF CanRemove, InCallback
<1>. QED
  BY <1>6, <1>7, <1>8

\* When 'end' or 'error' is emitted the handle is out of its multi, unless that
\* multi was closed under the request (Curl.ts:750-758).
THEOREM EventsComeAfterRemoval == Spec => FinalizedOutside
<1>1. IInv /\ [Next]_vars =>
        [\A r \in Requests :
           event[r] = "none" /\ event'[r] # "none" =>
             ~inside'[owner[r]] \/ ~multiOpen[multi[r]]]_vars
  BY RemovedBeforeEvent
<1>. QED
  BY <1>1, Invariance, PTL DEF Spec, FinalizedOutside

----------------------------------------------------------------------------
(* Disciplined callers *)

\* A request under way has an open Curl that somebody listens to.
Guarded == \A r \in Requests : InFlight(r) => isOpen[owner[r]] /\ listening[owner[r]]

\* A busy Curl has a request under way.
BusyForARequest ==
  \A c \in Curls : isRunning[c] => \E r \in Requests : owner[r] = c /\ InFlight(r)

Calm == at # "dead" /\ Guarded /\ BusyForARequest

\* Nothing about the requests under way changes when none of them starts or
\* ends, no Curl becomes busy or free and no busy Curl loses its listeners.
LEMMA CalmFrame ==
  ASSUME IInv, Calm, at' # "dead",
         \A r \in Requests : InFlight(r)' <=> InFlight(r),
         UNCHANGED <<isRunning, owner>>,
         \A c \in Curls : isRunning[c] /\ isOpen[c] /\ listening[c] =>
           isOpen'[c] /\ listening'[c]
  PROVE  Calm'
<1>1. \A r \in Requests : InFlight(r) => owner[r] \in Curls /\ isRunning[owner[r]]
  BY DEF IInv, Started, OneAtATime, InFlight
<1>2. Guarded'
  BY <1>1 DEF Calm, Guarded
<1>3. BusyForARequest'
  BY DEF Calm, BusyForARequest
<1>. QED
  BY <1>2, <1>3 DEF Calm

\* Disciplined callers close neither a busy Curl nor a Multi that one is in, so
\* no request is abandoned.
LEMMA NobodyAbandoned ==
  ASSUME IInv, NEW S \in SUBSET Curls, Abandon(S), \A c \in S : ~isRunning[c]
  PROVE  \A r \in Requests : InFlight(r)' <=> InFlight(r)
<1>1. \A r \in Requests : InFlight(r) => owner[r] \notin S
  BY DEF IInv, OneAtATime
<1>2. \A r \in Requests : phase'[r] = phase[r]
  BY <1>1 DEF Abandon, InFlight
<1>. QED
  BY <1>2 DEF InFlight

\* Calls on a Curl by disciplined callers.
LEMMA CallKeepsCalm ==
  ASSUME Disciplined, IInv, Calm, NEW c \in Curls, CurlCall(c)
  PROVE  Calm'
<1>. USE DEF curlVars, insideVars, requestVars, loopVars
<1>1. CASE AddListeners(c) \/ \E m \in Multis : SetMulti(c, m)
  <2>1. /\ \A d \in Curls : listening[d] => listening'[d]
        /\ UNCHANGED <<isOpen, isRunning, owner, phase, at>>
    BY <1>1 DEF IInv, TypeOK, AddListeners, SetMulti
  <2>2. \A r \in Requests : InFlight(r)' <=> InFlight(r)
    BY <2>1 DEF InFlight
  <2>. QED
    BY <2>1, <2>2, CalmFrame DEF Calm
<1>2. CASE \E r \in Requests : Perform(c, r)
  <2>1. PICK r \in Requests : Perform(c, r)
    BY <1>2
  <2>2. /\ ~InFlight(r) /\ isOpen[c] /\ listening[c] /\ at' # "dead"
        /\ phase'[r] = "running" /\ owner'[r] = c /\ isRunning'[c]
        /\ \A s \in Requests \ {r} : phase'[s] = phase[s] /\ owner'[s] = owner[s]
        /\ \A d \in Curls \ {c} : isRunning'[d] = isRunning[d]
        /\ UNCHANGED <<isOpen, listening>>
    BY <2>1 DEF IInv, TypeOK, Calm, Perform, Accepts, InFlight
  <2>3. InFlight(r)' /\ \A s \in Requests \ {r} : InFlight(s)' <=> InFlight(s)
    BY <2>2 DEF InFlight
  <2>4. Guarded'
    BY <2>2, <2>3 DEF Calm, Guarded
  <2>5. BusyForARequest'
    BY <2>2, <2>3 DEF Calm, BusyForARequest
  <2>. QED
    BY <2>2, <2>4, <2>5 DEF Calm
<1>3. CASE PerformThrows(c)
  BY <1>3 DEF PerformThrows
<1>4. CASE Close(c)
  <2>1. \A r \in Requests : InFlight(r)' <=> InFlight(r)
    BY <1>4, NobodyAbandoned DEF Close
  <2>2. /\ ~isRunning[c] /\ UNCHANGED <<isRunning, owner, at>>
        /\ \A d \in Curls \ {c} : isOpen'[d] = isOpen[d] /\ listening'[d] = listening[d]
    BY <1>4 DEF IInv, TypeOK, Close
  <2>. QED
    BY <2>1, <2>2, CalmFrame DEF Calm
<1>5. CASE CloseThrows(c) \/ Reset(c)
  <2>1. /\ ~isRunning[c] /\ UNCHANGED <<isOpen, isRunning, owner, phase, at>>
        /\ \A d \in Curls \ {c} : listening'[d] = listening[d]
    BY <1>5 DEF IInv, TypeOK, CloseThrows, Reset
  <2>2. \A r \in Requests : InFlight(r)' <=> InFlight(r)
    BY <2>1 DEF InFlight
  <2>. QED
    BY <2>1, <2>2, CalmFrame DEF Calm
<1>. QED
  BY <1>1, <1>2, <1>3, <1>4, <1>5 DEF CurlCall

\* The immediate of a guarded request emits its event and frees its Curl.
LEMMA ImmediateKeepsCalm ==
  ASSUME IInv, Calm, RunImmediate
  PROVE  Calm'
<1>1. PICK r \in Requests : r = Head(immediates) /\ r = immediates[1] /\ 1 \in 1..Len(immediates)
  BY DEF IInv, TypeOK, RunImmediate
<1>2. Finalize(r)
  BY <1>1 DEF RunImmediate
<1>3. phase[r] = "scheduled" /\ InFlight(r)
  BY <1>1 DEF IInv, Queued, InFlight
<1>. DEFINE c == owner[r]
<1>4. /\ c \in Curls /\ isOpen[c] /\ listening[c]
      /\ \A s \in Requests \ {r} : InFlight(s) => owner[s] \in Curls \ {c}
  BY <1>3 DEF IInv, Started, OneAtATime, Calm, Guarded, InFlight
<1>5. at' = "listener" /\ isRunning' = [isRunning EXCEPT ![c] = FALSE]
  BY <1>2, <1>4 DEF Finalize, OnEnd, OnError, ResetInternalState, Emit
<1>6. /\ ~isRunning'[c] /\ \A d \in Curls \ {c} : isRunning'[d] = isRunning[d]
      /\ phase'[r] = "done" /\ \A s \in Requests \ {r} : phase'[s] = phase[s]
      /\ UNCHANGED <<isOpen, listening, owner>>
  BY <1>2, <1>4, <1>5 DEF IInv, TypeOK, Finalize
<1>7. ~InFlight(r)' /\ \A s \in Requests \ {r} : InFlight(s)' <=> InFlight(s)
  BY <1>6 DEF InFlight
<1>8. Guarded'
  BY <1>6, <1>7 DEF Calm, Guarded
<1>9. BusyForARequest'
  BY <1>4, <1>6, <1>7 DEF Calm, BusyForARequest
<1>. QED
  BY <1>5, <1>8, <1>9 DEF Calm

\* Every step of disciplined callers keeps Calm.
LEMMA NextCalm == Disciplined /\ IInv /\ Calm /\ [Next]_vars => Calm'
<1>. SUFFICES ASSUME Disciplined, IInv, Calm, [Next]_vars PROVE Calm'
  OBVIOUS
<1>. USE DEF curlVars, insideVars, requestVars, loopVars
<1>1. CASE \E c \in Curls : CurlCall(c)
  BY <1>1, CallKeepsCalm
<1>2. CASE \E m \in Multis : CloseMulti(m)
  <2>1. PICK m \in Multis : CloseMulti(m)
    BY <1>2
  <2>2. \A c \in Curls : member[c] = m => ~isRunning[c]
    BY <2>1 DEF CloseMulti
  <2>3. \A r \in Requests : InFlight(r)' <=> InFlight(r)
    BY <2>1, <2>2, NobodyAbandoned DEF CloseMulti
  <2>. QED
    BY <2>1, <2>3, CalmFrame DEF CloseMulti, Calm
<1>3. CASE LibcurlStep \/ \E r \in Requests : Reaction(r)
  <2>1. \A r \in Requests : InFlight(r)' <=> InFlight(r)
    BY <1>3 DEF LibcurlStep, SocketAction, DataCallback, CallbackReturns, TransferDone,
         SettlePromise, LibcurlReturns, Reaction, IInv, TypeOK, InFlight
  <2>2. at' # "dead" /\ UNCHANGED <<isOpen, isRunning, listening, owner>>
    BY <1>3 DEF LibcurlStep, SocketAction, DataCallback, CallbackReturns, TransferDone,
         SettlePromise, LibcurlReturns, Reaction, Calm
  <2>. QED
    BY <2>1, <2>2, CalmFrame
<1>4. CASE RunImmediate
  BY <1>4, ImmediateKeepsCalm
<1>5. CASE ListenerReturns \/ UNCHANGED vars
  <2>1. at' # "dead" /\ UNCHANGED <<isOpen, isRunning, listening, owner, phase>>
    BY <1>5 DEF ListenerReturns, vars, Calm
  <2>2. \A r \in Requests : InFlight(r)' <=> InFlight(r)
    BY <2>1 DEF InFlight
  <2>. QED
    BY <2>1, <2>2, CalmFrame
<1>. QED
  BY <1>1, <1>2, <1>3, <1>4, <1>5 DEF Next

\* Calm holds in every reachable state of disciplined callers.
LEMMA Calmness == ASSUME Disciplined PROVE Spec => []Calm
<1>1. Init => Calm
  BY DEF Init, Calm, Guarded, BusyForARequest, InFlight
<1>2. IInv /\ Calm /\ [Next]_vars => Calm'
  BY NextCalm
<1>. QED
  BY <1>1, <1>2, Invariance, PTL DEF Spec

\* Callers that listen, and close and reset only what is not running, never
\* meet an exception thrown from an immediate: not the one of getInfo() on a
\* closed handle, nor that of an 'error' nobody listens to
\* (Curl.ts:275-278, 307, 773-781).
THEOREM NothingUncaught == ASSUME Disciplined PROVE Spec => []NoUncaught
<1>1. Calm => NoUncaught
  BY DEF Calm, NoUncaught
<1>. QED
  BY <1>1, Calmness, PTL

\* For such callers a Curl is running exactly as long as it has a request under
\* way (Curl.ts:735, 920-926).
THEOREM RunningExact == ASSUME Disciplined PROVE Spec => []RunningInFlight
<1>1. ASSUME IInv, Calm, NEW c \in Curls
      PROVE  isRunning[c] <=> \E r \in Requests : owner[r] = c /\ InFlight(r)
  <2>1. isRunning[c] => \E r \in Requests : owner[r] = c /\ InFlight(r)
    BY <1>1 DEF Calm, BusyForARequest
  <2>2. (\E r \in Requests : owner[r] = c /\ InFlight(r)) => isRunning[c]
    BY <1>1 DEF IInv, OneAtATime
  <2>3. isRunning[c] \in BOOLEAN
    BY <1>1 DEF IInv, TypeOK
  <2>. QED
    BY <2>1, <2>2, <2>3
<1>2. IInv /\ Calm => RunningInFlight
  BY <1>1 DEF RunningInFlight
<1>. QED
  BY <1>2, Invariance, Calmness, PTL

=============================================================================
