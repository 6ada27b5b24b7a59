---------------------------- MODULE CurlyProofs ----------------------------
(***************************************************************************)
(* Proofs about what curly() keeps and what it gives.                      *)
(*                                                                         *)
(* CurlyPool: PoolSound and HandlesAccounted, for every number of Curls    *)
(* and calls and every limit of the pool.                                  *)
(*                                                                         *)
(* ResponseData: every caller gets its own response, for bodies, chunks    *)
(* and header groups of any length.                                        *)
(***************************************************************************)
EXTENDS CurlyPool, ResponseData, NaturalsInduction, WellFoundedInduction,
  SequenceTheorems, FiniteSetTheorems, TLAPS

----------------------------------------------------------------------------
(* The inductive invariant *)

\* c emitted 'end' or 'error' and its listener did not run yet.
Emitting(c) == at = "event" /\ event.to # <<>> /\ c = event.curl

\* c belongs to a call that threw before it made a promise.
Lost(c) == \E k \in Calls : call[k] = "threw" /\ handle[k] = c

\* An event goes to one listener, and is dispatched until that returned.
Dispatch ==
  /\ event \in [curl : Curls \cup {Nil}, end : BOOLEAN, to : Seq(Calls)]
  /\ at \in {"loop", "callback"} => event = NoEvent
  /\ Len(event.to) \in {0, 1}
  /\ event.to # <<>> => event.curl \in Curls
  /\ at = "parser" => event.to # <<>>

\* The pool holds a Curl once and keeps to its limit.
PoolFits == Len(pool) <= poolLimit /\ IsInjective(pool)

\* Who has a Curl, and whose listeners it has: its request, those of the one
\* call that started it; otherwise none but while its event is emitted.
Held(c) ==
  /\ request[c] # Nil =>
       isOpen[c] /\ c \notin ToSet(pool) /\ ~Emitting(c) /\ listeners[c] = {request[c]}
  /\ c \in ToSet(pool) => isOpen[c] /\ ~Emitting(c)
  /\ Emitting(c) => isOpen[c]
  /\ request[c] = Nil /\ ~Emitting(c) => listeners[c] = {}
  /\ isOpen[c] => Emitting(c) \/ c \in ToSet(pool) \/ request[c] # Nil \/ Lost(c)

IInv ==
  /\ TypeOK
  /\ Dispatch
  /\ PoolFits
  /\ \A c \in Curls : Held(c)

----------------------------------------------------------------------------
(* Sequences without repetition *)

\* Adding a value that is not there yet.
LEMMA AppendNew ==
  ASSUME NEW s \in Seq(Curls), IsInjective(s), NEW c \in Curls, c \notin ToSet(s)
  PROVE  /\ Append(s, c) \in Seq(Curls) /\ Len(Append(s, c)) = Len(s) + 1
         /\ IsInjective(Append(s, c))
         /\ \A d : d \in ToSet(Append(s, c)) <=> d \in ToSet(s) \/ d = c
<1>. DEFINE t == Append(s, c)
<1>1. /\ t \in Seq(Curls) /\ Len(t) = Len(s) + 1 /\ Len(s) \in Nat
      /\ DOMAIN t = 1..(Len(s) + 1) /\ DOMAIN s = 1..Len(s)
      /\ t[Len(s) + 1] = c
      /\ \A i \in 1..Len(s) : t[i] = s[i]
  BY AppendProperties, LenProperties
<1>. HIDE DEF t
<1>2. \A i \in DOMAIN t : i \in DOMAIN s \/ i = Len(s) + 1
  BY <1>1
<1>3. IsInjective(t)
  BY <1>1, <1>2 DEF IsInjective, ToSet
<1>4. \A d : d \in ToSet(t) <=> d \in ToSet(s) \/ d = c
  <2>1. DOMAIN s \subseteq DOMAIN t /\ Len(s) + 1 \in DOMAIN t
    BY <1>1
  <2>. QED
    BY <1>1, <1>2, <2>1 DEF ToSet
<1>. QED
  BY <1>1, <1>3, <1>4 DEF t

\* A prefix, and what is cut off.
LEMMA PrefixOf ==
  ASSUME NEW s \in Seq(Curls), IsInjective(s), NEW n \in 0..Len(s)
  PROVE  /\ SubSeq(s, 1, n) \in Seq(Curls) /\ Len(SubSeq(s, 1, n)) = n
         /\ IsInjective(SubSeq(s, 1, n))
         /\ ToSet(SubSeq(s, n + 1, Len(s))) = ToSet(s) \ ToSet(SubSeq(s, 1, n))
         /\ ToSet(SubSeq(s, 1, n)) \subseteq ToSet(s)
<1>. DEFINE t == SubSeq(s, 1, n)
            u == SubSeq(s, n + 1, Len(s))
<1>1. Len(s) \in Nat /\ DOMAIN s = 1..Len(s) /\ n \in Nat /\ n <= Len(s)
  BY LenProperties
<1>2. /\ t \in Seq(Curls) /\ Len(t) = n /\ DOMAIN t = 1..n
      /\ \A i \in 1..n : t[i] = s[i]
  BY <1>1
<1>3. /\ Len(u) = Len(s) - n /\ DOMAIN u = 1..(Len(s) - n)
      /\ \A i \in 1..(Len(s) - n) : u[i] = s[n + i]
  <2>1. n + 1 \in Int /\ Len(s) \in Int /\ \A i \in (n + 1)..Len(s) : s[i] \in Curls
    BY <1>1, ElementOfSeq
  <2>2. /\ u \in Seq(Curls)
        /\ Len(u) = IF n + 1 <= Len(s) THEN Len(s) - (n + 1) + 1 ELSE 0
        /\ \A i \in 1..(Len(s) - (n + 1) + 1) : u[i] = s[(n + 1) + i - 1]
    BY <2>1, SubSeqProperties
  <2>. HIDE DEF u
  <2>3. Len(s) - (n + 1) + 1 = Len(s) - n
    BY <1>1
  <2>4. Len(u) = Len(s) - n
    <3>1. CASE n + 1 <= Len(s)
      BY <3>1, <2>2, <2>3
    <3>2. CASE n = Len(s)
      BY <3>2, <1>1, <2>2
    <3>3. n + 1 <= Len(s) \/ n = Len(s)
      <4>. DEFINE l == Len(s)
      <4>1. n \in Nat /\ l \in Nat /\ n <= l
        BY <1>1
      <4>. HIDE DEF l
      <4>2. n + 1 <= l \/ n = l
        BY <4>1
      <4>. QED
        BY <4>2 DEF l
    <3>. QED
      BY <3>1, <3>2, <3>3
  <2>5. DOMAIN u = 1..(Len(s) - n)
    BY <2>2, <2>4, LenProperties
  <2>6. ASSUME NEW i \in 1..(Len(s) - n) PROVE u[i] = s[n + i]
    <3>1. u[i] = s[(n + 1) + i - 1]
      BY <2>2, <2>3
    <3>2. (n + 1) + i - 1 = n + i
      BY <1>1
    <3>. QED
      BY <3>1, <3>2
  <2>. QED
    BY <2>4, <2>5, <2>6
<1>. HIDE DEF t, u
<1>4. IsInjective(t)
  BY <1>1, <1>2 DEF IsInjective
<1>5. ToSet(t) = {s[i] : i \in 1..n}
  BY <1>2 DEF ToSet
<1>6. ToSet(u) = {s[i] : i \in (n + 1)..Len(s)}
  <2>1. ASSUME NEW i \in (n + 1)..Len(s)
        PROVE  i - n \in 1..(Len(s) - n) /\ u[i - n] = s[i]
    <3>. DEFINE l == Len(s)
    <3>1. n \in Nat /\ l \in Nat /\ i \in (n + 1)..l
      BY <1>1
    <3>. HIDE DEF l
    <3>2. i - n \in 1..(l - n) /\ n + (i - n) = i
      BY <3>1
    <3>3. u[i - n] = s[n + (i - n)]
      BY <1>3, <3>2 DEF l
    <3>. QED
      BY <3>2, <3>3 DEF l
  <2>2. \A i \in 1..(Len(s) - n) : n + i \in (n + 1)..Len(s)
    BY <1>1
  <2>. QED
    BY <1>3, <2>1, <2>2 DEF ToSet
<1>7. ToSet(u) = ToSet(s) \ ToSet(t)
  <2>1. \A i \in DOMAIN s : i \in 1..n \/ i \in (n + 1)..Len(s)
    BY <1>1
  <2>2. \A i \in 1..n, j \in (n + 1)..Len(s) : i \in DOMAIN s /\ j \in DOMAIN s /\ i # j
    BY <1>1
  <2>3. \A i \in 1..n, j \in (n + 1)..Len(s) : s[i] # s[j]
    BY <2>2 DEF IsInjective
  <2>4. \A d : d \in ToSet(u) => d \in ToSet(s) /\ d \notin ToSet(t)
    <3>1. TAKE d
    <3>2. HAVE d \in ToSet(u)
    <3>3. PICK j \in (n + 1)..Len(s) : d = s[j]
      BY <1>6, <3>2
    <3>4. j \in DOMAIN s
      BY <1>1, <3>3
    <3>. QED
      BY <1>5, <2>3, <3>3, <3>4 DEF ToSet
  <2>5. \A d : d \in ToSet(s) /\ d \notin ToSet(t) => d \in ToSet(u)
    BY <1>5, <1>6, <2>1 DEF ToSet
  <2>. QED
    BY <2>4, <2>5
<1>8. ToSet(t) \subseteq ToSet(s)
  <2>1. 1..n \subseteq DOMAIN s
    BY <1>1
  <2>. QED
    BY <1>5, <2>1 DEF ToSet
<1>. QED
  BY <1>2, <1>4, <1>7, <1>8 DEF t, u

\* The last value, and the rest without it.
LEMMA FrontAndLast ==
  ASSUME NEW s \in Seq(Curls), IsInjective(s), s # <<>>
  PROVE  /\ Front(s) \in Seq(Curls) /\ Len(Front(s)) = Len(s) - 1 /\ IsInjective(Front(s))
         /\ Last(s) \in ToSet(s) /\ ToSet(Front(s)) = ToSet(s) \ {Last(s)}
<1>1. Len(s) \in Nat /\ Len(s) # 0 /\ DOMAIN s = 1..Len(s)
  BY LenProperties, EmptySeq
<1>2. Len(s) - 1 \in 0..Len(s) /\ Len(s) \in 1..Len(s)
  BY <1>1
<1>3. /\ Front(s) \in Seq(Curls) /\ Len(Front(s)) = Len(s) - 1 /\ IsInjective(Front(s))
      /\ \A i \in 1..(Len(s) - 1) : Front(s)[i] = s[i]
  BY <1>1, <1>2, PrefixOf DEF Front
<1>4. DOMAIN Front(s) = 1..(Len(s) - 1)
  BY <1>1, <1>3
<1>5. ToSet(Front(s)) = {s[i] : i \in 1..(Len(s) - 1)}
  BY <1>3, <1>4 DEF ToSet
<1>6. /\ \A i \in DOMAIN s : i = Len(s) \/ i \in 1..(Len(s) - 1)
      /\ \A i \in 1..(Len(s) - 1) : i \in DOMAIN s /\ i # Len(s)
  <2>. DEFINE n == Len(s)
  <2>1. n \in Nat /\ DOMAIN s = 1..n
    BY <1>1
  <2>. HIDE DEF n
  <2>2. /\ \A i \in 1..n : i = n \/ i \in 1..(n - 1)
        /\ \A i \in 1..(n - 1) : i \in 1..n /\ i # n
    BY <2>1
  <2>3. /\ \A i \in DOMAIN s : i = n \/ i \in 1..(n - 1)
        /\ \A i \in 1..(n - 1) : i \in DOMAIN s /\ i # n
    BY <2>1, <2>2
  <2>. QED
    BY <2>3 DEF n
<1>7. ToSet(Front(s)) = ToSet(s) \ {Last(s)}
  <2>1. \A i \in 1..(Len(s) - 1) : s[i] # Last(s)
    BY <1>1, <1>2, <1>6 DEF IsInjective, Last
  <2>2. \A d : d \in ToSet(Front(s)) => d \in ToSet(s) /\ d # Last(s)
    BY <1>5, <1>6, <2>1 DEF ToSet
  <2>3. \A d : d \in ToSet(s) /\ d # Last(s) => d \in ToSet(Front(s))
    BY <1>5, <1>6 DEF ToSet, Last
  <2>. QED
    BY <2>2, <2>3
<1>8. Last(s) \in ToSet(s)
  BY <1>1, <1>2 DEF ToSet, Last
<1>. QED
  BY <1>3, <1>7, <1>8

\* The only order of one listener.
LEMMA OneListener ==
  ASSUME NEW k \in Calls
  PROVE  SetToSeq({k}) \in Seq(Calls) /\ Len(SetToSeq({k})) = 1
<1>1. Cardinality({k}) = 1
  BY FS_Singleton
<1>. DEFINE f == [i \in 1..1 |-> k]
<1>2. f \in [1..1 -> {k}] /\ IsInjective(f)
  BY DEF IsInjective
<1>3. SetToSeq({k}) \in [1..1 -> {k}]
  <2>1. \E g \in [1..1 -> {k}] : IsInjective(g)
    BY <1>2
  <2>. QED
    BY <1>1, <2>1 DEF SetToSeq
<1>4. SetToSeq({k}) \in [1..1 -> Calls]
  BY <1>3
<1>. QED
  BY <1>4, IsASeq, LenProperties

----------------------------------------------------------------------------
(* Lemmas on parts of steps *)

\* A call that threw stays so, and keeps its lost handle.
LEMMA LostStays ==
  ASSUME IInv, NEW c \in Curls, Lost(c),
         \/ \E S, how : Settle(S, how) /\ UNCHANGED handle
         \/ \E how : \E k \in Calls, d \in Curls :
              /\ call[k] = "idle"
              /\ call' = [call EXCEPT ![k] = how] /\ handle' = [handle EXCEPT ![k] = d]
         \/ UNCHANGED <<call, handle>>
  PROVE  Lost(c)'
<1>1. PICK j \in Calls : call[j] = "threw" /\ handle[j] = c
  BY DEF Lost
<1>2. call'[j] = "threw" /\ handle'[j] = c
  BY <1>1 DEF IInv, TypeOK, Settle
<1>. QED
  BY <1>2 DEF Lost

\* A Curl that a step does not concern.
LEMMA Unconcerned ==
  ASSUME IInv, NEW c \in Curls,
         isOpen'[c] = isOpen[c], request'[c] = request[c], listeners'[c] = listeners[c],
         c \in ToSet(pool') <=> c \in ToSet(pool),
         Emitting(c)' <=> Emitting(c),
         Lost(c) => Lost(c)'
  PROVE  Held(c)'
<1>1. Held(c)
  BY DEF IInv
<1>. QED
  BY <1>1 DEF Held

\* getFromPool() yields a Curl that nobody has and nobody listens to, and
\* leaves the others where they are.
LEMMA TakenIsFree ==
  ASSUME IInv, JavaScript, NEW c \in Curls, GetFromPool(c)
  PROVE  /\ Rest \in Seq(Curls) /\ Len(Rest) <= poolLimit /\ IsInjective(Rest)
         /\ c \notin ToSet(Rest) /\ request[c] = Nil /\ listeners[c] = {}
         /\ \A d \in Curls \ {c} : d \in ToSet(Rest) <=> d \in ToSet(pool)
         /\ \A d \in Curls : ~Emitting(d)
         /\ FromPool \/ c # event.curl
<1>1. \A d \in Curls : ~Emitting(d)
  BY DEF JavaScript, Emitting
<1>2. pool \in Seq(Curls) /\ IsInjective(pool) /\ Len(pool) <= poolLimit /\ poolLimit \in Nat
      /\ Len(pool) \in Nat
  BY LimitsAreNatural DEF IInv, TypeOK, PoolFits
<1>3. Held(c)
  BY DEF IInv
<1>4. CASE FromPool
  <2>1. c = Last(pool) /\ Rest = Front(pool) /\ pool # <<>>
    BY <1>4 DEF GetFromPool, Rest, FromPool
  <2>2. /\ Front(pool) \in Seq(Curls) /\ Len(Front(pool)) = Len(pool) - 1
        /\ IsInjective(Front(pool)) /\ c \in ToSet(pool)
        /\ ToSet(Front(pool)) = ToSet(pool) \ {c}
    BY <2>1, <1>2, FrontAndLast
  <2>3. request[c] = Nil /\ listeners[c] = {}
    BY <2>2, <1>1, <1>3 DEF Held
  <2>4. Len(Rest) <= poolLimit
    BY <2>1, <2>2, <1>2
  <2>. QED
    BY <2>1, <2>2, <2>3, <2>4, <1>1, <1>4
<1>5. CASE ~FromPool
  <2>1. ~isOpen[c] /\ c # event.curl /\ Rest = pool
    BY <1>5 DEF GetFromPool, Rest, Fresh
  <2>2. c \notin ToSet(pool) /\ request[c] = Nil /\ listeners[c] = {}
    BY <2>1, <1>1, <1>3 DEF Held
  <2>. QED
    BY <2>1, <2>2, <1>1, <1>2
<1>. QED
  BY <1>4, <1>5

\* What returnToPool() makes of the pool q and of the Curl c, which is not in it.
LEMMA Returned ==
  ASSUME IInv, NEW c \in Curls, NEW q \in Seq(Curls), IsInjective(q), Len(q) <= poolLimit,
         c \notin ToSet(q), ReturnToPool(c, q)
  PROVE  /\ pool' \in Seq(Curls) /\ IsInjective(pool') /\ Len(pool') <= poolLimit
         /\ isOpen' \in [Curls -> BOOLEAN] /\ listeners' \in [Curls -> SUBSET Calls]
         /\ listeners'[c] = {}
         /\ isOpen'[c] <=> c \in ToSet(pool')
         /\ \A d \in Curls \ {c} : /\ d \in ToSet(pool') <=> d \in ToSet(q)
                                   /\ isOpen'[d] = isOpen[d]
                                   /\ listeners'[d] = listeners[d]
<1>. DEFINE kept == poolLimit # 0 /\ Len(q) < poolLimit
<1>1. /\ pool' = IF kept THEN Append(q, c) ELSE q
      /\ isOpen' = [isOpen EXCEPT ![c] = kept]
      /\ listeners' = [listeners EXCEPT ![c] = {}]
  BY DEF ReturnToPool
<1>2. Len(q) \in Nat /\ poolLimit \in Nat
  BY LimitsAreNatural, LenProperties DEF IInv, TypeOK
<1>3. /\ isOpen' \in [Curls -> BOOLEAN] /\ listeners' \in [Curls -> SUBSET Calls]
      /\ listeners'[c] = {} /\ (isOpen'[c] <=> kept)
      /\ \A d \in Curls \ {c} : isOpen'[d] = isOpen[d] /\ listeners'[d] = listeners[d]
  BY <1>1 DEF IInv, TypeOK
<1>4. CASE kept
  <2>1. pool' = Append(q, c)
    BY <1>1, <1>4
  <2>2. /\ pool' \in Seq(Curls) /\ IsInjective(pool') /\ Len(pool') = Len(q) + 1
        /\ \A d : d \in ToSet(pool') <=> d \in ToSet(q) \/ d = c
    BY <2>1, AppendNew
  <2>3. Len(pool') <= poolLimit
    BY <2>2, <1>2, <1>4
  <2>. QED
    BY <2>2, <2>3, <1>3, <1>4
<1>5. CASE ~kept
  BY <1>1, <1>3, <1>5
<1>. QED
  BY <1>4, <1>5

----------------------------------------------------------------------------
(* The invariant is kept, one lemma for each action *)

\* Steps that move no Curl: control, settled promises, the first chunk.
LEMMA QuietStep ==
  ASSUME IInv,
         \/ EnterCallback \/ CallbackReturns \/ EventDone
         \/ \E c \in Curls : BodyStarts(c)
         \/ \E ok \in BOOLEAN : ParserReturns(ok)
         \/ UNCHANGED vars
  PROVE  IInv'
<1>. USE DEF curlVars, poolVars, callVars
<1>1. UNCHANGED <<isOpen, isRunning, streaming, listeners, request, pool, poolLimit,
                  wantsStream, handle>>
  BY DEF EnterCallback, CallbackReturns, EventDone, BodyStarts, ParserReturns, vars
<1>2. body' \in [Curls -> BOOLEAN]
  BY DEF EnterCallback, CallbackReturns, EventDone, BodyStarts, ParserReturns, vars, IInv,
         TypeOK
<1>3. (\E S : \E how \in {"resolved", "rejected"} : Settle(S, how)) \/ UNCHANGED call
  BY DEF EnterCallback, CallbackReturns, EventDone, BodyStarts, StreamEvent, ParserReturns,
         vars
<1>4. call' \in [Calls -> {"idle", "pending", "resolved", "rejected", "threw"}]
  BY <1>3 DEF Settle, IInv, TypeOK
<1>5. Dispatch' /\ (at' \in {"loop", "callback", "event", "parser"})
      /\ \A c \in Curls : Emitting(c)' <=> Emitting(c)
  <2>1. CASE EnterCallback \/ CallbackReturns \/ (\E c \in Curls : BodyStarts(c))
             \/ UNCHANGED vars
    BY <2>1 DEF EnterCallback, CallbackReturns, BodyStarts, vars, IInv, TypeOK, Dispatch,
                Emitting
  <2>2. CASE EventDone
    <3>1. at = "event" /\ event.to = <<>> /\ at' = "loop" /\ event' = NoEvent
      BY <2>2 DEF EventDone
    <3>2. /\ NoEvent \in [curl : Curls \cup {Nil}, end : BOOLEAN, to : Seq(Calls)]
          /\ NoEvent.to = <<>> /\ Len(NoEvent.to) = 0
      BY EmptySeq DEF NoEvent
    <3>. QED
      BY <3>1, <3>2 DEF Dispatch, Emitting
  <2>3. CASE \E ok \in BOOLEAN : ParserReturns(ok)
    <3>1. at = "parser" /\ at' = "event" /\ event' = [event EXCEPT !.to = Tail(@)]
      BY <2>3 DEF ParserReturns
    <3>2. /\ event \in [curl : Curls \cup {Nil}, end : BOOLEAN, to : Seq(Calls)]
          /\ Len(event.to) = 1 /\ event.to # <<>>
      BY <3>1, EmptySeq DEF IInv, Dispatch
    <3>3. Tail(event.to) = <<>> /\ Len(<<>>) = 0 /\ <<>> \in Seq(Calls)
      <4>1. Tail(event.to) \in Seq(Calls) /\ Len(Tail(event.to)) = 0
        BY <3>2, HeadTailProperties
      <4>. QED
        BY <4>1, EmptySeq
    <3>4. /\ event'.to = <<>>
          /\ event' \in [curl : Curls \cup {Nil}, end : BOOLEAN, to : Seq(Calls)]
      BY <3>1, <3>2, <3>3
    <3>. QED
      BY <3>1, <3>3, <3>4 DEF Dispatch, Emitting
  <2>. QED
    BY <2>1, <2>2, <2>3
<1>6. TypeOK'
  BY <1>1, <1>2, <1>4, <1>5 DEF IInv, TypeOK, Dispatch
<1>7. \A c \in Curls : Held(c)'
  <2>1. \A c \in Curls : Lost(c) => Lost(c)'
    BY <1>1, <1>3, LostStays
  <2>. QED
    BY <2>1, <1>1, <1>5, Unconcerned
<1>. QED
  BY <1>1, <1>5, <1>6, <1>7 DEF IInv, PoolFits

\* A lowered limit closes the Curls that no longer fit, and no others.
LEMMA LimitStep ==
  ASSUME NEW n \in Limits, IInv, SetObjectPoolLimit(n)
  PROVE  IInv'
<1>. USE DEF callVars
<1>. DEFINE kept == IF Len(pool) < n THEN Len(pool) ELSE n
            excess == ToSet(SubSeq(pool, kept + 1, Len(pool)))
<1>1. /\ pool' = SubSeq(pool, 1, kept) /\ poolLimit' = n
      /\ isOpen' = [c \in Curls |-> isOpen[c] /\ c \notin excess]
      /\ at \in {"loop", "callback", "parser"}
      /\ UNCHANGED <<isRunning, streaming, listeners, request, body, callVars, at, event>>
  BY DEF SetObjectPoolLimit, JavaScript
<1>2. /\ pool \in Seq(Curls) /\ IsInjective(pool) /\ Len(pool) \in Nat /\ n \in Nat
      /\ isOpen \in [Curls -> BOOLEAN]
  BY LimitsAreNatural DEF IInv, TypeOK, PoolFits
<1>3. kept \in 0..Len(pool) /\ kept <= n
  BY <1>2
<1>. HIDE DEF kept
<1>4. /\ pool' \in Seq(Curls) /\ Len(pool') = kept /\ IsInjective(pool')
      /\ excess = ToSet(pool) \ ToSet(pool') /\ ToSet(pool') \subseteq ToSet(pool)
  BY <1>1, <1>2, <1>3, PrefixOf
<1>. HIDE DEF excess
<1>5. isOpen' \in [Curls -> BOOLEAN]
  BY <1>1, <1>2
<1>6. TypeOK' /\ Dispatch' /\ PoolFits'
  BY <1>1, <1>3, <1>4, <1>5 DEF IInv, TypeOK, Dispatch, PoolFits
<1>7. ASSUME NEW c \in Curls PROVE Held(c)'
  <2>1. Held(c) /\ (Lost(c)' <=> Lost(c)) /\ (Emitting(c)' <=> Emitting(c))
    BY <1>1 DEF IInv, Lost, Emitting
  <2>2. isOpen'[c] <=> isOpen[c] /\ ~(c \in ToSet(pool) /\ c \notin ToSet(pool'))
    BY <1>1, <1>4
  <2>3. c \in ToSet(pool') => c \in ToSet(pool)
    BY <1>4
  <2>4. request'[c] = request[c] /\ listeners'[c] = listeners[c]
    BY <1>1
  <2>. QED
    BY <2>1, <2>2, <2>3, <2>4 DEF Held
<1>. QED
  BY <1>6, <1>7 DEF IInv

\* A call that throws before there is a promise takes its Curl with it.
LEMMA ThrowsStep ==
  ASSUME NEW k \in Calls, NEW c \in Curls, IInv, CurlyThrows(k, c)
  PROVE  IInv'
<1>1. /\ Rest \in Seq(Curls) /\ Len(Rest) <= poolLimit /\ IsInjective(Rest)
      /\ c \notin ToSet(Rest) /\ request[c] = Nil /\ listeners[c] = {}
      /\ \A d \in Curls \ {c} : d \in ToSet(Rest) <=> d \in ToSet(pool)
      /\ \A d \in Curls : ~Emitting(d)
  BY TakenIsFree DEF CurlyThrows
<1>2. /\ pool' = Rest /\ UNCHANGED <<listeners, request, body, poolLimit, wantsStream, at, event>>
      /\ call' = [call EXCEPT ![k] = "threw"] /\ handle' = [handle EXCEPT ![k] = c]
      /\ call[k] = "idle" /\ isOpen' = [isOpen EXCEPT ![c] = TRUE]
  BY DEF CurlyThrows
<1>3. TypeOK'
  <2>1. isRunning' \in [Curls -> BOOLEAN] /\ streaming' \in [Curls -> BOOLEAN]
    BY DEF CurlyThrows, Poisoned, Features, IInv, TypeOK
  <2>2. isOpen' \in [Curls -> BOOLEAN] /\ handle' \in [Calls -> Curls \cup {Nil}]
    BY <1>2 DEF IInv, TypeOK
  <2>3. call' \in [Calls -> {"idle", "pending", "resolved", "rejected", "threw"}]
    BY <1>2 DEF IInv, TypeOK
  <2>. QED
    BY <2>1, <2>2, <2>3, <1>1, <1>2 DEF IInv, TypeOK
<1>4. Dispatch' /\ PoolFits'
  BY <1>1, <1>2 DEF IInv, Dispatch, PoolFits
<1>5. \A d \in Curls : Emitting(d)' <=> Emitting(d)
  BY <1>2 DEF Emitting
<1>6. Held(c)'
  <2>1. Lost(c)'
    BY <1>2 DEF Lost, IInv, TypeOK
  <2>. QED
    BY <2>1, <1>1, <1>2, <1>5 DEF Held, IInv, TypeOK
<1>7. ASSUME NEW d \in Curls \ {c} PROVE Held(d)'
  <2>1. Lost(d) => Lost(d)'
    BY <1>2, LostStays
  <2>2. /\ isOpen'[d] = isOpen[d] /\ request'[d] = request[d] /\ listeners'[d] = listeners[d]
        /\ d \in ToSet(pool') <=> d \in ToSet(pool)
    BY <1>1, <1>2 DEF IInv, TypeOK
  <2>. QED
    BY <2>1, <2>2, <1>5, Unconcerned
<1>. QED
  BY <1>3, <1>4, <1>6, <1>7 DEF IInv

\* An accepted call has the Curl to itself.
LEMMA CurlyStep ==
  ASSUME NEW k \in Calls, NEW c \in Curls, NEW stream \in BOOLEAN, IInv, Curly(k, c, stream)
  PROVE  IInv'
<1>1. /\ Rest \in Seq(Curls) /\ Len(Rest) <= poolLimit /\ IsInjective(Rest)
      /\ c \notin ToSet(Rest) /\ request[c] = Nil /\ listeners[c] = {}
      /\ \A d \in Curls \ {c} : d \in ToSet(Rest) <=> d \in ToSet(pool)
      /\ \A d \in Curls : ~Emitting(d)
  BY TakenIsFree DEF Curly, JavaScript
<1>2. /\ pool' = Rest /\ UNCHANGED <<body, poolLimit, at, event>>
      /\ call' = [call EXCEPT ![k] = "pending"] /\ handle' = [handle EXCEPT ![k] = c]
      /\ call[k] = "idle" /\ isOpen' = [isOpen EXCEPT ![c] = TRUE]
      /\ listeners' = [listeners EXCEPT ![c] = @ \cup {k}]
      /\ request' = [request EXCEPT ![c] = k]
      /\ wantsStream' = [wantsStream EXCEPT ![k] = stream]
  BY DEF Curly
<1>3. TypeOK'
  <2>1. isRunning' \in [Curls -> BOOLEAN] /\ streaming' \in [Curls -> BOOLEAN]
    BY DEF Curly, Features, IInv, TypeOK
  <2>2. isOpen' \in [Curls -> BOOLEAN] /\ handle' \in [Calls -> Curls \cup {Nil}]
    BY <1>2 DEF IInv, TypeOK
  <2>3. call' \in [Calls -> {"idle", "pending", "resolved", "rejected", "threw"}]
    BY <1>2 DEF IInv, TypeOK
  <2>4. /\ listeners' \in [Curls -> SUBSET Calls] /\ request' \in [Curls -> Calls \cup {Nil}]
        /\ wantsStream' \in [Calls -> BOOLEAN]
    BY <1>2 DEF IInv, TypeOK
  <2>. QED
    BY <2>1, <2>2, <2>3, <2>4, <1>1, <1>2 DEF IInv, TypeOK
<1>4. Dispatch' /\ PoolFits'
  BY <1>1, <1>2 DEF IInv, Dispatch, PoolFits
<1>5. \A d \in Curls : Emitting(d)' <=> Emitting(d)
  BY <1>2 DEF Emitting
<1>6. Held(c)'
  <2>1. k # Nil
    BY NilIsNothing
  <2>2. isOpen'[c] /\ request'[c] = k /\ listeners'[c] = {k} /\ c \notin ToSet(pool')
    BY <1>1, <1>2 DEF IInv, TypeOK
  <2>. QED
    BY <2>1, <2>2, <1>1, <1>5 DEF Held
<1>7. ASSUME NEW d \in Curls \ {c} PROVE Held(d)'
  <2>1. Lost(d) => Lost(d)'
    BY <1>2, LostStays
  <2>2. /\ isOpen'[d] = isOpen[d] /\ request'[d] = request[d] /\ listeners'[d] = listeners[d]
        /\ d \in ToSet(pool') <=> d \in ToSet(pool)
    BY <1>1, <1>2 DEF IInv, TypeOK
  <2>. QED
    BY <2>1, <2>2, <1>5, Unconcerned
<1>. QED
  BY <1>3, <1>4, <1>6, <1>7 DEF IInv

\* A call that perform() refused gives its Curl back at once.
LEMMA RefusedStep ==
  ASSUME NEW k \in Calls, NEW c \in Curls, NEW stream \in BOOLEAN, IInv,
         CurlyRefused(k, c, stream)
  PROVE  IInv'
<1>1. /\ Rest \in Seq(Curls) /\ Len(Rest) <= poolLimit /\ IsInjective(Rest)
      /\ c \notin ToSet(Rest) /\ request[c] = Nil /\ listeners[c] = {}
      /\ \A d \in Curls \ {c} : d \in ToSet(Rest) <=> d \in ToSet(pool)
      /\ \A d \in Curls : ~Emitting(d)
  BY TakenIsFree DEF CurlyRefused, JavaScript
<1>2. /\ UNCHANGED <<request, body, poolLimit, at, event>>
      /\ call' = [call EXCEPT ![k] = "rejected"] /\ handle' = [handle EXCEPT ![k] = c]
      /\ call[k] = "idle" /\ ReturnToPool(c, Rest)
      /\ wantsStream' = [wantsStream EXCEPT ![k] = stream]
  BY DEF CurlyRefused
<1>3. /\ pool' \in Seq(Curls) /\ IsInjective(pool') /\ Len(pool') <= poolLimit
      /\ isOpen' \in [Curls -> BOOLEAN] /\ listeners' \in [Curls -> SUBSET Calls]
      /\ listeners'[c] = {}
      /\ isOpen'[c] <=> c \in ToSet(pool')
      /\ \A d \in Curls \ {c} : /\ d \in ToSet(pool') <=> d \in ToSet(Rest)
                                /\ isOpen'[d] = isOpen[d]
                                /\ listeners'[d] = listeners[d]
  BY <1>1, <1>2, Returned
<1>4. TypeOK'
  <2>1. isRunning' \in [Curls -> BOOLEAN] /\ streaming' \in [Curls -> BOOLEAN]
    BY DEF CurlyRefused, Features, IInv, TypeOK
  <2>2. handle' \in [Calls -> Curls \cup {Nil}] /\ wantsStream' \in [Calls -> BOOLEAN]
    BY <1>2 DEF IInv, TypeOK
  <2>3. call' \in [Calls -> {"idle", "pending", "resolved", "rejected", "threw"}]
    BY <1>2 DEF IInv, TypeOK
  <2>. QED
    BY <2>1, <2>2, <2>3, <1>2, <1>3 DEF IInv, TypeOK
<1>5. Dispatch' /\ PoolFits'
  BY <1>2, <1>3 DEF IInv, Dispatch, PoolFits
<1>6. \A d \in Curls : Emitting(d)' <=> Emitting(d)
  BY <1>2 DEF Emitting
<1>7. Held(c)'
  BY <1>1, <1>2, <1>3, <1>6 DEF Held
<1>8. ASSUME NEW d \in Curls \ {c} PROVE Held(d)'
  <2>1. Lost(d) => Lost(d)'
    BY <1>2, LostStays
  <2>2. /\ isOpen'[d] = isOpen[d] /\ request'[d] = request[d] /\ listeners'[d] = listeners[d]
        /\ d \in ToSet(pool') <=> d \in ToSet(pool)
    BY <1>1, <1>2, <1>3
  <2>. QED
    BY <2>1, <2>2, <1>6, Unconcerned
<1>. QED
  BY <1>4, <1>5, <1>7, <1>8 DEF IInv

\* A request ends: the Curl emits to the one call whose listeners it has.
LEMMA EndsStep ==
  ASSUME NEW c \in Curls, NEW end \in BOOLEAN, IInv, Ends(c, end)
  PROVE  IInv'
<1>. USE DEF poolVars
<1>1. PICK k \in Calls : k = request[c] /\ k # Nil /\ listeners[c] = {k} /\ isOpen[c]
                         /\ c \notin ToSet(pool)
  BY DEF Ends, IInv, TypeOK, Held
<1>2. /\ at = "loop" /\ at' = "event" /\ event = NoEvent
      /\ event' = [curl |-> c, end |-> end, to |-> SetToSeq({k})]
      /\ request' = [request EXCEPT ![c] = Nil]
      /\ UNCHANGED <<isOpen, streaming, listeners, poolVars, wantsStream, handle>>
  BY <1>1 DEF Ends, IInv, Dispatch
<1>3. SetToSeq({k}) \in Seq(Calls) /\ Len(SetToSeq({k})) = 1 /\ SetToSeq({k}) # <<>>
  BY OneListener, EmptySeq
<1>4. (\E S : Settle(S, "resolved")) \/ UNCHANGED call
  BY DEF Ends, StreamEvent
<1>5. Dispatch'
  BY <1>2, <1>3 DEF Dispatch
<1>6. TypeOK'
  <2>1. call' \in [Calls -> {"idle", "pending", "resolved", "rejected", "threw"}]
    BY <1>4 DEF Settle, IInv, TypeOK
  <2>2. isRunning' \in [Curls -> BOOLEAN] /\ body' \in [Curls -> BOOLEAN]
    BY DEF Ends, IInv, TypeOK
  <2>3. request' \in [Curls -> Calls \cup {Nil}]
    BY <1>2 DEF IInv, TypeOK
  <2>. QED
    BY <2>1, <2>2, <2>3, <1>2, <1>3, <1>5 DEF IInv, TypeOK
<1>7. PoolFits'
  BY <1>2 DEF IInv, PoolFits
<1>8. Held(c)'
  <2>1. Emitting(c)' /\ request'[c] = Nil
    BY <1>2, <1>3 DEF Emitting, IInv, TypeOK
  <2>. QED
    BY <2>1, <1>1, <1>2 DEF Held
<1>9. ASSUME NEW d \in Curls \ {c} PROVE Held(d)'
  <2>1. ~Emitting(d) /\ ~Emitting(d)' /\ request'[d] = request[d]
    BY <1>2 DEF Emitting, IInv, TypeOK
  <2>2. Lost(d) => Lost(d)'
    BY <1>2, <1>4, LostStays
  <2>. QED
    BY <2>1, <2>2, <1>2, Unconcerned
<1>. QED
  BY <1>5, <1>6, <1>7, <1>8, <1>9 DEF IInv

\* The listener gives the Curl back before it does anything else.
LEMMA ListenerStep ==
  ASSUME IInv, OnError \/ OnEnd
  PROVE  IInv'
<1>. USE DEF callVars
<1>1. PICK c \in Curls : c = event.curl
  BY DEF IInv, Dispatch, OnError, OnEnd
<1>2. /\ at = "event" /\ event.to # <<>> /\ ReturnToPool(c, pool)
      /\ UNCHANGED <<isRunning, streaming, request, body, poolLimit, wantsStream, handle>>
      /\ (\E S : Settle(S, "rejected")) \/ UNCHANGED call
      /\ \/ at' = at /\ event' = [event EXCEPT !.to = Tail(@)]
         \/ at' = "parser" /\ UNCHANGED event
  BY <1>1 DEF OnError, OnEnd
<1>3. Emitting(c) /\ Held(c) /\ \A d \in Curls \ {c} : ~Emitting(d)
  BY <1>1, <1>2 DEF Emitting, IInv
<1>4. c \notin ToSet(pool) /\ request[c] = Nil
  BY <1>3 DEF Held
<1>5. /\ pool' \in Seq(Curls) /\ IsInjective(pool') /\ Len(pool') <= poolLimit
      /\ isOpen' \in [Curls -> BOOLEAN] /\ listeners' \in [Curls -> SUBSET Calls]
      /\ listeners'[c] = {}
      /\ isOpen'[c] <=> c \in ToSet(pool')
      /\ \A d \in Curls \ {c} : /\ d \in ToSet(pool') <=> d \in ToSet(pool)
                                /\ isOpen'[d] = isOpen[d]
                                /\ listeners'[d] = listeners[d]
  <2>1. pool \in Seq(Curls) /\ IsInjective(pool) /\ Len(pool) <= poolLimit
    BY DEF IInv, TypeOK, PoolFits
  <2>. QED
    BY <2>1, <1>2, <1>4, Returned
<1>6. Dispatch' /\ \A d \in Curls : ~Emitting(d)'
  <2>1. /\ event \in [curl : Curls \cup {Nil}, end : BOOLEAN, to : Seq(Calls)]
        /\ Len(event.to) = 1
    BY <1>2, EmptySeq DEF IInv, Dispatch
  <2>2. CASE at' = at /\ event' = [event EXCEPT !.to = Tail(@)]
    <3>1. Tail(event.to) = <<>> /\ Len(<<>>) = 0 /\ <<>> \in Seq(Calls)
      <4>1. Tail(event.to) \in Seq(Calls) /\ Len(Tail(event.to)) = 0
        BY <1>2, <2>1, HeadTailProperties
      <4>. QED
        BY <4>1, EmptySeq
    <3>2. event' = [event EXCEPT !.to = <<>>]
      BY <2>2, <3>1
    <3>3. /\ event'.to = <<>>
          /\ event' \in [curl : Curls \cup {Nil}, end : BOOLEAN, to : Seq(Calls)]
      BY <2>1, <3>1, <3>2
    <3>. QED
      BY <1>2, <2>2, <3>1, <3>3 DEF Dispatch, Emitting
  <2>3. CASE at' = "parser" /\ UNCHANGED event
    BY <2>3, <1>2 DEF IInv, Dispatch, Emitting
  <2>. QED
    BY <2>2, <2>3, <1>2
<1>7. TypeOK'
  <2>1. call' \in [Calls -> {"idle", "pending", "resolved", "rejected", "threw"}]
    BY <1>2 DEF Settle, IInv, TypeOK
  <2>2. at' \in {"loop", "callback", "event", "parser"}
    BY <1>2
  <2>. QED
    BY <2>1, <2>2, <1>2, <1>5, <1>6 DEF IInv, TypeOK, Dispatch
<1>8. PoolFits'
  BY <1>2, <1>5 DEF PoolFits
<1>9. Held(c)'
  BY <1>2, <1>4, <1>5, <1>6 DEF Held
<1>10. ASSUME NEW d \in Curls \ {c} PROVE Held(d)'
  <2>1. Lost(d) => Lost(d)'
    BY <1>2, LostStays
  <2>. QED
    BY <2>1, <1>2, <1>3, <1>5, <1>6, Unconcerned
<1>. QED
  BY <1>6, <1>7, <1>8, <1>9, <1>10 DEF IInv

----------------------------------------------------------------------------
(* The invariant of every behavior *)

\* The initial states satisfy the invariant.
LEMMA InitIInv == Init => IInv
<1>. SUFFICES ASSUME Init PROVE IInv
  OBVIOUS
<1>1. /\ <<>> \in Seq(Curls) /\ <<>> \in Seq(Calls) /\ Len(<<>>) = 0
      /\ IsInjective(<<>>) /\ ToSet(<<>>) = {}
  BY EmptySeq DEF IsInjective, ToSet
<1>2. TypeOK /\ Dispatch
  BY <1>1 DEF Init, TypeOK, Dispatch, NoEvent
<1>3. PoolFits
  BY <1>1 DEF Init, PoolFits
<1>4. \A c \in Curls : Held(c)
  BY <1>1 DEF Init, Held, Emitting
<1>. QED
  BY <1>2, <1>3, <1>4 DEF IInv

\* Every step keeps the invariant; one step of the proof per action.
LEMMA NextIInv == IInv /\ [Next]_vars => IInv'
<1>. SUFFICES ASSUME IInv, [Next]_vars PROVE IInv'
  OBVIOUS
<1>1. CASE \E n \in Limits : SetObjectPoolLimit(n)
  BY <1>1, LimitStep
<1>2. CASE \E k \in Calls : Call(k)
  BY <1>2, ThrowsStep, CurlyStep, RefusedStep DEF Call
<1>3. CASE \E c \in Curls : RequestStep(c)
  BY <1>3, QuietStep, EndsStep DEF RequestStep
<1>4. CASE OnError \/ OnEnd
  BY <1>4, ListenerStep
<1>5. CASE EnterCallback \/ CallbackReturns \/ (\E ok \in BOOLEAN : ParserReturns(ok))
           \/ EventDone \/ UNCHANGED vars
  BY <1>5, QuietStep
<1>. QED
  BY <1>1, <1>2, <1>3, <1>4, <1>5 DEF Next

\* The invariant holds in every reachable state.
LEMMA Invariance == Spec => []IInv
BY InitIInv, NextIInv, PTL DEF Spec

\* A handle in the pool is there once, open and idle, without the listeners of
\* its last call, and the pool keeps to its limit, whenever the limit is set
\* and whatever a parser calls while the handle's own event is dispatched
\* (curly.ts:347-362).
THEOREM PoolIsSound == Spec => []PoolSound
<1>1. ASSUME IInv, NEW c \in ToSet(pool)
      PROVE  isOpen[c] /\ request[c] = Nil /\ (at = "loop" => listeners[c] = {})
  <2>1. c \in Curls
    BY <1>1 DEF ToSet, IInv, TypeOK
  <2>2. Held(c)
    BY <1>1, <2>1 DEF IInv
  <2>. QED
    BY <1>1, <2>2 DEF Held, Emitting
<1>2. IInv => PoolSound
  BY <1>1 DEF IInv, PoolFits, PoolSound
<1>. QED
  BY <1>2, Invariance, PTL

\* An open handle is in the pool, in a request, or in the event being
\* dispatched: none leaks, but the one of a call that threw.
THEOREM NoHandleLeaks == Spec => []HandlesAccounted
<1>1. IInv => HandlesAccounted
  BY DEF IInv, Held, Emitting, Lost, HandlesAccounted
<1>. QED
  BY <1>1, Invariance, PTL

----------------------------------------------------------------------------
(* Induction and recursion over 0 .. n, with sets and functions in place of *)
(* predicates and operators.                                               *)

LEMMA Induct ==
  ASSUME NEW n \in Nat, NEW P, 0 \in P, \A i \in 1 .. n : i - 1 \in P => i \in P
  PROVE  \A i \in 0 .. n : i \in P
PROOF
  <1> DEFINE T == (0 .. n) \ P
  <1> SUFFICES ASSUME T # {} PROVE FALSE
    OBVIOUS
  <1>1. PICK x \in T : \A y \in T : ~(<<y, x>> \in OpToRel(<, Nat))
    <2>1. IsWellFoundedOn(OpToRel(<, Nat), Nat)
      BY NatLessThanWellFounded
    <2>2. T \subseteq Nat
      OBVIOUS
    <2> QED
      BY <2>1, <2>2, WFMin
  <1>2. x \in 1 .. n /\ x - 1 \in Nat
    OBVIOUS
  <1>3. \A y \in T : ~(y < x)
    <2>1. T \subseteq Nat
      OBVIOUS
    <2> HIDE DEF T
    <2> QED
      BY <1>1, <2>1, Zenon DEF OpToRel
  <1>4. x - 1 \notin T
    BY <1>2, <1>3
  <1> QED
    BY <1>2, <1>4

LEMMA MaxOfInterval ==
  ASSUME NEW n \in Nat, NEW s \in SUBSET (1 .. n), s # {}
  PROVE  Max(s) \in s /\ \A y \in s : Max(s) >= y
PROOF
  <1> DEFINE P == {m \in 0 .. n : \A t \in SUBSET (1 .. m) :
                     t # {} => \E x \in t : \A y \in t : x >= y}
  <1>1. 0 \in P
    <2>1. \A t \in SUBSET (1 .. 0) : t = {}
      OBVIOUS
    <2>2. 0 \in 0 .. n
      OBVIOUS
    <2> QED
      BY <2>1, <2>2, Zenon
  <1>2. ASSUME NEW m \in 1 .. n, m - 1 \in P
        PROVE  m \in P
    <2> SUFFICES ASSUME NEW t \in SUBSET (1 .. m), t # {}
                 PROVE  \E x \in t : \A y \in t : x >= y
      OBVIOUS
    <2>1. CASE m \in t
      BY <2>1
    <2>2. CASE m \notin t
      <3>1. t \in SUBSET (1 .. m - 1)
        BY <2>2
      <3> QED
        BY <1>2, <3>1
    <2> QED
      BY <2>1, <2>2
  <1>3. n \in P
    <2> HIDE DEF P
    <2> QED
      BY <1>1, <1>2, Induct
  <1>4. \E x \in s : \A y \in s : x >= y
    BY <1>3
  <1> QED
    BY <1>4 DEF Max

LEMMA MaxOfPrefix ==
  ASSUME NEW n \in Nat, NEW k \in 1 .. n
  PROVE  /\ (1 .. k) \in SUBSET (1 .. n) /\ 1 .. k # {}
         /\ Max(1 .. k) = k /\ (1 .. k) \ {k} = 1 .. k - 1
PROOF
  <1>1. (1 .. k) \in SUBSET (1 .. n) /\ k \in 1 .. k
    OBVIOUS
  <1>2. Max(1 .. k) \in 1 .. k /\ \A y \in 1 .. k : Max(1 .. k) >= y
    BY <1>1, MaxOfInterval
  <1>3. Max(1 .. k) = k
    BY <1>1, <1>2
  <1> QED
    BY <1>1, <1>3

\* f folds the places 1 .. n: step[i] is what the element at place i of a sequence
\* does to an accumulator of the set A.
IsFold(f, n, A, base, step) ==
  /\ f \in [SUBSET (1 .. n) -> A]
  /\ \A s \in SUBSET (1 .. n) :
       f[s] = IF s = {} THEN base ELSE step[Max(s)][f[s \ {Max(s)}]]

LEMMA FoldExists ==
  ASSUME NEW n \in Nat, NEW A, NEW base \in A, NEW step \in [1 .. n -> [A -> A]]
  PROVE  \E f : IsFold(f, n, A, base, step)
PROOF
  <1> DEFINE Q(m, f) == \A s \in SUBSET (1 .. m) :
                          f[s] = IF s = {} THEN base ELSE step[Max(s)][f[s \ {Max(s)}]]
             P == {m \in 0 .. n : \E f \in [SUBSET (1 .. m) -> A] : Q(m, f)}
  <1>1. 0 \in P
    <2> DEFINE f == [s \in SUBSET (1 .. 0) |-> base]
    <2>1. f \in [SUBSET (1 .. 0) -> A]
      OBVIOUS
    <2>2. Q(0, f)
      OBVIOUS
    <2>3. 0 \in 0 .. n
      OBVIOUS
    <2> HIDE DEF f, Q
    <2> QED
      BY <2>1, <2>2, <2>3, Zenon
  <1>2. ASSUME NEW m \in 1 .. n, m - 1 \in P
        PROVE  m \in P
    <2>1. PICK f \in [SUBSET (1 .. m - 1) -> A] : Q(m - 1, f)
      BY <1>2
    <2> DEFINE g == [s \in SUBSET (1 .. m) |->
                       IF m \in s THEN step[m][f[s \ {m}]] ELSE f[s]]
    <2>2. g \in [SUBSET (1 .. m) -> A]
      <3> SUFFICES ASSUME NEW s \in SUBSET (1 .. m)
                   PROVE  (IF m \in s THEN step[m][f[s \ {m}]] ELSE f[s]) \in A
        OBVIOUS
      <3>1. s \ {m} \in SUBSET (1 .. m - 1)
        OBVIOUS
      <3>2. f[s \ {m}] \in A /\ step[m] \in [A -> A]
        BY <2>1, <3>1
      <3> QED
        BY <3>1, <3>2
    <2>3. Q(m, g)
      <3> SUFFICES ASSUME NEW s \in SUBSET (1 .. m)
                   PROVE  g[s] = IF s = {} THEN base ELSE step[Max(s)][g[s \ {Max(s)}]]
        OBVIOUS
      <3>1. CASE m \in s
        <4>1. Max(s) = m
          <5>1. s # {} /\ m \in Nat /\ \A y \in s : y \in Int /\ y =< m
            BY <3>1
          <5>2. Max(s) \in s /\ \A y \in s : Max(s) >= y
            BY <5>1, MaxOfInterval
          <5>3. Max(s) \in Int /\ m \in Int /\ Max(s) =< m /\ Max(s) >= m
            BY <3>1, <5>1, <5>2
          <5> QED
            BY <5>3
        <4>2. s \ {m} \in SUBSET (1 .. m - 1) /\ s \ {m} \in SUBSET (1 .. m)
          OBVIOUS
        <4>3. g[s \ {m}] = f[s \ {m}]
          BY <4>2
        <4> QED
          BY <3>1, <4>1, <4>3
      <3>2. CASE m \notin s
        <4>1. s \in SUBSET (1 .. m - 1) /\ g[s] = f[s]
          BY <3>2
        <4>2. s \ {Max(s)} \in SUBSET (1 .. m) /\ m \notin s \ {Max(s)}
          BY <3>2
        <4>3. g[s \ {Max(s)}] = f[s \ {Max(s)}]
          BY <4>2
        <4> QED
          BY <2>1, <4>1, <4>3
      <3> QED
        BY <3>1, <3>2
    <2> HIDE DEF g, Q
    <2> QED
      BY <2>2, <2>3
  <1>3. n \in P
    <2> HIDE DEF P
    <2>1. \A i \in 0 .. n : i \in P
      BY <1>1, <1>2, Induct
    <2> QED
      BY <2>1
  <1> QED
    BY <1>3 DEF IsFold

\* g goes as such a fold does as long as its accumulators are in A.
FollowsFold(g, n, A, base, step) ==
  /\ g[{}] = base
  /\ \A s \in SUBSET (1 .. n) : s # {} /\ g[s \ {Max(s)}] \in A =>
       g[s] = step[Max(s)][g[s \ {Max(s)}]]

\* R is the run of a fold: the accumulators after each of the n elements.
RunOf(R, n, A, base, step) ==
  /\ R \in [0 .. n -> A]
  /\ R[0] = base
  /\ \A i \in 1 .. n : R[i] = step[i][R[i - 1]]

\* The prefixes of a fold are its run.
LEMMA FoldRuns ==
  ASSUME NEW n \in Nat, NEW A, NEW base \in A, NEW step \in [1 .. n -> [A -> A]], NEW g,
         FollowsFold(g, n, A, base, step)
  PROVE  RunOf([k \in 0 .. n |-> g[1 .. k]], n, A, base, step)
PROOF
  <1> DEFINE P == {k \in 0 .. n : g[1 .. k] \in A}
  <1>1. 1 .. 0 = {} /\ g[1 .. 0] = base
    BY DEF FollowsFold
  <1>2. ASSUME NEW k \in 1 .. n, k - 1 \in P
        PROVE  k \in P /\ g[1 .. k] = step[k][g[1 .. k - 1]]
    <2>1. g[1 .. k - 1] \in A
      BY <1>2
    <2>2. g[1 .. k] = step[k][g[1 .. k - 1]]
      <3> HIDE DEF P
      <3>1. /\ (1 .. k) \in SUBSET (1 .. n) /\ 1 .. k # {}
            /\ Max(1 .. k) = k /\ (1 .. k) \ {k} = 1 .. k - 1
        BY MaxOfPrefix
      <3> QED
        BY <2>1, <3>1 DEF FollowsFold
    <2>3. step[k] \in [A -> A]
      OBVIOUS
    <2> QED
      BY <2>1, <2>2, <2>3
  <1>3. \A k \in 0 .. n : k \in P
    <2>1. 0 \in P
      BY <1>1
    <2> HIDE DEF P
    <2> QED
      BY <2>1, <1>2, Induct
  <1> QED
    BY <1>1, <1>2, <1>3 DEF RunOf

\* A run exists for any steps.
LEMMA RunExists ==
  ASSUME NEW n \in Nat, NEW A, NEW base \in A, NEW step \in [1 .. n -> [A -> A]]
  PROVE  \E R : RunOf(R, n, A, base, step)
PROOF
  <1>1. PICK f : IsFold(f, n, A, base, step)
    BY FoldExists
  <1>2. FollowsFold(f, n, A, base, step)
    BY <1>1 DEF IsFold, FollowsFold
  <1> QED
    BY <1>2, FoldRuns

\* FlattenSeq appends one sequence after the other.
LEMMA FlattenRuns ==
  ASSUME NEW S, NEW seqs \in Seq(Seq(S))
  PROVE  \E R \in [0 .. Len(seqs) -> Seq(S)] :
           /\ R[0] = <<>>
           /\ \A i \in 1 .. Len(seqs) : R[i] = R[i - 1] \o seqs[i]
           /\ FlattenSeq(seqs) = R[Len(seqs)]
PROOF
  <1> DEFINE n == Len(seqs)
             step == [i \in 1 .. n |-> [acc \in Seq(S) |-> acc \o seqs[i]]]
             Flat(g) == [i \in 1 .. n |-> IF i = 1 THEN seqs[i] ELSE g[i - 1] \o seqs[i]]
             G == CHOOSE g : g = Flat(g)
  <1>1. /\ n \in Nat /\ <<>> \in Seq(S) /\ \A i \in 1 .. n : seqs[i] \in Seq(S)
        /\ n = 0 => seqs = <<>>
    OBVIOUS
  <1>2. /\ step \in [1 .. n -> [Seq(S) -> Seq(S)]]
        /\ \A i \in 1 .. n : \A acc \in Seq(S) : step[i][acc] = acc \o seqs[i]
    <2> HIDE DEF n
    <2> QED
      BY <1>1
  <1>3. PICK R : RunOf(R, n, Seq(S), <<>>, step)
    <2> HIDE DEF n, step
    <2> QED
      BY <1>1, <1>2, RunExists
  <1> HIDE DEF step
  <1>4. /\ R \in [0 .. n -> Seq(S)] /\ R[0] = <<>>
        /\ \A i \in 1 .. n : R[i] = R[i - 1] \o seqs[i]
    <2> HIDE DEF n
    <2>1. \A i \in 1 .. n : i - 1 \in 0 .. n
      BY <1>1
    <2> QED
      BY <1>2, <1>3, <2>1 DEF RunOf
  <1>5. FlattenSeq(seqs) = IF n = 0 THEN seqs ELSE G[n]
    BY DEF FlattenSeq
  <1> HIDE DEF n
  <1>6. ASSUME NEW i \in 1 .. n
        PROVE  R[i] = IF i = 1 THEN seqs[i] ELSE R[i - 1] \o seqs[i]
    <2>1. \A t \in Seq(S) : <<>> \o t = t
      OBVIOUS
    <2>2. ASSUME i = 1 PROVE R[i] = seqs[i]
      <3>1. i - 1 = 0
        BY <2>2
      <3>2. R[i] = R[i - 1] \o seqs[i] /\ seqs[i] \in Seq(S)
        BY <1>1, <1>4, Zenon
      <3> QED
        BY <1>4, <2>1, <3>1, <3>2, Zenon
    <2> QED
      BY <1>4, <2>2
  <1>7. G = Flat(G)
    <2> DEFINE f == [i \in 1 .. n |-> R[i]]
    <2>1. ASSUME NEW i \in 1 .. n, i # 1
          PROVE  f[i - 1] = R[i - 1]
      <3>1. i - 1 \in 1 .. n
        BY <1>1, <2>1
      <3> QED
        BY <3>1
    <2>2. f = Flat(f)
      BY <1>6, <2>1
    <2> HIDE DEF Flat, f
    <2> QED
      BY <2>2
  <1>8. \A i \in 1 .. n : G[i] = R[i]
    <2> DEFINE P == {i \in 0 .. n : i = 0 \/ G[i] = R[i]}
    <2>1. 0 \in P
      BY <1>1
    <2>2. ASSUME NEW i \in 1 .. n, i - 1 \in P
          PROVE  i \in P
      <3>1. G[i] = IF i = 1 THEN seqs[i] ELSE G[i - 1] \o seqs[i]
        BY <1>7
      <3> HIDE DEF G
      <3> QED
        BY <1>1, <1>6, <2>2, <3>1
    <2>3. \A i \in 0 .. n : i \in P
      <3> HIDE DEF P
      <3> QED
        BY <2>1, <2>2, <1>1, Induct
    <2>4. \A i \in 1 .. n : i \in 0 .. n /\ i # 0
      BY <1>1
    <2> HIDE DEF G
    <2> QED
      BY <2>3, <2>4
  <1>9. FlattenSeq(seqs) = R[n]
    <2> HIDE DEF G
    <2> QED
      BY <1>1, <1>4, <1>5, <1>8
  <1> QED
    BY <1>4, <1>9 DEF n

----------------------------------------------------------------------------
(* The decoder *)

Decoders == [text : Seq(Bytes \cup {"two", "?"}), kept : BOOLEAN]

LEMMA Utf8StepType ==
  ASSUME NEW acc \in Decoders, NEW byte \in Bytes
  PROVE  Utf8Step(acc, byte) \in Decoders
BY DEF Utf8Step, Decoders, Bytes

\* The bytes go through the decoder one after the other.
LEMMA WriteRuns ==
  ASSUME NEW kept \in BOOLEAN, NEW bytes \in Seq(Bytes)
  PROVE  \E R \in [0 .. Len(bytes) -> Decoders] :
           /\ R[0] = [text |-> <<>>, kept |-> kept]
           /\ \A i \in 1 .. Len(bytes) : R[i] = Utf8Step(R[i - 1], bytes[i])
           /\ Write(kept, bytes) = R[Len(bytes)]
PROOF
  <1> DEFINE n == Len(bytes)
             base == [text |-> <<>>, kept |-> kept]
             step == [i \in 1 .. n |-> [acc \in Decoders |-> Utf8Step(acc, bytes[i])]]
             Fold(g) == [s \in SUBSET DOMAIN bytes |->
                           IF s = {} THEN base ELSE Utf8Step(g[s \ {Max(s)}], bytes[Max(s)])]
             G == CHOOSE g : g = Fold(g)
             R == [k \in 0 .. n |-> G[1 .. k]]
  <1>1. /\ n \in Nat /\ DOMAIN bytes = 1 .. n /\ base \in Decoders
        /\ \A i \in 1 .. n : \A acc \in Decoders : Utf8Step(acc, bytes[i]) \in Decoders
    BY Utf8StepType DEF Decoders
  <1>2. /\ step \in [1 .. n -> [Decoders -> Decoders]]
        /\ \A i \in 1 .. n : \A acc \in Decoders : step[i][acc] = Utf8Step(acc, bytes[i])
    <2> HIDE DEF n, base
    <2> QED
      BY <1>1
  <1>3. Write(kept, bytes) = R[n]
    BY <1>1 DEF Write, FoldLeft, MapThenFoldSet
  <1>4. \E f : f = Fold(f)
    <2> HIDE DEF n, base, step
    <2>1. PICK f : IsFold(f, n, Decoders, base, step)
      <3> HIDE DEF Fold, G, R
      <3> QED
        BY <1>1, <1>2, FoldExists, Zenon
    <2>2. ASSUME NEW s \in SUBSET (1 .. n), s # {}
          PROVE  step[Max(s)][f[s \ {Max(s)}]] = Utf8Step(f[s \ {Max(s)}], bytes[Max(s)])
      <3>1. Max(s) \in 1 .. n /\ s \ {Max(s)} \in SUBSET (1 .. n)
        BY <1>1, <2>2, MaxOfInterval
      <3>2. f[s \ {Max(s)}] \in Decoders
        BY <3>1, <2>1 DEF IsFold
      <3> QED
        BY <1>2, <3>1, <3>2
    <2>3. f = Fold(f)
      BY <1>1, <2>1, <2>2 DEF IsFold
    <2> QED
      BY <2>3
  <1>5. G = Fold(G)
    <2> HIDE DEF Fold
    <2> QED
      BY <1>4
  <1>6. RunOf(R, n, Decoders, base, step)
    <2> HIDE DEF n, base, step
    <2>1. G[{}] = base
      BY <1>5
    <2>2. ASSUME NEW s \in SUBSET (1 .. n), s # {}, G[s \ {Max(s)}] \in Decoders
          PROVE  G[s] = step[Max(s)][G[s \ {Max(s)}]]
      <3>1. Max(s) \in 1 .. n
        BY <1>1, <2>2, MaxOfInterval
      <3>2. G[s] = Utf8Step(G[s \ {Max(s)}], bytes[Max(s)])
        BY <1>1, <1>5, <2>2
      <3> HIDE DEF G
      <3> QED
        BY <1>2, <2>2, <3>1, <3>2
    <2>3. FollowsFold(G, n, Decoders, base, step)
      BY <2>1, <2>2 DEF FollowsFold
    <2> HIDE DEF Fold, G
    <2> QED
      BY <1>1, <1>2, <2>3, FoldRuns, Zenon
  <1>7. /\ R \in [0 .. n -> Decoders] /\ R[0] = base
        /\ \A i \in 1 .. n : R[i] = Utf8Step(R[i - 1], bytes[i])
    <2> HIDE DEF n, base, step, Fold, G, R
    <2>1. \A i \in 1 .. n : i - 1 \in 0 .. n
      BY <1>1
    <2> QED
      BY <1>1, <1>2, <1>6, <2>1 DEF RunOf
  <1> HIDE DEF Fold, G, R, step
  <1> QED
    BY <1>3, <1>7

\* Decoding is total: whatever it starts with and whatever bytes come, the
\* decoder ends with a text and with or without a byte that it keeps.
LEMMA WriteType ==
  ASSUME NEW kept \in BOOLEAN, NEW bytes \in Seq(Bytes)
  PROVE  Write(kept, bytes) \in Decoders
PROOF
  <1>1. PICK R \in [0 .. Len(bytes) -> Decoders] : Write(kept, bytes) = R[Len(bytes)]
    BY WriteRuns
  <1>2. Len(bytes) \in 0 .. Len(bytes)
    OBVIOUS
  <1> QED
    BY <1>1, <1>2

----------------------------------------------------------------------------
(* mergeChunks *)

Chunks == Seq(Seq(Bytes))

LEMMA ChunksType ==
  ASSUME NEW chunks \in Chunks
  PROVE  /\ Len(chunks) \in Nat /\ DOMAIN chunks = 1 .. Len(chunks)
         /\ \A k \in 1 .. Len(chunks) : chunks[k] \in Seq(Bytes) /\ Len(chunks[k]) \in Nat
PROOF
  <1>1. /\ chunks \in Seq(Seq(Bytes))
        /\ \A k \in 1 .. Len(chunks) : chunks[k] \in Seq(Bytes)
    BY DEF Chunks
  <1>2. \A chunk \in Seq(Bytes) : Len(chunk) \in Nat
    OBVIOUS
  <1> QED
    BY <1>1, <1>2

\* The length is added up chunk by chunk.
LEMMA ChunksLengthRuns ==
  ASSUME NEW chunks \in Chunks
  PROVE  \E R \in [0 .. Len(chunks) -> Nat] :
           /\ R[0] = 0
           /\ \A i \in 1 .. Len(chunks) : R[i] = R[i - 1] + Len(chunks[i])
           /\ ChunksLength(chunks) = R[Len(chunks)]
PROOF
  <1> DEFINE n == Len(chunks)
             base == 0
             step == [i \in 1 .. n |-> [acc \in Nat |-> acc + Len(chunks[i])]]
             Fold(g) == [s \in SUBSET DOMAIN chunks |->
                           IF s = {} THEN base ELSE g[s \ {Max(s)}] + Len(chunks[Max(s)])]
             G == CHOOSE g : g = Fold(g)
             R == [k \in 0 .. n |-> G[1 .. k]]
  <1>1. /\ n \in Nat /\ DOMAIN chunks = 1 .. n /\ base \in Nat
        /\ \A i \in 1 .. n : \A acc \in Nat : acc + Len(chunks[i]) \in Nat
    BY ChunksType
  <1>2. /\ step \in [1 .. n -> [Nat -> Nat]]
        /\ \A i \in 1 .. n : \A acc \in Nat : step[i][acc] = acc + Len(chunks[i])
    <2> HIDE DEF n, base
    <2> QED
      BY <1>1
  <1>3. ChunksLength(chunks) = R[n]
    BY <1>1 DEF ChunksLength, FoldLeft, MapThenFoldSet
  <1>4. \E f : f = Fold(f)
    <2> HIDE DEF n, base, step
    <2>1. PICK f : IsFold(f, n, Nat, base, step)
      <3> HIDE DEF Fold, G, R
      <3> QED
        BY <1>1, <1>2, FoldExists, Zenon
    <2>2. ASSUME NEW s \in SUBSET (1 .. n), s # {}
          PROVE  step[Max(s)][f[s \ {Max(s)}]] = f[s \ {Max(s)}] + Len(chunks[Max(s)])
      <3>1. Max(s) \in 1 .. n /\ s \ {Max(s)} \in SUBSET (1 .. n)
        BY <1>1, <2>2, MaxOfInterval
      <3>2. f[s \ {Max(s)}] \in Nat
        BY <3>1, <2>1 DEF IsFold
      <3> QED
        BY <1>2, <3>1, <3>2
    <2>3. f = Fold(f)
      BY <1>1, <2>1, <2>2 DEF IsFold
    <2> QED
      BY <2>3
  <1>5. G = Fold(G)
    <2> HIDE DEF Fold
    <2> QED
      BY <1>4
  <1>6. RunOf(R, n, Nat, base, step)
    <2> HIDE DEF n, base, step
    <2>1. G[{}] = base
      BY <1>5
    <2>2. ASSUME NEW s \in SUBSET (1 .. n), s # {}, G[s \ {Max(s)}] \in Nat
          PROVE  G[s] = step[Max(s)][G[s \ {Max(s)}]]
      <3>1. Max(s) \in 1 .. n
        BY <1>1, <2>2, MaxOfInterval
      <3>2. G[s] = G[s \ {Max(s)}] + Len(chunks[Max(s)])
        BY <1>1, <1>5, <2>2
      <3> HIDE DEF G
      <3> QED
        BY <1>2, <2>2, <3>1, <3>2
    <2>3. FollowsFold(G, n, Nat, base, step)
      BY <2>1, <2>2 DEF FollowsFold
    <2> HIDE DEF Fold, G
    <2> QED
      BY <1>1, <1>2, <2>3, FoldRuns, Zenon
  <1>7. /\ R \in [0 .. n -> Nat] /\ R[0] = base
        /\ \A i \in 1 .. n : R[i] = R[i - 1] + Len(chunks[i])
    <2> HIDE DEF n, base, step, Fold, G, R
    <2>1. \A i \in 1 .. n : i - 1 \in 0 .. n
      BY <1>1
    <2> QED
      BY <1>1, <1>2, <1>6, <2>1 DEF RunOf
  <1> HIDE DEF Fold, G, R, step
  <1> QED
    BY <1>3, <1>7

\* What the buffer of a request is while it is filled.
Buffers(length) == [buffer : [1 .. length -> Bytes \cup {"garbage"}], pos : Nat]

LEMMA CopyType ==
  ASSUME NEW length \in Nat, NEW acc \in Buffers(length), NEW chunk \in Seq(Bytes)
  PROVE  Copy(acc, chunk) \in Buffers(length)
BY DEF Copy, Buffers

\* The chunks are copied one after the other.
LEMMA MergeRuns ==
  ASSUME NEW chunks \in Chunks, NEW length \in Nat
  PROVE  \E R \in [0 .. Len(chunks) -> Buffers(length)] :
           /\ R[0] = [buffer |-> [i \in 1 .. length |-> "garbage"], pos |-> 0]
           /\ \A i \in 1 .. Len(chunks) : R[i] = Copy(R[i - 1], chunks[i])
           /\ MergeChunks(chunks, length) = R[Len(chunks)].buffer
PROOF
  <1> DEFINE n == Len(chunks)
             base == [buffer |-> [i \in 1 .. length |-> "garbage"], pos |-> 0]
             step == [i \in 1 .. n |-> [acc \in Buffers(length) |-> Copy(acc, chunks[i])]]
             Fold(g) == [s \in SUBSET DOMAIN chunks |->
                           IF s = {} THEN base ELSE Copy(g[s \ {Max(s)}], chunks[Max(s)])]
             G == CHOOSE g : g = Fold(g)
             R == [k \in 0 .. n |-> G[1 .. k]]
  <1>1. /\ n \in Nat /\ DOMAIN chunks = 1 .. n /\ base \in Buffers(length)
        /\ \A i \in 1 .. n : \A acc \in Buffers(length) : Copy(acc, chunks[i]) \in Buffers(length)
    <2>1. [buffer |-> [i \in 1 .. length |-> "garbage"], pos |-> 0] \in Buffers(length)
      BY DEF Buffers
    <2> QED
      BY <2>1, ChunksType, CopyType
  <1>2. /\ step \in [1 .. n -> [Buffers(length) -> Buffers(length)]]
        /\ \A i \in 1 .. n : \A acc \in Buffers(length) : step[i][acc] = Copy(acc, chunks[i])
    <2> HIDE DEF n, base
    <2> QED
      BY <1>1
  <1>3. MergeChunks(chunks, length) = R[n].buffer
    BY <1>1 DEF MergeChunks, FoldLeft, MapThenFoldSet
  <1>4. \E f : f = Fold(f)
    <2> HIDE DEF n, base, step
    <2>1. PICK f : IsFold(f, n, Buffers(length), base, step)
      <3> HIDE DEF Fold, G, R
      <3> QED
        BY <1>1, <1>2, FoldExists, Zenon
    <2>2. ASSUME NEW s \in SUBSET (1 .. n), s # {}
          PROVE  step[Max(s)][f[s \ {Max(s)}]] = Copy(f[s \ {Max(s)}], chunks[Max(s)])
      <3>1. Max(s) \in 1 .. n /\ s \ {Max(s)} \in SUBSET (1 .. n)
        BY <1>1, <2>2, MaxOfInterval
      <3>2. f[s \ {Max(s)}] \in Buffers(length)
        BY <3>1, <2>1 DEF IsFold
      <3> QED
        BY <1>2, <3>1, <3>2
    <2>3. f = Fold(f)
      BY <1>1, <2>1, <2>2 DEF IsFold
    <2> QED
      BY <2>3
  <1>5. G = Fold(G)
    <2> HIDE DEF Fold
    <2> QED
      BY <1>4
  <1>6. RunOf(R, n, Buffers(length), base, step)
    <2> HIDE DEF n, base, step
    <2>1. G[{}] = base
      BY <1>5
    <2>2. ASSUME NEW s \in SUBSET (1 .. n), s # {}, G[s \ {Max(s)}] \in Buffers(length)
          PROVE  G[s] = step[Max(s)][G[s \ {Max(s)}]]
      <3>1. Max(s) \in 1 .. n
        BY <1>1, <2>2, MaxOfInterval
      <3>2. G[s] = Copy(G[s \ {Max(s)}], chunks[Max(s)])
        BY <1>1, <1>5, <2>2
      <3> HIDE DEF G
      <3> QED
        BY <1>2, <2>2, <3>1, <3>2
    <2>3. FollowsFold(G, n, Buffers(length), base, step)
      BY <2>1, <2>2 DEF FollowsFold
    <2> HIDE DEF Fold, G
    <2> QED
      BY <1>1, <1>2, <2>3, FoldRuns, Zenon
  <1>7. /\ R \in [0 .. n -> Buffers(length)] /\ R[0] = base
        /\ \A i \in 1 .. n : R[i] = Copy(R[i - 1], chunks[i])
    <2> HIDE DEF n, base, step, Fold, G, R
    <2>1. \A i \in 1 .. n : i - 1 \in 0 .. n
      BY <1>1
    <2> QED
      BY <1>1, <1>2, <1>6, <2>1 DEF RunOf
  <1> HIDE DEF Fold, G, R, step
  <1> QED
    BY <1>3, <1>7

\* The buffer holds these bytes up to the place of the next copy.
Holds(acc, bytes, length) ==
  /\ acc \in Buffers(length) /\ bytes \in Seq(Bytes)
  /\ acc.pos = Len(bytes)
  /\ \A i \in 1 .. length : i =< Len(bytes) => acc.buffer[i] = bytes[i]

LEMMA CopyHolds ==
  ASSUME NEW length \in Nat, NEW acc, NEW bytes, Holds(acc, bytes, length),
         NEW chunk \in Seq(Bytes)
  PROVE  /\ Holds(Copy(acc, chunk), bytes \o chunk, length)
         /\ Len(bytes \o chunk) = Len(bytes) + Len(chunk)
PROOF
  <1>1. /\ Copy(acc, chunk) \in Buffers(length) /\ bytes \in Seq(Bytes)
        /\ acc.pos = Len(bytes) /\ acc.pos \in Nat /\ Len(chunk) \in Nat
        /\ acc \in Buffers(length)
    BY CopyType DEF Holds, Buffers
  <1>2. bytes \o chunk \in Seq(Bytes) /\ Len(bytes \o chunk) = Len(bytes) + Len(chunk)
    BY <1>1
  <1>3. Copy(acc, chunk).pos = Len(bytes \o chunk)
    BY <1>1, <1>2 DEF Copy
  <1>4. ASSUME NEW i \in 1 .. length, i =< Len(bytes \o chunk)
        PROVE  Copy(acc, chunk).buffer[i] = (bytes \o chunk)[i]
    <2>1. DOMAIN acc.buffer = 1 .. length /\ DOMAIN chunk = 1 .. Len(chunk)
      BY <1>1 DEF Buffers
    <2>2. Copy(acc, chunk).buffer[i] =
            IF i - Len(bytes) \in 1 .. Len(chunk) THEN chunk[i - Len(bytes)] ELSE acc.buffer[i]
      BY <1>1, <2>1 DEF Copy
    <2>3. (bytes \o chunk)[i] = IF i =< Len(bytes) THEN bytes[i] ELSE chunk[i - Len(bytes)]
      BY <1>1, <1>2, <1>4
    <2> QED
      BY <1>1, <1>2, <1>4, <2>2, <2>3 DEF Holds
  <1> QED
    BY <1>1, <1>2, <1>3, <1>4 DEF Holds

\* Whatever the chunks, the buffer of the added length holds all of them in order
\* and nothing else.
THEOREM MergedWhole ==
  ASSUME NEW chunks \in Chunks
  PROVE  /\ MergeChunks(chunks, ChunksLength(chunks)) = FlattenSeq(chunks)
         /\ FlattenSeq(chunks) \in Seq(Bytes)
PROOF
  <1> DEFINE n == Len(chunks)
  <1>1. /\ n \in Nat /\ n \in 0 .. n /\ 0 \in 0 .. n
        /\ \A k \in 1 .. n : k \in 0 .. n /\ k - 1 \in 0 .. n
        /\ \A k \in 1 .. n : chunks[k] \in Seq(Bytes) /\ Len(chunks[k]) \in Nat
    BY ChunksType
  <1>2. PICK L \in [0 .. n -> Nat] :
          /\ L[0] = 0 /\ \A k \in 1 .. n : L[k] = L[k - 1] + Len(chunks[k])
          /\ ChunksLength(chunks) = L[n]
    BY ChunksLengthRuns
  <1>3. PICK F \in [0 .. n -> Seq(Bytes)] :
          /\ F[0] = <<>> /\ \A k \in 1 .. n : F[k] = F[k - 1] \o chunks[k]
          /\ FlattenSeq(chunks) = F[n]
    BY FlattenRuns DEF Chunks
  <1> HIDE DEF n
  <1> DEFINE length == L[n]
  <1>4. length \in Nat
    BY <1>1, <1>2
  <1> HIDE DEF length
  <1>5. PICK R \in [0 .. n -> Buffers(length)] :
          /\ R[0] = [buffer |-> [i \in 1 .. length |-> "garbage"], pos |-> 0]
          /\ \A k \in 1 .. n : R[k] = Copy(R[k - 1], chunks[k])
          /\ MergeChunks(chunks, length) = R[n].buffer
    BY <1>4, MergeRuns DEF n
  <1> DEFINE P == {k \in 0 .. n : Holds(R[k], F[k], length) /\ Len(F[k]) = L[k]}
  <1>6. 0 \in P
    <2>1. Holds(R[0], F[0], length)
      <3>1. F[0] \in Seq(Bytes) /\ Len(F[0]) = 0
        BY <1>1, <1>3
      <3>2. R[0] \in Buffers(length)
        BY <1>1, Zenon
      <3>4. R[0].pos = 0
        BY <1>5
      <3>3. \A i \in 1 .. length : ~(i =< 0)
        BY <1>4
      <3> QED
        BY <3>1, <3>2, <3>3, <3>4 DEF Holds
    <2> QED
      BY <1>1, <1>2, <1>3, <2>1
  <1>7. ASSUME NEW k \in 1 .. n, k - 1 \in P
        PROVE  k \in P
    <2>1. Holds(R[k - 1], F[k - 1], length) /\ Len(F[k - 1]) = L[k - 1]
      BY <1>7
    <2>2. /\ R[k] = Copy(R[k - 1], chunks[k]) /\ F[k] = F[k - 1] \o chunks[k]
          /\ L[k] = L[k - 1] + Len(chunks[k]) /\ chunks[k] \in Seq(Bytes)
          /\ F[k - 1] \in Seq(Bytes) /\ k \in 0 .. n
      BY <1>1, <1>2, <1>3, <1>5
    <2>3. Holds(R[k], F[k], length) /\ Len(F[k]) = Len(F[k - 1]) + Len(chunks[k])
      <3>1. /\ Holds(Copy(R[k - 1], chunks[k]), F[k - 1] \o chunks[k], length)
            /\ Len(F[k - 1] \o chunks[k]) = Len(F[k - 1]) + Len(chunks[k])
        BY <1>4, <2>1, <2>2, CopyHolds
      <3> QED
        BY <2>2, <3>1, Zenon
    <2>4. Len(F[k]) = L[k]
      BY <2>1, <2>2, <2>3
    <2> QED
      BY <2>2, <2>3, <2>4
  <1>8. Holds(R[n], F[n], length) /\ Len(F[n]) = length
    <2>1. \A k \in 0 .. n : k \in P
      <3> HIDE DEF P
      <3> QED
        BY <1>1, <1>6, <1>7, Induct
    <2> QED
      BY <1>1, <2>1 DEF length
  <1>9. R[n].buffer = F[n]
    <2>1. /\ R[n].buffer \in [1 .. length -> Bytes \cup {"garbage"}]
          /\ F[n] \in Seq(Bytes) /\ F[n] \in [1 .. length -> Bytes]
      BY <1>8 DEF Buffers, Holds
    <2>2. \A i \in 1 .. length : R[n].buffer[i] = F[n][i]
      BY <1>4, <1>8 DEF Holds
    <2>3. ASSUME NEW b \in [1 .. length -> Bytes \cup {"garbage"}],
                 NEW f \in [1 .. length -> Bytes],
                 \A i \in 1 .. length : b[i] = f[i]
          PROVE  b = f
      BY <1>4, <2>3
    <2> QED
      BY <2>1, <2>2, <2>3, Zenon
  <1> QED
    BY <1>1, <1>2, <1>3, <1>5, <1>9 DEF length

----------------------------------------------------------------------------
(* Header objects *)

\* Names of lines and entries, and what codes and values are.
LineNames == Names \cup {""}
Texts == {"", "NaN", "?", "200", "301", "json", "text", "image", "gzip", "1", "2"}

LEMMA NamesAre ==
  /\ Names = {"type", "Type", "encoding", "Encoding", "SetCookie", "setcookie"}
  /\ LowerOf["type"] = "type" /\ LowerOf["Type"] = "type"
  /\ LowerOf["encoding"] = "encoding" /\ LowerOf["Encoding"] = "encoding"
  /\ LowerOf["SetCookie"] = "setcookie" /\ LowerOf["setcookie"] = "setcookie"
BY DEF Names, LowerOf

LEMMA TextsAre ==
  /\ "SetCookie" \in LineNames /\ "" \in LineNames
  /\ "" \in Texts /\ "NaN" \in Texts /\ "?" \in Texts
BY NamesAre DEF LineNames, Texts

Entry == [name : LineNames, value : Seq(Texts)]

EntrySet(entries) == {entries[i] : i \in DOMAIN entries}

UniqueNames(entries) ==
  \A i, j \in DOMAIN entries : entries[i].name = entries[j].name => i = j

LEMMA EntrySetType ==
  ASSUME NEW entries \in Seq(Entry), NEW e \in EntrySet(entries)
  PROVE  e \in Entry /\ e.name \in LineNames /\ e.value \in Seq(Texts)
PROOF
  <1>1. e \in Entry
    BY DEF EntrySet
  <1> QED
    BY <1>1 DEF Entry

\* A name that is there takes the new value in its place, another one comes last;
\* the other entries stay, and no name is there twice.
LEMMA SetEntryFacts ==
  ASSUME NEW entries \in Seq(Entry), UniqueNames(entries),
         NEW name \in LineNames, NEW value \in Seq(Texts)
  PROVE  /\ SetEntry(entries, name, value) \in Seq(Entry)
         /\ UniqueNames(SetEntry(entries, name, value))
         /\ EntrySet(SetEntry(entries, name, value)) =
              {e \in EntrySet(entries) : e.name # name} \cup {[name |-> name, value |-> value]}
PROOF
  <1> DEFINE new == [name |-> name, value |-> value]
             after == SetEntry(entries, name, value)
  <1>1. new \in Entry /\ new.name = name
    BY DEF Entry
  <1>2. DOMAIN entries = 1 .. Len(entries) /\ Len(entries) \in Nat
    OBVIOUS
  <1>3. \A i \in DOMAIN entries : entries[i] \in Entry
    OBVIOUS
  <1>4. CASE \E i \in DOMAIN entries : entries[i].name = name
    <2>1. after = [i \in DOMAIN entries |-> IF entries[i].name = name THEN new ELSE entries[i]]
      BY <1>4 DEF SetEntry
    <2> HIDE DEF new, after
    <2>2. after \in [1 .. Len(entries) -> Entry]
      BY <1>1, <1>2, <1>3, <2>1
    <2>3. after \in Seq(Entry) /\ DOMAIN after = DOMAIN entries
      BY <1>2, <2>2
    <2>4. \A i \in DOMAIN entries : after[i] = IF entries[i].name = name THEN new ELSE entries[i]
      BY <2>1
    <2>5. UniqueNames(after)
      BY <1>1, <2>3, <2>4 DEF UniqueNames
    <2>6. EntrySet(after) = {e \in EntrySet(entries) : e.name # name} \cup {new}
      BY <1>1, <1>4, <2>3, <2>4 DEF EntrySet
    <2> QED
      BY <2>3, <2>5, <2>6 DEF new, after
  <1>5. CASE ~ \E i \in DOMAIN entries : entries[i].name = name
    <2>1. after = Append(entries, new)
      BY <1>5 DEF SetEntry
    <2> HIDE DEF new, after
    <2>2. /\ after \in Seq(Entry) /\ DOMAIN after = 1 .. Len(entries) + 1
          /\ after[Len(entries) + 1] = new
          /\ \A i \in DOMAIN entries : after[i] = entries[i]
      BY <1>1, <1>2, <2>1
    <2>3. UniqueNames(after)
      BY <1>1, <1>2, <1>5, <2>2 DEF UniqueNames
    <2>4. EntrySet(after) = {e \in EntrySet(entries) : e.name # name} \cup {new}
      <3>1. \A i \in DOMAIN after : i \in DOMAIN entries \/ i = Len(entries) + 1
        BY <1>2, <2>2
      <3>2. DOMAIN entries \subseteq DOMAIN after /\ Len(entries) + 1 \in DOMAIN after
        BY <1>2, <2>2
      <3> QED
        BY <1>5, <2>2, <3>1, <3>2 DEF EntrySet
    <2> QED
      BY <2>2, <2>3, <2>4 DEF new, after
  <1> QED
    BY <1>4, <1>5

LEMMA ValueOfFacts ==
  ASSUME NEW entries, UniqueNames(entries)
  PROVE  /\ \A e \in EntrySet(entries) : ValueOf(entries, e.name) = e.value
         /\ \A name : (\A e \in EntrySet(entries) : e.name # name) =>
              ValueOf(entries, name) = <<>>
PROOF
  <1>1. ASSUME NEW i \in DOMAIN entries
        PROVE  ValueOf(entries, entries[i].name) = entries[i].value
    <2> DEFINE j == CHOOSE k \in DOMAIN entries : entries[k].name = entries[i].name
    <2>1. j \in DOMAIN entries /\ entries[j].name = entries[i].name
      OBVIOUS
    <2>2. j = i
      <3> HIDE DEF j
      <3> QED
        BY <2>1 DEF UniqueNames
    <2> QED
      BY <2>2 DEF ValueOf
  <1>2. ASSUME NEW name, \A e \in EntrySet(entries) : e.name # name
        PROVE  ValueOf(entries, name) = <<>>
    BY <1>2 DEF EntrySet, ValueOf
  <1> QED
    BY <1>1, <1>2 DEF EntrySet

LEMMA ValueAfterSet ==
  ASSUME NEW entries \in Seq(Entry), UniqueNames(entries),
         NEW name \in LineNames, NEW value \in Seq(Texts), NEW other
  PROVE  ValueOf(SetEntry(entries, name, value), other) =
           IF other = name THEN value ELSE ValueOf(entries, other)
PROOF
  <1> DEFINE after == SetEntry(entries, name, value)
  <1>1. UniqueNames(after) /\ EntrySet(after) =
          {e \in EntrySet(entries) : e.name # name} \cup {[name |-> name, value |-> value]}
    BY SetEntryFacts
  <1> HIDE DEF after
  <1>2. CASE other = name
    <2> DEFINE new == [name |-> name, value |-> value]
    <2>1. new \in EntrySet(after) /\ new.name = name /\ new.value = value
      BY <1>1
    <2> HIDE DEF new
    <2>2. ValueOf(after, name) = value
      BY <1>1, <2>1, ValueOfFacts
    <2> QED
      BY <1>2, <2>2 DEF after
  <1>3. CASE other # name
    <2>1. CASE \E e \in EntrySet(entries) : e.name = other
      BY <1>1, <1>3, <2>1, ValueOfFacts DEF after
    <2>2. CASE ~ \E e \in EntrySet(entries) : e.name = other
      <3>1. \A e \in EntrySet(after) : e.name # other
        BY <1>1, <1>3, <2>2
      <3> QED
        BY <1>1, <1>3, <2>2, <3>1, ValueOfFacts DEF after
    <2> QED
      BY <2>1, <2>2
  <1> QED
    BY <1>2, <1>3

----------------------------------------------------------------------------
(* parseHeaders *)

Infos == [code : Texts, entries : Seq(Entry)]
AnyLine == [kind : {"status", "header", "blank"}, name : LineNames, value : Texts]
Parsing == [status : BOOLEAN, current : Infos, result : Seq(Infos)]

LEMMA ValueOfType ==
  ASSUME NEW entries \in Seq(Entry), NEW name
  PROVE  ValueOf(entries, name) \in Seq(Texts)
PROOF
  <1>1. \A i \in DOMAIN entries : entries[i].value \in Seq(Texts)
    BY EntrySetType DEF EntrySet
  <1>2. <<>> \in Seq(Texts)
    OBVIOUS
  <1> QED
    BY <1>1, <1>2 DEF ValueOf

LEMMA SetEntryType ==
  ASSUME NEW entries \in Seq(Entry), NEW name \in LineNames, NEW value \in Seq(Texts)
  PROVE  SetEntry(entries, name, value) \in Seq(Entry)
PROOF
  <1> DEFINE new == [name |-> name, value |-> value]
  <1>1. new \in Entry
    BY DEF Entry
  <1> HIDE DEF new
  <1>2. [i \in DOMAIN entries |-> IF entries[i].name = name THEN new ELSE entries[i]] \in Seq(Entry)
    BY <1>1
  <1>3. Append(entries, new) \in Seq(Entry)
    BY <1>1
  <1> QED
    BY <1>2, <1>3 DEF SetEntry, new

LEMMA NoInfoType == NoInfo \in Infos
PROOF
  <1>1. <<>> \in Seq(Entry)
    OBVIOUS
  <1> QED
    BY <1>1, TextsAre DEF Infos, NoInfo

LEMMA AddHeaderType ==
  ASSUME NEW entries \in Seq(Entry), NEW line \in AnyLine
  PROVE  AddHeader(entries, line) \in Seq(Entry)
PROOF
  <1>1. line.name \in LineNames /\ line.value \in Texts /\ <<line.value>> \in Seq(Texts)
    BY DEF AnyLine
  <1>2. ASSUME NEW values \in Seq(Texts)
        PROVE  Append(values, line.value) \in Seq(Texts)
    BY <1>1
  <1>3. Append(ValueOf(entries, "SetCookie"), line.value) \in Seq(Texts)
    BY <1>2, ValueOfType
  <1> QED
    BY <1>1, <1>3, TextsAre, SetEntryType DEF AddHeader

LEMMA ParseLineType ==
  ASSUME NEW acc \in Parsing, NEW line \in AnyLine
  PROVE  ParseLine(acc, line) \in Parsing
PROOF
  <1>1. /\ acc = [status |-> acc.status, current |-> acc.current, result |-> acc.result]
        /\ acc.status \in BOOLEAN /\ acc.current \in Infos /\ acc.result \in Seq(Infos)
    BY DEF Parsing
  <1>2. /\ acc.current = [code |-> acc.current.code, entries |-> acc.current.entries]
        /\ acc.current.code \in Texts /\ acc.current.entries \in Seq(Entry)
    BY <1>1 DEF Infos
  <1>3. line.value \in Texts /\ NoInfo \in Infos
    BY NoInfoType DEF AnyLine
  <1>4. Append(acc.result, acc.current) \in Seq(Infos)
    BY <1>1
  <1>5. CASE acc.status
    <2> DEFINE code == IF line.kind = "status" THEN line.value ELSE "NaN"
    <2>1. ParseLine(acc, line) = [status |-> FALSE, result |-> acc.result,
            current |-> [code |-> code, entries |-> acc.current.entries]]
      BY <1>1, <1>2, <1>5 DEF ParseLine
    <2>2. [code |-> code, entries |-> acc.current.entries] \in Infos
      BY <1>2, <1>3, TextsAre DEF Infos
    <2> QED
      BY <1>1, <2>1, <2>2 DEF Parsing
  <1>6. CASE ~acc.status /\ line.kind = "blank"
    <2>1. ParseLine(acc, line) = [status |-> TRUE, current |-> NoInfo,
            result |-> Append(acc.result, acc.current)]
      BY <1>1, <1>6 DEF ParseLine
    <2> QED
      BY <1>3, <1>4, <2>1 DEF Parsing
  <1>7. CASE ~acc.status /\ line.kind # "blank"
    <2>1. ParseLine(acc, line) = [status |-> acc.status, result |-> acc.result,
            current |-> [code |-> acc.current.code,
                         entries |-> AddHeader(acc.current.entries, line)]]
      BY <1>1, <1>2, <1>7 DEF ParseLine
    <2>2. [code |-> acc.current.code, entries |-> AddHeader(acc.current.entries, line)] \in Infos
      BY <1>2, AddHeaderType DEF Infos
    <2> QED
      BY <1>1, <2>1, <2>2 DEF Parsing
  <1> QED
    BY <1>1, <1>5, <1>6, <1>7

\* The lines are parsed one after the other.
LEMMA ParseRuns ==
  ASSUME NEW lines \in Seq(AnyLine)
  PROVE  \E R \in [0 .. Len(lines) -> Parsing] :
           /\ R[0] = [status |-> TRUE, current |-> NoInfo, result |-> <<>>]
           /\ \A i \in 1 .. Len(lines) : R[i] = ParseLine(R[i - 1], lines[i])
           /\ ParseHeaders(lines) = R[Len(lines)].result
PROOF
  <1> DEFINE n == Len(lines)
             base == [status |-> TRUE, current |-> NoInfo, result |-> <<>>]
             step == [i \in 1 .. n |-> [acc \in Parsing |-> ParseLine(acc, lines[i])]]
             Fold(g) == [s \in SUBSET DOMAIN lines |->
                           IF s = {} THEN base ELSE ParseLine(g[s \ {Max(s)}], lines[Max(s)])]
             G == CHOOSE g : g = Fold(g)
             R == [k \in 0 .. n |-> G[1 .. k]]
  <1>1. /\ n \in Nat /\ DOMAIN lines = 1 .. n /\ base \in Parsing
        /\ \A i \in 1 .. n : \A acc \in Parsing : ParseLine(acc, lines[i]) \in Parsing
    <2>1. [status |-> TRUE, current |-> NoInfo, result |-> <<>>] \in Parsing
      <3>1. <<>> \in Seq(Infos)
        OBVIOUS
      <3> QED
        BY <3>1, NoInfoType DEF Parsing
    <2> QED
      BY <2>1, ParseLineType
  <1>2. /\ step \in [1 .. n -> [Parsing -> Parsing]]
        /\ \A i \in 1 .. n : \A acc \in Parsing : step[i][acc] = ParseLine(acc, lines[i])
    <2> HIDE DEF n, base
    <2> QED
      BY <1>1
  <1>3. ParseHeaders(lines) = R[n].result
    BY <1>1 DEF ParseHeaders, FoldLeft, MapThenFoldSet
  <1>4. \E f : f = Fold(f)
    <2> HIDE DEF n, base, step
    <2>1. PICK f : IsFold(f, n, Parsing, base, step)
      <3> HIDE DEF Fold, G, R
      <3> QED
        BY <1>1, <1>2, FoldExists, Zenon
    <2>2. ASSUME NEW s \in SUBSET (1 .. n), s # {}
          PROVE  step[Max(s)][f[s \ {Max(s)}]] = ParseLine(f[s \ {Max(s)}], lines[Max(s)])
      <3>1. Max(s) \in 1 .. n /\ s \ {Max(s)} \in SUBSET (1 .. n)
        BY <1>1, <2>2, MaxOfInterval
      <3>2. f[s \ {Max(s)}] \in Parsing
        BY <3>1, <2>1 DEF IsFold
      <3> QED
        BY <1>2, <3>1, <3>2
    <2>3. f = Fold(f)
      BY <1>1, <2>1, <2>2 DEF IsFold
    <2> QED
      BY <2>3
  <1>5. G = Fold(G)
    <2> HIDE DEF Fold
    <2> QED
      BY <1>4
  <1>6. RunOf(R, n, Parsing, base, step)
    <2> HIDE DEF n, base, step
    <2>1. G[{}] = base
      BY <1>5
    <2>2. ASSUME NEW s \in SUBSET (1 .. n), s # {}, G[s \ {Max(s)}] \in Parsing
          PROVE  G[s] = step[Max(s)][G[s \ {Max(s)}]]
      <3>1. Max(s) \in 1 .. n
        BY <1>1, <2>2, MaxOfInterval
      <3>2. G[s] = ParseLine(G[s \ {Max(s)}], lines[Max(s)])
        BY <1>1, <1>5, <2>2
      <3> HIDE DEF G
      <3> QED
        BY <1>2, <2>2, <3>1, <3>2
    <2>3. FollowsFold(G, n, Parsing, base, step)
      BY <2>1, <2>2 DEF FollowsFold
    <2> HIDE DEF Fold, G
    <2> QED
      BY <1>1, <1>2, <2>3, FoldRuns, Zenon
  <1>7. /\ R \in [0 .. n -> Parsing] /\ R[0] = base
        /\ \A i \in 1 .. n : R[i] = ParseLine(R[i - 1], lines[i])
    <2> HIDE DEF n, base, step, Fold, G, R
    <2>1. \A i \in 1 .. n : i - 1 \in 0 .. n
      BY <1>1
    <2> QED
      BY <1>1, <1>2, <1>6, <2>1 DEF RunOf
  <1> HIDE DEF Fold, G, R, step
  <1> QED
    BY <1>3, <1>7

LEMMA CollectType ==
  ASSUME NEW values \in Seq(Texts), NEW line \in AnyLine
  PROVE  Collect(values, line) \in Seq(Texts)
PROOF
  <1>1. line.value \in Texts
    BY DEF AnyLine
  <1> QED
    BY <1>1 DEF Collect

\* The values of Set-Cookie are collected one after the other.
LEMMA CookieRuns ==
  ASSUME NEW lines \in Seq(AnyLine)
  PROVE  \E R \in [0 .. Len(lines) -> Seq(Texts)] :
           /\ R[0] = <<>>
           /\ \A i \in 1 .. Len(lines) : R[i] = Collect(R[i - 1], lines[i])
           /\ Given(lines, "SetCookie") = R[Len(lines)]
PROOF
  <1> DEFINE n == Len(lines)
             base == <<>>
             step == [i \in 1 .. n |-> [acc \in Seq(Texts) |-> Collect(acc, lines[i])]]
             Fold(g) == [s \in SUBSET DOMAIN lines |->
                           IF s = {} THEN base ELSE Collect(g[s \ {Max(s)}], lines[Max(s)])]
             G == CHOOSE g : g = Fold(g)
             R == [k \in 0 .. n |-> G[1 .. k]]
  <1>1. /\ n \in Nat /\ DOMAIN lines = 1 .. n /\ base \in Seq(Texts)
        /\ \A i \in 1 .. n : \A acc \in Seq(Texts) : Collect(acc, lines[i]) \in Seq(Texts)
    <2>1. /\ n \in Nat /\ DOMAIN lines = 1 .. n /\ base \in Seq(Texts)
          /\ \A i \in 1 .. n : lines[i] \in AnyLine
      OBVIOUS
    <2> HIDE DEF n, base, step, Fold, G, R
    <2> QED
      BY <2>1, CollectType, Zenon
  <1>2. /\ step \in [1 .. n -> [Seq(Texts) -> Seq(Texts)]]
        /\ \A i \in 1 .. n : \A acc \in Seq(Texts) : step[i][acc] = Collect(acc, lines[i])
    <2> HIDE DEF n, base
    <2> QED
      BY <1>1
  <1>3. Given(lines, "SetCookie") = R[n]
    BY <1>1 DEF Given, FoldLeft, MapThenFoldSet
  <1>4. \E f : f = Fold(f)
    <2> HIDE DEF n, base, step
    <2>1. PICK f : IsFold(f, n, Seq(Texts), base, step)
      <3> HIDE DEF Fold, G, R
      <3> QED
        BY <1>1, <1>2, FoldExists, Zenon
    <2>2. ASSUME NEW s \in SUBSET (1 .. n), s # {}
          PROVE  step[Max(s)][f[s \ {Max(s)}]] = Collect(f[s \ {Max(s)}], lines[Max(s)])
      <3>1. Max(s) \in 1 .. n /\ s \ {Max(s)} \in SUBSET (1 .. n)
        BY <1>1, <2>2, MaxOfInterval
      <3>2. f[s \ {Max(s)}] \in Seq(Texts)
        BY <3>1, <2>1 DEF IsFold
      <3> QED
        BY <1>2, <3>1, <3>2
    <2>3. f = Fold(f)
      BY <1>1, <2>1, <2>2 DEF IsFold
    <2> QED
      BY <2>3
  <1>5. G = Fold(G)
    <2> HIDE DEF Fold
    <2> QED
      BY <1>4
  <1>6. RunOf(R, n, Seq(Texts), base, step)
    <2> HIDE DEF n, base, step
    <2>1. G[{}] = base
      BY <1>5
    <2>2. ASSUME NEW s \in SUBSET (1 .. n), s # {}, G[s \ {Max(s)}] \in Seq(Texts)
          PROVE  G[s] = step[Max(s)][G[s \ {Max(s)}]]
      <3>1. Max(s) \in 1 .. n
        BY <1>1, <2>2, MaxOfInterval
      <3>2. G[s] = Collect(G[s \ {Max(s)}], lines[Max(s)])
        BY <1>1, <1>5, <2>2
      <3> HIDE DEF G
      <3> QED
        BY <1>2, <2>2, <3>1, <3>2
    <2>3. FollowsFold(G, n, Seq(Texts), base, step)
      BY <2>1, <2>2 DEF FollowsFold
    <2> HIDE DEF Fold, G
    <2> QED
      BY <1>1, <1>2, <2>3, FoldRuns, Zenon
  <1>7. /\ R \in [0 .. n -> Seq(Texts)] /\ R[0] = base
        /\ \A i \in 1 .. n : R[i] = Collect(R[i - 1], lines[i])
    <2> HIDE DEF n, base, step, Fold, G, R
    <2>1. \A i \in 1 .. n : i - 1 \in 0 .. n
      BY <1>1
    <2> QED
      BY <1>1, <1>2, <1>6, <2>1 DEF RunOf
  <1> HIDE DEF Fold, G, R, step
  <1> QED
    BY <1>3, <1>7

\* What a header line is.
LEMMA HeaderLineFacts ==
  ASSUME NEW line \in HeaderLines
  PROVE  /\ line \in AnyLine /\ line.kind = "header" /\ line.name \in Names
         /\ line.value \in Texts
         /\ LowerOf[line.name] = "encoding" => line.value = "gzip"
         /\ LowerOf[line.name] = "type" => line.value \in {"json", "text", "image"}
PROOF
  <1>0. PICK name \in Names : \E value \in ValuesOf(name) : line = Header(name, value)
    BY DEF HeaderLines
  <1>1. PICK value \in ValuesOf(name) : line = Header(name, value)
    BY <1>0
  <1>2. line.kind = "header" /\ line.name = name /\ line.value = value
    BY <1>1 DEF Header
  <1>3. /\ value \in Texts
        /\ LowerOf[name] = "encoding" => value = "gzip"
        /\ LowerOf[name] = "type" => value \in {"json", "text", "image"}
    BY <1>1, NamesAre DEF ValuesOf, Texts
  <1>4. line \in AnyLine
    BY <1>1, <1>3 DEF Header, AnyLine, LineNames
  <1> QED
    BY <1>2, <1>3, <1>4

\* v is the value of the last of the first k lines with a name.
LastOf(lines, k, name, v) ==
  \/ v = <<>> /\ \A i \in 1 .. k : lines[i].name # name
  \/ \E i \in 1 .. k : /\ lines[i].name = name /\ v = <<lines[i].value>>
                       /\ \A j \in 1 .. k : lines[j].name = name => j =< i

LEMMA LastOfLast ==
  ASSUME NEW lines, NEW k \in Nat \ {0}, NEW name, lines[k].name = name
  PROVE  LastOf(lines, k, name, <<lines[k].value>>)
BY DEF LastOf

LEMMA LastOfOther ==
  ASSUME NEW lines, NEW k \in Nat \ {0}, NEW name, lines[k].name # name, NEW v,
         LastOf(lines, k - 1, name, v)
  PROVE  LastOf(lines, k, name, v)
PROOF
  <1>1. \A i \in 1 .. k : i \in 1 .. k - 1 \/ i = k
    OBVIOUS
  <1>2. \A i \in 1 .. k - 1 : i \in 1 .. k
    OBVIOUS
  <1>3. CASE v = <<>> /\ \A i \in 1 .. k - 1 : lines[i].name # name
    BY <1>1, <1>3 DEF LastOf
  <1>4. CASE \E i \in 1 .. k - 1 : /\ lines[i].name = name /\ v = <<lines[i].value>>
                                   /\ \A j \in 1 .. k - 1 : lines[j].name = name => j =< i
    BY <1>1, <1>2, <1>4, Zenon DEF LastOf
  <1> QED
    BY <1>3, <1>4 DEF LastOf

\* The entries after the first k lines, when cookies are the values of Set-Cookie
\* among them.
ParsedUpTo(entries, lines, k, cookies) ==
  /\ entries \in Seq(Entry) /\ UniqueNames(entries)
  /\ \A e \in EntrySet(entries) : e.name \in Names \ {"setcookie"} /\ e.value # <<>>
  /\ ValueOf(entries, "SetCookie") = cookies
  /\ \A name \in Names \ {"SetCookie", "setcookie"} :
       LastOf(lines, k, name, ValueOf(entries, name))

LEMMA NothingParsed ==
  ASSUME NEW lines
  PROVE  ParsedUpTo(<<>>, lines, 0, <<>>)
PROOF
  <1>1. <<>> \in Seq(Entry) /\ UniqueNames(<<>>) /\ EntrySet(<<>>) = {}
    BY DEF UniqueNames, EntrySet
  <1>2. \A name : ValueOf(<<>>, name) = <<>>
    BY <1>1, ValueOfFacts
  <1>3. \A name : LastOf(lines, 0, name, <<>>)
    BY DEF LastOf
  <1> QED
    BY <1>1, <1>2, <1>3 DEF ParsedUpTo

LEMMA LineParsed ==
  ASSUME NEW lines \in Seq(HeaderLines), NEW k \in 1 .. Len(lines),
         NEW entries, NEW cookies \in Seq(Texts),
         ParsedUpTo(entries, lines, k - 1, cookies)
  PROVE  ParsedUpTo(AddHeader(entries, lines[k]), lines, k, Collect(cookies, lines[k]))
PROOF
  <1> DEFINE line == lines[k]
  <1>1. line \in HeaderLines /\ k \in Nat /\ k >= 1
    OBVIOUS
  <1>2. line \in AnyLine /\ line.name \in Names /\ line.value \in Texts
    BY <1>1, HeaderLineFacts
  <1>3. /\ entries \in Seq(Entry) /\ UniqueNames(entries)
        /\ \A e \in EntrySet(entries) : e.name \in Names \ {"setcookie"} /\ e.value # <<>>
        /\ ValueOf(entries, "SetCookie") = cookies
        /\ \A name \in Names \ {"SetCookie", "setcookie"} :
             LastOf(lines, k - 1, name, ValueOf(entries, name))
    BY DEF ParsedUpTo
  <1> HIDE DEF line
  <1>4. CASE LowerOf[line.name] = "setcookie"
    <2> DEFINE values == Append(cookies, line.value)
               after == SetEntry(entries, "SetCookie", values)
    <2>1. values \in Seq(Texts) /\ values # <<>>
      BY <1>2, AppendProperties
    <2> HIDE DEF values
    <2>2. AddHeader(entries, line) = after /\ Collect(cookies, line) = values
      BY <1>3, <1>4 DEF AddHeader, Collect, values
    <2>3. /\ after \in Seq(Entry) /\ UniqueNames(after)
          /\ EntrySet(after) = {e \in EntrySet(entries) : e.name # "SetCookie"}
                                 \cup {[name |-> "SetCookie", value |-> values]}
      BY <1>3, <2>1, TextsAre, SetEntryFacts
    <2>4. \A name : ValueOf(after, name) =
                      IF name = "SetCookie" THEN values ELSE ValueOf(entries, name)
      <3>1. "SetCookie" \in LineNames
        BY TextsAre
      <3> HIDE DEF after
      <3>2. ASSUME NEW name
            PROVE  ValueOf(after, name) =
                     IF name = "SetCookie" THEN values ELSE ValueOf(entries, name)
        BY <1>3, <2>1, <3>1, ValueAfterSet DEF after
      <3> QED
        BY <3>2
    <2> HIDE DEF after
    <2>5. \A e \in EntrySet(after) : e.name \in Names \ {"setcookie"} /\ e.value # <<>>
      BY <1>3, <2>1, <2>3, NamesAre
    <2>6. line.name \in {"SetCookie", "setcookie"}
      BY <1>2, <1>4, NamesAre
    <2>7. ASSUME NEW name \in Names \ {"SetCookie", "setcookie"}
          PROVE  LastOf(lines, k, name, ValueOf(after, name))
      <3>1. LastOf(lines, k - 1, name, ValueOf(entries, name)) /\ lines[k].name # name
        BY <1>3, <2>6 DEF line
      <3>2. LastOf(lines, k, name, ValueOf(entries, name))
        BY <1>1, <3>1, LastOfOther
      <3> QED
        BY <2>4, <3>2
    <2> QED
      BY <2>2, <2>3, <2>4, <2>5, <2>7 DEF ParsedUpTo, line
  <1>5. CASE LowerOf[line.name] # "setcookie"
    <2> DEFINE values == <<line.value>>
               after == SetEntry(entries, line.name, values)
    <2>1. values \in Seq(Texts) /\ values # <<>> /\ line.name \in LineNames
      <3>1. line.name \in LineNames
        BY <1>2 DEF LineNames
      <3>2. \A t \in Texts : <<t>> \in Seq(Texts) /\ <<t>> # <<>>
        OBVIOUS
      <3> QED
        BY <1>2, <3>1, <3>2
    <2>2. AddHeader(entries, line) = after /\ Collect(cookies, line) = cookies
      BY <1>5 DEF AddHeader, Collect
    <2> HIDE DEF values
    <2>3. /\ after \in Seq(Entry) /\ UniqueNames(after)
          /\ EntrySet(after) = {e \in EntrySet(entries) : e.name # line.name}
                                 \cup {[name |-> line.name, value |-> values]}
      BY <1>3, <2>1, SetEntryFacts
    <2>4. \A name : ValueOf(after, name) =
                      IF name = line.name THEN values ELSE ValueOf(entries, name)
      BY <1>3, <2>1, ValueAfterSet
    <2> HIDE DEF after
    <2>5. line.name \notin {"SetCookie", "setcookie"}
      BY <1>5, NamesAre
    <2>6. \A e \in EntrySet(after) : e.name \in Names \ {"setcookie"} /\ e.value # <<>>
      BY <1>2, <1>3, <2>1, <2>3, <2>5
    <2>7. ValueOf(after, "SetCookie") = cookies
      BY <1>3, <2>4, <2>5
    <2>8. ASSUME NEW name \in Names \ {"SetCookie", "setcookie"}
          PROVE  LastOf(lines, k, name, ValueOf(after, name))
      <3>2. CASE name = line.name
        BY <1>1, <2>4, <3>2, LastOfLast DEF line, values
      <3>3. CASE name # line.name
        <4>1. LastOf(lines, k - 1, name, ValueOf(after, name)) /\ lines[k].name # name
          BY <1>3, <2>4, <3>3 DEF line
        <4> QED
          BY <1>1, <4>1, LastOfOther
      <3> QED
        BY <3>2, <3>3
    <2> QED
      BY <2>2, <2>3, <2>6, <2>7, <2>8 DEF ParsedUpTo, line
  <1> QED
    BY <1>4, <1>5

\* An entry for every name that the lines of a group give a value, and no other.
ParsedAs(entries, lines) ==
  /\ entries \in Seq(Entry) /\ UniqueNames(entries)
  /\ \A e \in EntrySet(entries) : e.name \in Names \ {"setcookie"} /\ e.value # <<>>
  /\ \A name \in Names \ {"setcookie"} : ValueOf(entries, name) = Given(lines, name)

LEMMA LastIsGiven ==
  ASSUME NEW lines, NEW n \in Nat, DOMAIN lines = 1 .. n,
         NEW name, name # "SetCookie", NEW v, LastOf(lines, n, name, v)
  PROVE  v = Given(lines, name)
PROOF
  <1> DEFINE places == {i \in DOMAIN lines : lines[i].name = name}
  <1>1. Given(lines, name) = IF places = {} THEN <<>> ELSE <<lines[Max(places)].value>>
    BY DEF Given
  <1>2. CASE v = <<>> /\ \A i \in 1 .. n : lines[i].name # name
    BY <1>1, <1>2
  <1>3. CASE \E i \in 1 .. n : /\ lines[i].name = name /\ v = <<lines[i].value>>
                               /\ \A j \in 1 .. n : lines[j].name = name => j =< i
    <2>1. PICK i \in 1 .. n : /\ lines[i].name = name /\ v = <<lines[i].value>>
                              /\ \A j \in 1 .. n : lines[j].name = name => j =< i
      BY <1>3
    <2>2. places \in SUBSET (1 .. n) /\ i \in places /\ \A j \in places : j =< i
      BY <2>1
    <2> HIDE DEF places
    <2>3. Max(places) \in places /\ Max(places) >= i
      BY <2>2, MaxOfInterval
    <2>4. Max(places) = i
      <3> DEFINE greatest == Max(places)
      <3>1. greatest \in places /\ greatest >= i
        BY <2>3
      <3> HIDE DEF greatest
      <3>2. greatest \in 1 .. n /\ greatest =< i
        BY <2>2, <3>1
      <3>3. greatest = i
        BY <3>1, <3>2
      <3> QED
        BY <3>3 DEF greatest
    <2> QED
      BY <1>1, <2>1, <2>2, <2>4
  <1> QED
    BY <1>2, <1>3 DEF LastOf

LEMMA AllParsed ==
  ASSUME NEW lines \in Seq(HeaderLines), NEW entries,
         ParsedUpTo(entries, lines, Len(lines), Given(lines, "SetCookie"))
  PROVE  ParsedAs(entries, lines)
PROOF
  <1>1. Len(lines) \in Nat /\ DOMAIN lines = 1 .. Len(lines)
    OBVIOUS
  <1>2. \A name \in Names \ {"SetCookie", "setcookie"} :
          ValueOf(entries, name) = Given(lines, name)
    BY <1>1, LastIsGiven DEF ParsedUpTo
  <1> QED
    BY <1>2 DEF ParsedUpTo, ParsedAs

\* The accumulator between two groups, and within one.
Between(result) == [status |-> TRUE, current |-> NoInfo, result |-> result]
Within(code, entries, result) ==
  [status |-> FALSE, current |-> [code |-> code, entries |-> entries], result |-> result]

CodeOf(line) == IF line.kind = "status" THEN line.value ELSE "NaN"

LEMMA FirstLineParsed ==
  ASSUME NEW result, NEW line
  PROVE  ParseLine(Between(result), line) = Within(CodeOf(line), <<>>, result)
BY DEF ParseLine, Between, Within, CodeOf, NoInfo

LEMMA HeaderLineParsed ==
  ASSUME NEW result, NEW code, NEW entries, NEW line, line.kind = "header"
  PROVE  ParseLine(Within(code, entries, result), line) =
           Within(code, AddHeader(entries, line), result)
BY DEF ParseLine, Within

LEMMA BlankLineParsed ==
  ASSUME NEW result, NEW code, NEW entries, NEW line, line.kind = "blank"
  PROVE  ParseLine(Within(code, entries, result), line) =
           Between(Append(result, [code |-> code, entries |-> entries]))
BY DEF ParseLine, Between, Within, NoInfo

\* R are the accumulators of the lines all; lines come after the line p + 1.
ParsesTo(R, all, n) == \A i \in 1 .. n : R[i] = ParseLine(R[i - 1], all[i])
LinesAt(all, p, lines) == \A i \in 1 .. Len(lines) : all[p + 1 + i] = lines[i]
AddsGroup(acc, result, code, lines) ==
  \E entries : /\ ParsedAs(entries, lines)
               /\ acc = Between(Append(result, [code |-> code, entries |-> entries]))

\* From the first line of a group, whatever it says, to its blank line: one more
\* object, with the code of the first line and what the header lines say.
LEMMA GroupParsed ==
  ASSUME NEW all, NEW n \in Nat, NEW R, ParsesTo(R, all, n),
         NEW p \in Nat, NEW lines \in Seq(HeaderLines), p + Len(lines) + 2 =< n,
         LinesAt(all, p, lines), all[p + Len(lines) + 2].kind = "blank",
         NEW result, R[p] = Between(result)
  PROVE  AddsGroup(R[p + Len(lines) + 2], result, CodeOf(all[p + 1]), lines)
PROOF
  <1> DEFINE m == Len(lines)
             code == CodeOf(all[p + 1])
  <1>1. m \in Nat /\ \A i \in 1 .. m : lines[i] \in HeaderLines
    OBVIOUS
  <1>2. lines \in Seq(AnyLine)
    BY HeaderLineFacts, SeqMonotonic
  <1>3. PICK C \in [0 .. m -> Seq(Texts)] :
          /\ C[0] = <<>> /\ \A i \in 1 .. m : C[i] = Collect(C[i - 1], lines[i])
          /\ Given(lines, "SetCookie") = C[m]
    BY <1>2, CookieRuns
  <1>4. p + m + 2 =< n
    OBVIOUS
  <1>5. /\ \A i \in 1 .. m : all[p + 1 + i] = lines[i]
        /\ \A i \in 1 .. n : R[i] = ParseLine(R[i - 1], all[i])
    BY DEF ParsesTo, LinesAt
  <1> DEFINE Reached(k) == \E entries : /\ ParsedUpTo(entries, lines, k, C[k])
                                        /\ R[p + 1 + k] = Within(code, entries, result)
             P == {k \in 0 .. m : Reached(k)}
  <1>6. Reached(0)
    <2>1. R[p + 1] = ParseLine(R[p], all[p + 1])
      <3>1. p + 1 \in 1 .. n /\ (p + 1) - 1 = p
        BY <1>1, <1>4
      <3> QED
        BY <1>5, <3>1
    <2>2. R[p + 1 + 0] = Within(code, <<>>, result)
      <3>1. p + 1 + 0 = p + 1
        OBVIOUS
      <3> QED
        BY <2>1, <3>1, FirstLineParsed
    <2> QED
      BY <1>3, <2>2, NothingParsed
  <1>7. ASSUME NEW k \in 1 .. m, Reached(k - 1)
        PROVE  Reached(k)
    <2>1. PICK entries : /\ ParsedUpTo(entries, lines, k - 1, C[k - 1])
                         /\ R[p + 1 + (k - 1)] = Within(code, entries, result)
      BY <1>7
    <2>2. R[p + 1 + k] = ParseLine(Within(code, entries, result), lines[k])
      <3>1. p + 1 + k \in 1 .. n /\ (p + 1 + k) - 1 = p + 1 + (k - 1)
        BY <1>1, <1>4
      <3>2. R[p + 1 + k] = ParseLine(R[(p + 1 + k) - 1], all[p + 1 + k])
        BY <1>5, <3>1
      <3> QED
        BY <1>5, <2>1, <3>1, <3>2
    <2>3. lines[k].kind = "header"
      BY <1>1, HeaderLineFacts
    <2>4. R[p + 1 + k] = Within(code, AddHeader(entries, lines[k]), result)
      <3> HIDE DEF code, m
      <3> DEFINE line == lines[k]
      <3>1. line.kind = "header"
        BY <2>3
      <3> HIDE DEF line
      <3>2. ParseLine(Within(code, entries, result), line) =
              Within(code, AddHeader(entries, line), result)
        BY <3>1, HeaderLineParsed
      <3> QED
        BY <2>2, <3>2, Zenon DEF line
    <2>5. C[k - 1] \in Seq(Texts) /\ C[k] = Collect(C[k - 1], lines[k])
      <3> HIDE DEF m
      <3>1. k - 1 \in 0 .. m
        BY <1>1
      <3> QED
        BY <1>3, <3>1
    <2>6. ParsedUpTo(AddHeader(entries, lines[k]), lines, k, C[k])
      BY <2>1, <2>5, LineParsed
    <2> QED
      BY <2>4, <2>6
  <1>8. Reached(m)
    <2> HIDE DEF Reached, m
    <2>1. 0 \in P /\ \A k \in 1 .. m : k - 1 \in P => k \in P
      BY <1>1, <1>6, <1>7
    <2>2. \A k \in 0 .. m : k \in P
      <3> HIDE DEF P
      <3> QED
        BY <1>1, <2>1, Induct
    <2> QED
      BY <1>1, <2>2
  <1>9. PICK entries : /\ ParsedUpTo(entries, lines, m, C[m])
                       /\ R[p + 1 + m] = Within(code, entries, result)
    BY <1>8
  <1>10. R[p + m + 2] = ParseLine(R[p + 1 + m], all[p + m + 2])
    <2>1. p + m + 2 \in 1 .. n /\ (p + m + 2) - 1 = p + 1 + m
      BY <1>1, <1>4
    <2> QED
      BY <1>5, <2>1
  <1>11. R[p + m + 2] = Between(Append(result, [code |-> code, entries |-> entries]))
    BY <1>9, <1>10, BlankLineParsed
  <1>12. ParsedAs(entries, lines)
    BY <1>3, <1>9, AllParsed
  <1> QED
    BY <1>11, <1>12 DEF AddsGroup

\* Every joined sequence is a prefix of all of them joined, and the next one comes
\* after it.
IsPrefixOf(s, t) == Len(s) =< Len(t) /\ \A i \in 1 .. Len(s) : t[i] = s[i]

LEMMA PrefixOfPrefix ==
  ASSUME NEW s, NEW t, NEW u, Len(s) \in Nat, Len(t) \in Nat, Len(u) \in Nat,
         IsPrefixOf(s, t), IsPrefixOf(t, u)
  PROVE  IsPrefixOf(s, u)
PROOF
  <1>1. Len(s) =< Len(u) /\ \A i \in 1 .. Len(s) : i \in 1 .. Len(t)
    BY DEF IsPrefixOf
  <1> QED
    BY <1>1 DEF IsPrefixOf

Joins(F, seqs, n) == \A i \in 1 .. n : F[i] = F[i - 1] \o seqs[i]
JoinedAt(F, seqs, n, k) ==
  /\ Len(F[k - 1]) \in Nat /\ Len(seqs[k]) \in Nat
  /\ Len(F[k]) = Len(F[k - 1]) + Len(seqs[k]) /\ Len(F[k]) =< Len(F[n])
  /\ \A i \in 1 .. Len(seqs[k]) : F[n][Len(F[k - 1]) + i] = seqs[k][i]

LEMMA JoinedArePrefixes ==
  ASSUME NEW S, NEW n \in Nat, NEW seqs \in [1 .. n -> Seq(S)], NEW F \in [0 .. n -> Seq(S)],
         Joins(F, seqs, n)
  PROVE  \A k \in 1 .. n : JoinedAt(F, seqs, n, k)
PROOF
  <1>1. \A k \in 0 .. n : F[k] \in Seq(S) /\ Len(F[k]) \in Nat
    <2>1. \A k \in 0 .. n : F[k] \in Seq(S)
      OBVIOUS
    <2>2. \A s \in Seq(S) : Len(s) \in Nat
      OBVIOUS
    <2> QED
      BY <2>1, <2>2
  <1>2. \A k \in 1 .. n : seqs[k] \in Seq(S) /\ Len(seqs[k]) \in Nat /\ k - 1 \in 0 .. n
    <2>1. \A k \in 1 .. n : seqs[k] \in Seq(S)
      OBVIOUS
    <2>2. \A s \in Seq(S) : Len(s) \in Nat
      OBVIOUS
    <2> QED
      BY <2>1, <2>2
  <1>3. \A s, t \in Seq(S) :
          /\ IsPrefixOf(s, s \o t) /\ Len(s \o t) = Len(s) + Len(t)
          /\ \A i \in 1 .. Len(t) : (s \o t)[Len(s) + i] = t[i]
    BY DEF IsPrefixOf
  <1>4. ASSUME NEW k \in 1 .. n
        PROVE  /\ IsPrefixOf(F[k - 1], F[k]) /\ Len(F[k]) = Len(F[k - 1]) + Len(seqs[k])
               /\ \A i \in 1 .. Len(seqs[k]) : F[k][Len(F[k - 1]) + i] = seqs[k][i]
    <2>1. F[k - 1] \in Seq(S) /\ seqs[k] \in Seq(S) /\ F[k] = F[k - 1] \o seqs[k]
      BY <1>1, <1>2 DEF Joins
    <2> QED
      BY <1>3, <2>1
  <1> DEFINE P == {k \in 0 .. n : \A j \in 0 .. k : IsPrefixOf(F[j], F[k])}
  <1>5. 0 \in P
    <2>1. \A j \in 0 .. 0 : j = 0
      OBVIOUS
    <2>2. IsPrefixOf(F[0], F[0]) /\ 0 \in 0 .. n
      BY <1>1 DEF IsPrefixOf
    <2> QED
      BY <2>1, <2>2
  <1>6. ASSUME NEW k \in 1 .. n, k - 1 \in P
        PROVE  k \in P
    <2>1. ASSUME NEW j \in 0 .. k
          PROVE  IsPrefixOf(F[j], F[k])
      <3>1. CASE j = k
        BY <1>1, <3>1 DEF IsPrefixOf
      <3>2. CASE j # k
        <4>1. j \in 0 .. k - 1 /\ j \in 0 .. n /\ k \in 0 .. n
          BY <3>2
        <4>2. IsPrefixOf(F[j], F[k - 1]) /\ IsPrefixOf(F[k - 1], F[k])
          BY <1>4, <1>6, <4>1
        <4>3. Len(F[j]) \in Nat /\ Len(F[k - 1]) \in Nat /\ Len(F[k]) \in Nat
          BY <1>1, <1>2, <4>1
        <4> QED
          BY <4>2, <4>3, PrefixOfPrefix, Zenon
      <3> QED
        BY <3>1, <3>2
    <2> QED
      BY <2>1
  <1>7. n \in P
    <2> HIDE DEF P
    <2>1. \A k \in 0 .. n : k \in P
      BY <1>5, <1>6, Induct
    <2> QED
      BY <2>1
  <1>8. ASSUME NEW k \in 1 .. n
        PROVE  /\ Len(F[k]) =< Len(F[n])
               /\ \A i \in 1 .. Len(seqs[k]) : F[n][Len(F[k - 1]) + i] = seqs[k][i]
    <2>1. IsPrefixOf(F[k], F[n])
      BY <1>7
    <2>2. ASSUME NEW i \in 1 .. Len(seqs[k])
          PROVE  F[n][Len(F[k - 1]) + i] = seqs[k][i]
      <3>1. Len(F[k - 1]) + i \in 1 .. Len(F[k])
        <4>1. /\ Len(F[k - 1]) \in Nat /\ Len(seqs[k]) \in Nat
              /\ Len(F[k]) = Len(F[k - 1]) + Len(seqs[k])
          BY <1>1, <1>2, <1>4
        <4> QED
          BY <4>1
      <3>2. F[n][Len(F[k - 1]) + i] = F[k][Len(F[k - 1]) + i]
        BY <2>1, <3>1 DEF IsPrefixOf
      <3> QED
        BY <1>4, <3>2
    <2> QED
      BY <2>1, <2>2 DEF IsPrefixOf
  <1>9. \A k \in 1 .. n : Len(F[k - 1]) \in Nat /\ Len(seqs[k]) \in Nat
    BY <1>1, <1>2
  <1> QED
    BY <1>4, <1>8, <1>9 DEF JoinedAt

\* The lines of one response.
Codes == {"200", "301"}
Groups == [code : Codes, lines : Seq(HeaderLines)]
GroupLines(group) == <<Status(group.code)>> \o group.lines \o <<Blank>>

LEMMA GroupFacts ==
  ASSUME NEW group \in Groups
  PROVE  /\ group.code \in Texts /\ group.code # "?"
         /\ group.lines \in Seq(HeaderLines) /\ Len(group.lines) \in Nat
PROOF
  <1>1. group.code \in Codes /\ group.lines \in Seq(HeaderLines)
    BY DEF Groups
  <1>2. \A code \in Codes : code \in Texts /\ code # "?"
    BY DEF Codes, Texts
  <1> QED
    BY <1>1, <1>2

LEMMA LineTypes ==
  /\ HeaderLines \subseteq AnyLine /\ Blank \in AnyLine /\ Blank.kind = "blank"
  /\ \A code \in Texts : Status(code) \in AnyLine /\ CodeOf(Status(code)) = code
BY HeaderLineFacts, TextsAre DEF Blank, Status, AnyLine, CodeOf

LEMMA GroupLinesFacts ==
  ASSUME NEW group \in Groups
  PROVE  /\ GroupLines(group) \in Seq(AnyLine)
         /\ Len(GroupLines(group)) = Len(group.lines) + 2
         /\ GroupLines(group)[1] = Status(group.code)
         /\ \A i \in 1 .. Len(group.lines) : GroupLines(group)[1 + i] = group.lines[i]
         /\ GroupLines(group)[Len(group.lines) + 2] = Blank
PROOF
  <1> DEFINE first == Status(group.code)
             lines == group.lines
             last  == Blank
  <1>1. first \in AnyLine /\ lines \in Seq(AnyLine) /\ last \in AnyLine
    BY GroupFacts, LineTypes, SeqMonotonic
  <1>2. GroupLines(group) = (<<first>> \o lines) \o <<last>>
    BY DEF GroupLines
  <1> HIDE DEF first, lines, last
  <1>3. /\ <<first>> \o lines \in Seq(AnyLine) /\ Len(<<first>> \o lines) = Len(lines) + 1
        /\ (<<first>> \o lines)[1] = first /\ Len(lines) \in Nat
        /\ \A i \in 1 .. Len(lines) : (<<first>> \o lines)[1 + i] = lines[i]
    BY <1>1
  <1> DEFINE most == <<first>> \o lines
  <1> HIDE DEF most
  <1>4. /\ most \o <<last>> \in Seq(AnyLine) /\ Len(most \o <<last>>) = Len(most) + 1
        /\ \A i \in 1 .. Len(most) : (most \o <<last>>)[i] = most[i]
        /\ (most \o <<last>>)[Len(most) + 1] = last
    BY <1>1, <1>3 DEF most
  <1>5. \A i \in 1 .. Len(lines) : 1 + i \in 1 .. Len(most)
    BY <1>3 DEF most
  <1> QED
    BY <1>2, <1>3, <1>4, <1>5 DEF most, first, lines, last

\* result holds an object for each of the first k groups, with its code and headers.
Told(result, groups, k) ==
  /\ result \in Seq(Infos) /\ Len(result) = k
  /\ \A i \in 1 .. k : /\ result[i].code = groups[i].code
                       /\ ParsedAs(result[i].entries, groups[i].lines)

LEMMA ToldNext ==
  ASSUME NEW groups, NEW k \in Nat \ {0}, NEW result, Told(result, groups, k - 1),
         NEW code \in Texts, code = groups[k].code,
         NEW entries, ParsedAs(entries, groups[k].lines)
  PROVE  Told(Append(result, [code |-> code, entries |-> entries]), groups, k)
PROOF
  <1> DEFINE info == [code |-> code, entries |-> entries]
  <1>1. info \in Infos /\ info.code = code /\ info.entries = entries
    BY DEF Infos, ParsedAs
  <1> HIDE DEF info
  <1>2. /\ Append(result, info) \in Seq(Infos) /\ Len(Append(result, info)) = k
        /\ Append(result, info)[k] = info
        /\ \A i \in 1 .. k - 1 : Append(result, info)[i] = result[i]
    BY <1>1 DEF Told
  <1>3. \A i \in 1 .. k : i \in 1 .. k - 1 \/ i = k
    OBVIOUS
  <1>4. Told(Append(result, info), groups, k)
    BY <1>1, <1>2, <1>3 DEF Told
  <1> QED
    BY <1>4 DEF info

\* Whatever the responses and their headers: the objects are those of the groups in
\* their order, and one more when there are trailers.
THEOREM ParsedGroups ==
  ASSUME NEW groups \in Seq(Groups), NEW trailers \in Seq(HeaderLines)
  PROVE  \E result :
           /\ Told(result, groups, Len(groups))
           /\ trailers = <<>> => ParseHeaders(LinesOf(groups, trailers)) = result
           /\ trailers # <<>> => \E entries :
                /\ ParsedAs(entries, Tail(trailers))
                /\ ParseHeaders(LinesOf(groups, trailers)) =
                     Append(result, [code |-> "NaN", entries |-> entries])
PROOF
  <1> DEFINE n == Len(groups)
             blocks == [i \in 1 .. n |-> GroupLines(groups[i])]
             all == LinesOf(groups, trailers)
  <1>1. n \in Nat /\ DOMAIN groups = 1 .. n /\ \A i \in 1 .. n : groups[i] \in Groups
    OBVIOUS
  <1>2. blocks \in [1 .. n -> Seq(AnyLine)] /\ blocks \in Seq(Seq(AnyLine)) /\ Len(blocks) = n
    <2> HIDE DEF n
    <2>1. \A i \in 1 .. n : GroupLines(groups[i]) \in Seq(AnyLine)
      BY <1>1, GroupLinesFacts
    <2> QED
      BY <1>1, <2>1
  <1>3. PICK F \in [0 .. n -> Seq(AnyLine)] :
          /\ F[0] = <<>>
          /\ \A i \in 1 .. n : F[i] = F[i - 1] \o blocks[i]
          /\ FlattenSeq(blocks) = F[n]
    <2> HIDE DEF n, blocks
    <2> QED
      BY <1>2, FlattenRuns
  <1> DEFINE flat == F[n]
             whole == flat \o trailers
             N == Len(flat)
             m == Len(trailers)
  <1>4. all = whole \o <<Blank>>
    BY <1>1, <1>3 DEF LinesOf, GroupLines
  <1>5. /\ flat \in Seq(AnyLine) /\ trailers \in Seq(AnyLine) /\ Blank \in AnyLine
        /\ N \in Nat /\ m \in Nat
    <2>1. n \in 0 .. n
      BY <1>1
    <2>2. flat \in Seq(AnyLine)
      BY <1>3, <2>1
    <2>3. trailers \in Seq(AnyLine) /\ Blank \in AnyLine
      BY LineTypes, SeqMonotonic
    <2> HIDE DEF flat
    <2> QED
      BY <2>2, <2>3
  <1>6. /\ all \in Seq(AnyLine) /\ Len(all) = N + m + 1
        /\ \A i \in 1 .. N : all[i] = flat[i]
        /\ \A i \in 1 .. m : all[N + i] = trailers[i]
        /\ all[N + m + 1] = Blank
    <2> HIDE DEF all, flat
    <2>1. /\ whole \in Seq(AnyLine) /\ Len(whole) = N + m
          /\ \A i \in 1 .. N : whole[i] = flat[i]
          /\ \A i \in 1 .. m : whole[N + i] = trailers[i]
      BY <1>5
    <2> HIDE DEF whole
    <2>2. /\ all \in Seq(AnyLine) /\ Len(all) = Len(whole) + 1
          /\ \A i \in 1 .. Len(whole) : all[i] = whole[i]
          /\ all[Len(whole) + 1] = Blank
      <3>1. ASSUME NEW s \in Seq(AnyLine), NEW x \in AnyLine
            PROVE  /\ s \o <<x>> \in Seq(AnyLine) /\ Len(s \o <<x>>) = Len(s) + 1
                   /\ \A i \in 1 .. Len(s) : (s \o <<x>>)[i] = s[i]
                   /\ (s \o <<x>>)[Len(s) + 1] = x
        OBVIOUS
      <3> HIDE DEF N, m
      <3> QED
        BY <1>4, <1>5, <2>1, <3>1
    <2> HIDE DEF N, m
    <2>3. \A i \in 1 .. N : i \in 1 .. N + m
      BY <1>5
    <2>4. \A i \in 1 .. m : N + i \in 1 .. N + m
      BY <1>5
    <2> QED
      BY <2>1, <2>2, <2>3, <2>4
  <1> DEFINE L == Len(all)
  <1>7. PICK R \in [0 .. L -> Parsing] :
          /\ R[0] = [status |-> TRUE, current |-> NoInfo, result |-> <<>>]
          /\ \A i \in 1 .. L : R[i] = ParseLine(R[i - 1], all[i])
          /\ ParseHeaders(all) = R[L].result
    <2> HIDE DEF all
    <2> QED
      BY <1>6, ParseRuns
  <1>8. L = N + m + 1 /\ L \in Nat /\ ParsesTo(R, all, L)
    BY <1>5, <1>6, <1>7 DEF ParsesTo
  <1>9. \A k \in 1 .. n :
          /\ Len(F[k - 1]) \in Nat /\ Len(blocks[k]) \in Nat
          /\ Len(F[k]) = Len(F[k - 1]) + Len(blocks[k]) /\ Len(F[k]) =< N
          /\ \A i \in 1 .. Len(blocks[k]) : flat[Len(F[k - 1]) + i] = blocks[k][i]
    <2> HIDE DEF n, blocks, all
    <2>1. Joins(F, blocks, n)
      BY <1>3 DEF Joins
    <2>2. \A k \in 1 .. n : JoinedAt(F, blocks, n, k)
      <3>1. n \in Nat
        BY <1>1
      <3> QED
        BY <1>2, <2>1, <3>1, JoinedArePrefixes, Zenon
    <2> QED
      BY <2>2 DEF JoinedAt
  <1> DEFINE After(k) == \E result : Told(result, groups, k) /\ R[Len(F[k])] = Between(result)
             P == {k \in 0 .. n : After(k)}
  <1> HIDE DEF n, blocks, all, whole, flat, N, m, L
  <1>10. After(0)
    <2>1. R[Len(F[0])] = Between(<<>>)
      BY <1>3, <1>7 DEF Between
    <2>2. Told(<<>>, groups, 0)
      BY DEF Told
    <2> QED
      BY <2>1, <2>2
  <1>11. ASSUME NEW k \in 1 .. n, After(k - 1)
         PROVE  After(k)
    <2> DEFINE p == Len(F[k - 1])
               lines == groups[k].lines
               code == groups[k].code
    <2>1. PICK result : Told(result, groups, k - 1) /\ R[p] = Between(result)
      BY <1>11
    <2>2. p \in Nat /\ k \in Nat \ {0}
      <3>1. k - 1 \in 0 .. n /\ k \in Nat \ {0}
        BY <1>1
      <3>2. F[k - 1] \in Seq(AnyLine)
        BY <1>3, <3>1
      <3> QED
        BY <3>1, <3>2
    <2>3. groups[k] \in Groups /\ blocks[k] = GroupLines(groups[k])
      BY <1>1 DEF blocks
    <2>4. code \in Texts /\ lines \in Seq(HeaderLines) /\ Len(lines) \in Nat
      BY <2>3, GroupFacts
    <2>5. /\ Len(blocks[k]) = Len(lines) + 2
          /\ blocks[k][1] = Status(code)
          /\ \A i \in 1 .. Len(lines) : blocks[k][1 + i] = lines[i]
          /\ blocks[k][Len(lines) + 2] = Blank
      BY <2>3, GroupLinesFacts
    <2> HIDE DEF lines, code
    <2>6. Len(F[k]) = p + Len(lines) + 2 /\ p + Len(lines) + 2 =< N
      <3>1. Len(F[k]) = p + Len(blocks[k]) /\ Len(F[k]) =< N
        BY <1>9
      <3> HIDE DEF p
      <3> QED
        BY <2>2, <2>4, <2>5, <3>1
    <2>7. \A i \in 1 .. Len(lines) + 2 : all[p + i] = blocks[k][i]
      <3>1. ASSUME NEW i \in 1 .. Len(lines) + 2
            PROVE  all[p + i] = blocks[k][i]
        <4>1. flat[p + i] = blocks[k][i]
          BY <1>9, <2>5
        <4>2. p + i \in 1 .. N
          BY <1>5, <2>2, <2>4, <2>6
        <4> QED
          BY <1>6, <4>1, <4>2
      <3> QED
        BY <3>1
    <2> HIDE DEF p
    <2>8. all[p + 1] = Status(code)
      <3>1. 1 \in 1 .. Len(lines) + 2
        BY <2>4
      <3> QED
        BY <2>5, <2>7, <3>1
    <2>9. LinesAt(all, p, lines)
      <3>1. ASSUME NEW i \in 1 .. Len(lines)
            PROVE  all[p + 1 + i] = lines[i]
        <4>1. 1 + i \in 1 .. Len(lines) + 2 /\ p + 1 + i = p + (1 + i)
          BY <2>2, <2>4
        <4> QED
          BY <2>5, <2>7, <4>1
      <3> QED
        BY <3>1 DEF LinesAt
    <2>10. all[p + Len(lines) + 2].kind = "blank"
      <3>1. Len(lines) + 2 \in 1 .. Len(lines) + 2 /\ p + Len(lines) + 2 = p + (Len(lines) + 2)
        BY <2>2, <2>4
      <3> QED
        BY <2>5, <2>7, <3>1, LineTypes
    <2>11. p + Len(lines) + 2 =< L /\ R[p] = Between(result)
      BY <1>5, <1>8, <2>1, <2>2, <2>4, <2>6 DEF p
    <2>12. PICK entries :
             /\ ParsedAs(entries, lines)
             /\ R[p + Len(lines) + 2] =
                  Between(Append(result, [code |-> CodeOf(all[p + 1]), entries |-> entries]))
      <3>1. AddsGroup(R[p + Len(lines) + 2], result, CodeOf(all[p + 1]), lines)
        BY <1>8, <2>2, <2>4, <2>9, <2>10, <2>11, GroupParsed
      <3> QED
        BY <3>1 DEF AddsGroup
    <2>13. CodeOf(all[p + 1]) = code
      BY <2>4, <2>8, LineTypes
    <2>14. Told(Append(result, [code |-> code, entries |-> entries]), groups, k)
      BY <2>1, <2>2, <2>4, <2>12, ToldNext DEF lines, code
    <2> QED
      BY <2>6, <2>12, <2>13, <2>14
  <1>12. After(n)
    <2> HIDE DEF After
    <2>1. 0 \in P /\ \A k \in 1 .. n : k - 1 \in P => k \in P
      BY <1>1, <1>10, <1>11
    <2>2. \A k \in 0 .. n : k \in P
      <3> HIDE DEF P
      <3> QED
        BY <1>1, <2>1, Induct
    <2> QED
      BY <1>1, <2>2
  <1>13. PICK result : Told(result, groups, n) /\ R[N] = Between(result)
    BY <1>12 DEF N, flat
  <1>14. CASE trailers = <<>>
    <2>1. m = 0
      BY <1>14 DEF m
    <2>2. L = N + 1 /\ all[N + 1] = Blank
      BY <1>5, <1>6, <1>8, <2>1
    <2>3. R[N + 1] = ParseLine(Between(result), Blank)
      <3>1. N + 1 \in 1 .. L /\ (N + 1) - 1 = N
        BY <1>5, <2>2
      <3> QED
        BY <1>8, <1>13, <2>2, <3>1 DEF ParsesTo
    <2>4. R[N + 1] = Within(CodeOf(Blank), <<>>, result)
      BY <2>3, FirstLineParsed
    <2>5. R[L].result = result
      BY <2>2, <2>4 DEF Within
    <2> QED
      BY <1>7, <1>13, <1>14, <2>5 DEF all, n
  <1>15. CASE trailers # <<>>
    <2> DEFINE rest == Tail(trailers)
    <2>1. /\ rest \in Seq(HeaderLines) /\ Len(rest) = m - 1 /\ m >= 1
          /\ \A i \in 1 .. Len(rest) : rest[i] = trailers[i + 1]
      BY <1>15 DEF m
    <2>2. trailers[1] \in HeaderLines
      BY <1>5, <2>1 DEF m
    <2> HIDE DEF rest
    <2>3. L = N + Len(rest) + 2
      BY <1>5, <1>8, <2>1
    <2>4. LinesAt(all, N, rest)
      <3>1. ASSUME NEW i \in 1 .. Len(rest)
            PROVE  all[N + 1 + i] = rest[i]
        <4>1. i + 1 \in 1 .. m /\ N + 1 + i = N + (i + 1)
          BY <1>5, <2>1
        <4> QED
          BY <1>6, <2>1, <4>1
      <3> QED
        BY <3>1 DEF LinesAt
    <2>5. all[N + Len(rest) + 2].kind = "blank"
      BY <1>6, <1>8, <2>3, LineTypes
    <2>6. N + Len(rest) + 2 =< L
      BY <1>5, <1>8, <2>3
    <2>7. PICK entries :
            /\ ParsedAs(entries, rest)
            /\ R[N + Len(rest) + 2] =
                 Between(Append(result, [code |-> CodeOf(all[N + 1]), entries |-> entries]))
      <3>1. AddsGroup(R[N + Len(rest) + 2], result, CodeOf(all[N + 1]), rest)
        BY <1>5, <1>8, <1>13, <2>1, <2>4, <2>5, <2>6, GroupParsed
      <3> QED
        BY <3>1 DEF AddsGroup
    <2>8. CodeOf(all[N + 1]) = "NaN"
      <3>1. 1 \in 1 .. m
        BY <1>5, <2>1
      <3>2. all[N + 1] = trailers[1]
        BY <1>6, <3>1
      <3> QED
        BY <2>2, <3>2, HeaderLineFacts DEF CodeOf
    <2>9. R[L].result = Append(result, [code |-> "NaN", entries |-> entries])
      BY <2>3, <2>7, <2>8 DEF Between
    <2> QED
      BY <1>7, <1>13, <1>15, <2>7, <2>9 DEF all, n, rest
  <1> QED
    BY <1>14, <1>15

----------------------------------------------------------------------------
(* lowerCaseHeaders *)

LEMMA MinOfInterval ==
  ASSUME NEW n \in Nat, NEW s \in SUBSET (1 .. n), s # {}
  PROVE  Min(s) \in s /\ \A y \in s : Min(s) =< y
PROOF
  <1>1. PICK x \in s : \A y \in s : ~(<<y, x>> \in OpToRel(<, Nat))
    <2>1. IsWellFoundedOn(OpToRel(<, Nat), Nat)
      BY NatLessThanWellFounded
    <2>2. s \subseteq Nat
      OBVIOUS
    <2> QED
      BY <2>1, <2>2, WFMin
  <1>2. \A y \in s : ~(y < x)
    <2>1. s \subseteq Nat
      OBVIOUS
    <2> QED
      BY <1>1, <2>1, Zenon DEF OpToRel
  <1>3. \A y \in s : x =< y
    BY <1>2
  <1> QED
    BY <1>3 DEF Min

\* The sequence without its element at place i.
Without(s, i) == SubSeq(s, 1, i - 1) \o SubSeq(s, i + 1, Len(s))

LEMMA WithoutFacts ==
  ASSUME NEW S, NEW s \in Seq(S), NEW i \in 1 .. Len(s)
  PROVE  /\ Without(s, i) \in Seq(S) /\ DOMAIN Without(s, i) = 1 .. Len(s) - 1
         /\ \A j \in 1 .. Len(s) - 1 :
              Without(s, i)[j] = IF j < i THEN s[j] ELSE s[j + 1]
PROOF
  <1> DEFINE before == SubSeq(s, 1, i - 1)
             after  == SubSeq(s, i + 1, Len(s))
  <1>1. Len(s) \in Nat /\ i \in Nat /\ i >= 1 /\ i =< Len(s)
    OBVIOUS
  <1>2. /\ before \in Seq(S) /\ Len(before) = i - 1
        /\ \A j \in 1 .. i - 1 : before[j] = s[j]
    BY <1>1
  <1>3. /\ after \in Seq(S) /\ Len(after) = Len(s) - i
        /\ \A j \in 1 .. Len(s) - i : after[j] = s[i + j]
    BY <1>1
  <1> HIDE DEF before, after
  <1>4. /\ before \o after \in Seq(S) /\ Len(before \o after) = Len(s) - 1
        /\ DOMAIN (before \o after) = 1 .. Len(s) - 1
        /\ \A j \in 1 .. Len(s) - 1 :
             (before \o after)[j] = IF j < i THEN before[j] ELSE after[j - (i - 1)]
    <2>1. ASSUME NEW t \in Seq(S), NEW u \in Seq(S)
          PROVE  /\ t \o u \in Seq(S) /\ Len(t \o u) = Len(t) + Len(u)
                 /\ DOMAIN (t \o u) = 1 .. Len(t) + Len(u)
                 /\ \A j \in 1 .. Len(t) + Len(u) :
                      (t \o u)[j] = IF j =< Len(t) THEN t[j] ELSE u[j - Len(t)]
      OBVIOUS
    <2>2. /\ before \o after \in Seq(S) /\ Len(before \o after) = Len(before) + Len(after)
          /\ DOMAIN (before \o after) = 1 .. Len(before) + Len(after)
          /\ \A j \in 1 .. Len(before) + Len(after) :
               (before \o after)[j] = IF j =< Len(before) THEN before[j]
                                      ELSE after[j - Len(before)]
      BY <1>2, <1>3, <2>1
    <2>3. Len(before) + Len(after) = Len(s) - 1
      BY <1>1, <1>2, <1>3
    <2>4. \A j \in 1 .. Len(s) - 1 : j =< i - 1 <=> j < i
      BY <1>1
    <2> QED
      BY <1>2, <2>2, <2>3, <2>4
  <1>5. ASSUME NEW j \in 1 .. Len(s) - 1
        PROVE  (before \o after)[j] = IF j < i THEN s[j] ELSE s[j + 1]
    <2>1. CASE j < i
      <3>1. j \in 1 .. i - 1
        BY <1>1, <2>1
      <3> QED
        BY <1>2, <1>4, <2>1, <3>1
    <2>2. CASE ~(j < i)
      <3>1. j - (i - 1) \in 1 .. Len(s) - i /\ i + (j - (i - 1)) = j + 1
        BY <1>1, <2>2
      <3>2. after[j - (i - 1)] = s[j + 1]
        BY <1>3, <3>1
      <3> QED
        BY <1>4, <2>2, <3>2
    <2> QED
      BY <2>1, <2>2
  <1> QED
    BY <1>4, <1>5 DEF Without, before, after

LEMMA DeleteIs ==
  ASSUME NEW entries \in Seq(Entry), NEW name
  PROVE  \/ /\ Delete(entries, name) = entries
            /\ \A i \in 1 .. Len(entries) : entries[i].name # name
         \/ \E i \in 1 .. Len(entries) :
              entries[i].name = name /\ Delete(entries, name) = Without(entries, i)
PROOF
  <1> DEFINE places == {i \in 1 .. Len(entries) : entries[i].name = name}
  <1>1. Delete(entries, name) = IF \E i \in 1 .. Len(entries) : entries[i].name = name
          THEN Without(entries, IF places # {} THEN Min(places) ELSE 0)
          ELSE entries
    BY DEF Delete, RemoveFirstMatch, RemoveAt, SelectInSeq, Without
  <1>2. CASE \E i \in 1 .. Len(entries) : entries[i].name = name
    <2>1. places # {} /\ places \in SUBSET (1 .. Len(entries)) /\ Len(entries) \in Nat
      BY <1>2
    <2>2. Min(places) \in places
      <3> HIDE DEF places
      <3> QED
        BY <2>1, MinOfInterval
    <2>3. Delete(entries, name) = Without(entries, Min(places))
      BY <1>1, <1>2, <2>1
    <2> DEFINE i == Min(places)
    <2>4. i \in 1 .. Len(entries) /\ entries[i].name = name
      BY <2>2
    <2> HIDE DEF i
    <2> QED
      BY <2>3, <2>4 DEF i
  <1>3. CASE ~ \E i \in 1 .. Len(entries) : entries[i].name = name
    BY <1>1, <1>3
  <1> QED
    BY <1>2, <1>3

LEMMA DeleteType ==
  ASSUME NEW entries \in Seq(Entry), NEW name
  PROVE  Delete(entries, name) \in Seq(Entry)
BY DeleteIs, WithoutFacts

\* The entry with the name goes, the others stay.
LEMMA DeleteFacts ==
  ASSUME NEW entries \in Seq(Entry), UniqueNames(entries), NEW name
  PROVE  /\ Delete(entries, name) \in Seq(Entry) /\ UniqueNames(Delete(entries, name))
         /\ EntrySet(Delete(entries, name)) = {e \in EntrySet(entries) : e.name # name}
PROOF
  <1>1. Len(entries) \in Nat /\ DOMAIN entries = 1 .. Len(entries)
    OBVIOUS
  <1>2. CASE /\ Delete(entries, name) = entries
             /\ \A i \in 1 .. Len(entries) : entries[i].name # name
    BY <1>1, <1>2 DEF EntrySet
  <1>3. CASE \E i \in 1 .. Len(entries) :
               entries[i].name = name /\ Delete(entries, name) = Without(entries, i)
    <2>1. PICK i \in 1 .. Len(entries) :
            entries[i].name = name /\ Delete(entries, name) = Without(entries, i)
      BY <1>3
    <2> DEFINE after == Without(entries, i)
    <2>2. /\ after \in Seq(Entry) /\ DOMAIN after = 1 .. Len(entries) - 1
          /\ \A j \in 1 .. Len(entries) - 1 :
               after[j] = IF j < i THEN entries[j] ELSE entries[j + 1]
      BY WithoutFacts
    <2> HIDE DEF after
    <2>3. UniqueNames(after)
      <3>1. ASSUME NEW j \in DOMAIN after, NEW k \in DOMAIN after, after[j].name = after[k].name
            PROVE  j = k
        <4> DEFINE Old(m) == IF m < i THEN m ELSE m + 1
        <4>1. Old(j) \in DOMAIN entries /\ Old(k) \in DOMAIN entries
          BY <1>1, <2>2
        <4>2. after[j] = entries[Old(j)] /\ after[k] = entries[Old(k)]
          BY <2>2
        <4>3. Old(j) = Old(k)
          BY <3>1, <4>1, <4>2 DEF UniqueNames
        <4> QED
          BY <1>1, <2>2, <4>3
      <3> QED
        BY <3>1 DEF UniqueNames
    <2>4. ASSUME NEW j \in DOMAIN after
          PROVE  after[j] \in EntrySet(entries) /\ after[j].name # name
      <3> DEFINE m == IF j < i THEN j ELSE j + 1
      <3>1. m \in DOMAIN entries /\ m # i
        BY <1>1, <2>2
      <3>2. after[j] = entries[m]
        BY <2>2
      <3> HIDE DEF m
      <3>3. entries[m].name # name
        BY <1>1, <2>1, <3>1 DEF UniqueNames
      <3> QED
        BY <3>1, <3>2, <3>3 DEF EntrySet
    <2>5. ASSUME NEW m \in DOMAIN entries, entries[m].name # name
          PROVE  \E j \in DOMAIN after : after[j] = entries[m]
      <3>1. m # i
        BY <2>1, <2>5
      <3>2. CASE m < i
        <4>1. m \in DOMAIN after
          BY <1>1, <2>2, <3>2
        <4> QED
          BY <2>2, <3>2, <4>1
      <3>3. CASE m > i
        <4>1. m - 1 \in DOMAIN after /\ ~(m - 1 < i) /\ (m - 1) + 1 = m
          BY <1>1, <2>2, <3>3
        <4>2. after[m - 1] = entries[m]
          BY <2>2, <4>1
        <4> QED
          BY <4>1, <4>2
      <3> QED
        BY <1>1, <3>1, <3>2, <3>3
    <2>6. EntrySet(after) = {e \in EntrySet(entries) : e.name # name}
      <3>1. \A e \in EntrySet(after) : e \in EntrySet(entries) /\ e.name # name
        BY <2>4 DEF EntrySet
      <3>2. \A e \in EntrySet(entries) : e.name # name => e \in EntrySet(after)
        BY <2>5 DEF EntrySet
      <3> QED
        BY <3>1, <3>2
    <2> QED
      BY <2>1, <2>2, <2>3, <2>6 DEF after
  <1> QED
    BY <1>2, <1>3, DeleteIs

LEMMA LowerNames ==
  \A name \in Names : LowerOf[name] \in Names /\ LowerOf[name] # "Encoding"
                        /\ (LowerOf[LowerOf[name]] = LowerOf[name])
BY NamesAre

LEMMA LowerType ==
  ASSUME NEW acc \in Seq(Entry), NEW x \in Entry, x.name \in Names
  PROVE  Lower(acc, x) \in Seq(Entry)
PROOF
  <1>1. LowerOf[x.name] \in LineNames /\ x.value \in Seq(Texts)
    BY LowerNames DEF LineNames, Entry
  <1>2. Delete(acc, x.name) \in Seq(Entry)
    BY DeleteType
  <1> QED
    BY <1>1, <1>2, SetEntryType DEF Lower

\* The names are lowered one after the other.
LEMMA LowerCaseRuns ==
  ASSUME NEW entries \in Seq(Entry), \A e \in EntrySet(entries) : e.name \in Names
  PROVE  \E R \in [0 .. Len(entries) -> Seq(Entry)] :
           /\ R[0] = entries
           /\ \A i \in 1 .. Len(entries) : R[i] = Lower(R[i - 1], entries[i])
           /\ LowerCase(entries) = R[Len(entries)]
PROOF
  <1> DEFINE n == Len(entries)
             base == entries
             step == [i \in 1 .. n |-> [acc \in Seq(Entry) |-> Lower(acc, entries[i])]]
             Fold(g) == [s \in SUBSET DOMAIN entries |->
                           IF s = {} THEN base ELSE Lower(g[s \ {Max(s)}], entries[Max(s)])]
             G == CHOOSE g : g = Fold(g)
             R == [k \in 0 .. n |-> G[1 .. k]]
  <1>1. /\ n \in Nat /\ DOMAIN entries = 1 .. n /\ base \in Seq(Entry)
        /\ \A i \in 1 .. n : \A acc \in Seq(Entry) : Lower(acc, entries[i]) \in Seq(Entry)
    BY LowerType DEF EntrySet
  <1>2. /\ step \in [1 .. n -> [Seq(Entry) -> Seq(Entry)]]
        /\ \A i \in 1 .. n : \A acc \in Seq(Entry) : step[i][acc] = Lower(acc, entries[i])
    <2> HIDE DEF n, base
    <2> QED
      BY <1>1
  <1>3. LowerCase(entries) = R[n]
    BY <1>1 DEF LowerCase, FoldLeft, MapThenFoldSet
  <1>4. \E f : f = Fold(f)
    <2> HIDE DEF n, base, step
    <2>1. PICK f : IsFold(f, n, Seq(Entry), base, step)
      <3> HIDE DEF Fold, G, R
      <3> QED
        BY <1>1, <1>2, FoldExists, Zenon
    <2>2. ASSUME NEW s \in SUBSET (1 .. n), s # {}
          PROVE  step[Max(s)][f[s \ {Max(s)}]] = Lower(f[s \ {Max(s)}], entries[Max(s)])
      <3>1. Max(s) \in 1 .. n /\ s \ {Max(s)} \in SUBSET (1 .. n)
        BY <1>1, <2>2, MaxOfInterval
      <3>2. f[s \ {Max(s)}] \in Seq(Entry)
        BY <3>1, <2>1 DEF IsFold
      <3> QED
        BY <1>2, <3>1, <3>2
    <2>3. f = Fold(f)
      BY <1>1, <2>1, <2>2 DEF IsFold
    <2> QED
      BY <2>3
  <1>5. G = Fold(G)
    <2> HIDE DEF Fold
    <2> QED
      BY <1>4
  <1>6. RunOf(R, n, Seq(Entry), base, step)
    <2> HIDE DEF n, base, step
    <2>1. G[{}] = base
      BY <1>5
    <2>2. ASSUME NEW s \in SUBSET (1 .. n), s # {}, G[s \ {Max(s)}] \in Seq(Entry)
          PROVE  G[s] = step[Max(s)][G[s \ {Max(s)}]]
      <3>1. Max(s) \in 1 .. n
        BY <1>1, <2>2, MaxOfInterval
      <3>2. G[s] = Lower(G[s \ {Max(s)}], entries[Max(s)])
        BY <1>1, <1>5, <2>2
      <3> HIDE DEF G
      <3> QED
        BY <1>2, <2>2, <3>1, <3>2
    <2>3. FollowsFold(G, n, Seq(Entry), base, step)
      BY <2>1, <2>2 DEF FollowsFold
    <2> HIDE DEF Fold, G
    <2> QED
      BY <1>1, <1>2, <2>3, FoldRuns, Zenon
  <1>7. /\ R \in [0 .. n -> Seq(Entry)] /\ R[0] = base
        /\ \A i \in 1 .. n : R[i] = Lower(R[i - 1], entries[i])
    <2> HIDE DEF n, base, step, Fold, G, R
    <2>1. \A i \in 1 .. n : i - 1 \in 0 .. n
      BY <1>1
    <2> QED
      BY <1>1, <1>2, <1>6, <2>1 DEF RunOf
  <1> HIDE DEF Fold, G, R, step
  <1> QED
    BY <1>3, <1>7

Encodings(entries) == {e \in EntrySet(entries) : LowerOf[e.name] = "encoding"}

\* The object while the names of all are lowered, after the first k: it is encoded
\* if all was, and a name that is not in lower case yet is still to come.
LoweredUpTo(entries, all, k) ==
  /\ entries \in Seq(Entry) /\ UniqueNames(entries)
  /\ \A e \in EntrySet(entries) : e.name \in Names
  /\ \A e \in Encodings(entries) : e.value = <<"gzip">>
  /\ Encodings(entries) = {} <=> Encodings(all) = {}
  /\ \A e \in EntrySet(entries) : e.name = "Encoding" =>
       \E j \in k + 1 .. Len(all) : all[j].name = "Encoding"

LEMMA LowerStep ==
  ASSUME NEW all \in Seq(Entry), NEW k \in 1 .. Len(all),
         \A e \in EntrySet(all) : e.name \in Names,
         \A e \in Encodings(all) : e.value = <<"gzip">>,
         NEW entries, LoweredUpTo(entries, all, k - 1)
  PROVE  LoweredUpTo(Lower(entries, all[k]), all, k)
PROOF
  <1> DEFINE x == all[k]
             low == LowerOf[x.name]
             less == Delete(entries, x.name)
             new == [name |-> low, value |-> x.value]
             after == SetEntry(less, low, x.value)
  <1>1. x \in EntrySet(all) /\ x \in Entry
    BY DEF EntrySet
  <1>2. /\ x.name \in Names /\ x.value \in Seq(Texts)
        /\ low = "encoding" => x.value = <<"gzip">> /\ Encodings(all) # {}
    BY <1>1 DEF Entry, Encodings
  <1>3. low \in Names /\ low \in LineNames /\ low # "Encoding" /\ LowerOf[low] = low
    BY <1>2, LowerNames DEF LineNames
  <1>4. /\ entries \in Seq(Entry) /\ UniqueNames(entries)
        /\ \A e \in EntrySet(entries) : e.name \in Names
        /\ \A e \in Encodings(entries) : e.value = <<"gzip">>
        /\ Encodings(entries) = {} <=> Encodings(all) = {}
        /\ \A e \in EntrySet(entries) : e.name = "Encoding" =>
             \E j \in (k - 1) + 1 .. Len(all) : all[j].name = "Encoding"
    BY DEF LoweredUpTo
  <1>5. /\ less \in Seq(Entry) /\ UniqueNames(less)
        /\ EntrySet(less) = {e \in EntrySet(entries) : e.name # x.name}
    BY <1>4, DeleteFacts
  <1> HIDE DEF less
  <1>6. /\ after \in Seq(Entry) /\ UniqueNames(after)
        /\ EntrySet(after) = {e \in EntrySet(less) : e.name # low} \cup {new}
    <2> HIDE DEF x, low
    <2> QED
      BY <1>2, <1>3, <1>5, SetEntryFacts
  <1>7. Lower(entries, x) = after
    BY DEF Lower, less
  <1>8. new.name = low /\ new.value = x.value
    OBVIOUS
  <1> HIDE DEF after, new, low
  <1>9. \A e \in EntrySet(after) : (e \in EntrySet(entries) /\ e.name # x.name) \/ e = new
    BY <1>5, <1>6
  <1>10. \A e \in EntrySet(after) : e.name \in Names
    BY <1>3, <1>4, <1>8, <1>9
  <1>11. \A e \in Encodings(after) : e.value = <<"gzip">>
    BY <1>2, <1>3, <1>4, <1>8, <1>9 DEF Encodings
  <1>12. Encodings(after) = {} <=> Encodings(all) = {}
    <2>1. CASE low = "encoding"
      <3>1. new \in Encodings(after)
        BY <1>3, <1>6, <1>8, <2>1 DEF Encodings
      <3> QED
        BY <1>2, <2>1, <3>1
    <2>2. CASE low # "encoding"
      <3>1. \A e \in Encodings(after) : e \in Encodings(entries)
        BY <1>3, <1>8, <1>9, <2>2 DEF Encodings
      <3>2. ASSUME NEW e \in Encodings(entries)
            PROVE  e \in Encodings(after)
        <4>1. e \in EntrySet(entries) /\ LowerOf[e.name] = "encoding"
          BY DEF Encodings
        <4>2. e.name # x.name /\ e.name # low
          BY <1>3, <2>2, <4>1 DEF low
        <4> QED
          BY <1>5, <1>6, <4>1, <4>2 DEF Encodings
      <3> QED
        BY <1>4, <3>1, <3>2
    <2> QED
      BY <2>1, <2>2
  <1>13. ASSUME NEW e \in EntrySet(after), e.name = "Encoding"
         PROVE  \E j \in k + 1 .. Len(all) : all[j].name = "Encoding"
    <2>1. e \in EntrySet(entries) /\ x.name # "Encoding"
      BY <1>3, <1>8, <1>9, <1>13
    <2>2. PICK j \in (k - 1) + 1 .. Len(all) : all[j].name = "Encoding"
      BY <1>4, <1>13, <2>1
    <2>3. j # k
      BY <2>1, <2>2
    <2>4. j \in k + 1 .. Len(all)
      BY <2>2, <2>3
    <2> QED
      BY <2>2, <2>4
  <1>14. LoweredUpTo(after, all, k)
    BY <1>6, <1>10, <1>11, <1>12, <1>13 DEF LoweredUpTo
  <1> QED
    BY <1>7, <1>14

\* Whatever spellings meet: the object keeps one entry for a name, and it is encoded
\* under the name in lower case exactly when it was under any spelling.
LEMMA LowerCaseFacts ==
  ASSUME NEW entries \in Seq(Entry), UniqueNames(entries),
         \A e \in EntrySet(entries) : e.name \in Names,
         \A e \in Encodings(entries) : e.value = <<"gzip">>
  PROVE  /\ LowerCase(entries) \in Seq(Entry) /\ UniqueNames(LowerCase(entries))
         /\ ValueOf(LowerCase(entries), "encoding") = <<"gzip">> <=> Encodings(entries) # {}
PROOF
  <1> DEFINE n == Len(entries)
  <1>1. n \in Nat
    OBVIOUS
  <1>2. PICK R \in [0 .. n -> Seq(Entry)] :
          /\ R[0] = entries /\ \A i \in 1 .. n : R[i] = Lower(R[i - 1], entries[i])
          /\ LowerCase(entries) = R[n]
    BY LowerCaseRuns
  <1> DEFINE P == {k \in 0 .. n : LoweredUpTo(R[k], entries, k)}
  <1>3. 0 \in P
    <2>1. \A e \in EntrySet(entries) : e.name = "Encoding" =>
            \E j \in 0 + 1 .. Len(entries) : entries[j].name = "Encoding"
      BY DEF EntrySet
    <2>2. LoweredUpTo(R[0], entries, 0)
      BY <1>2, <2>1 DEF LoweredUpTo
    <2> QED
      BY <1>1, <2>2
  <1>4. ASSUME NEW k \in 1 .. n, k - 1 \in P
        PROVE  k \in P
    <2>1. LoweredUpTo(R[k - 1], entries, k - 1)
      BY <1>4
    <2>2. LoweredUpTo(Lower(R[k - 1], entries[k]), entries, k)
      BY <2>1, LowerStep
    <2> QED
      BY <1>1, <1>2, <2>2
  <1>5. LoweredUpTo(R[n], entries, n)
    <2> HIDE DEF P
    <2>1. \A k \in 0 .. n : k \in P
      BY <1>1, <1>3, <1>4, Induct
    <2>2. n \in P
      BY <1>1, <2>1
    <2> QED
      BY <2>2 DEF P
  <1> DEFINE low == LowerCase(entries)
  <1>6. LoweredUpTo(low, entries, n)
    BY <1>2, <1>5
  <1> HIDE DEF low
  <1>7. /\ low \in Seq(Entry) /\ UniqueNames(low)
        /\ \A e \in EntrySet(low) : e.name \in Names /\ e.name # "Encoding"
        /\ \A e \in Encodings(low) : e.value = <<"gzip">>
        /\ Encodings(low) = {} <=> Encodings(entries) = {}
    BY <1>1, <1>6 DEF LoweredUpTo
  <1>8. \A e \in Encodings(low) : e \in EntrySet(low) /\ e.name = "encoding"
    BY <1>7, NamesAre DEF Encodings
  <1>9. CASE Encodings(low) # {}
    <2>1. PICK e \in Encodings(low) : TRUE
      BY <1>9
    <2> QED
      BY <1>7, <1>8, <2>1, ValueOfFacts DEF low
  <1>10. CASE Encodings(low) = {}
    <2>1. \A e \in EntrySet(low) : e.name # "encoding"
      BY <1>10, NamesAre DEF Encodings
    <2>2. ValueOf(low, "encoding") = <<>>
      BY <1>7, <2>1, ValueOfFacts
    <2>3. <<>> # <<"gzip">>
      OBVIOUS
    <2>4. ValueOf(low, "encoding") # <<"gzip">> /\ Encodings(entries) = {}
      BY <1>7, <1>10, <2>2, <2>3, Zenon
    <2> QED
      BY <1>7, <2>4, Zenon DEF low
  <1> QED
    BY <1>9, <1>10, <1>7 DEF low

----------------------------------------------------------------------------
(* curly: the parser of the body *)

LEMMA OwnFormats ==
  ASSUME NEW own \in SUBSET {"json", "image"}
  PROVE  LET others == {[format |-> f, own |-> TRUE] : f \in own \ {"json", "text", "any"}}
         IN SetToSeq(others) \in Seq(others)
PROOF
  <1> DEFINE others == {[format |-> f, own |-> TRUE] : f \in own \ {"json", "text", "any"}}
             one == [format |-> "image", own |-> TRUE]
  <1>1. others = {} \/ others = {one}
    OBVIOUS
  <1> HIDE DEF others, one
  <1>2. /\ \E f \in [1 .. Cardinality(others) -> others] : IsInjective(f)
        /\ Cardinality(others) \in Nat
    <2>1. CASE others = {}
      <3>1. Cardinality(others) = 0
        BY <2>1, FS_EmptySet
      <3> DEFINE f == [i \in 1 .. 0 |-> one]
      <3>2. f \in [1 .. 0 -> others] /\ DOMAIN f = {}
        OBVIOUS
      <3> HIDE DEF f
      <3>3. IsInjective(f)
        BY <3>2 DEF IsInjective
      <3>4. f \in [1 .. Cardinality(others) -> others]
        BY <3>1, <3>2
      <3>5. Cardinality(others) \in Nat
        BY <3>1
      <3> QED
        BY <3>3, <3>4, <3>5, Zenon
    <2>2. CASE others = {one}
      <3>1. Cardinality(others) = 1
        BY <2>2, FS_Singleton
      <3> DEFINE f == [i \in 1 .. 1 |-> one]
      <3>2. f \in [1 .. 1 -> others] /\ DOMAIN f = {1}
        BY <2>2
      <3> HIDE DEF f
      <3>3. IsInjective(f)
        BY <3>2 DEF IsInjective
      <3>4. f \in [1 .. Cardinality(others) -> others]
        BY <3>1, <3>2
      <3>5. Cardinality(others) \in Nat
        BY <3>1
      <3> QED
        BY <3>3, <3>4, <3>5, Zenon
    <2> QED
      BY <1>1, <2>1, <2>2
  <1>3. SetToSeq(others) \in [1 .. Cardinality(others) -> others]
    BY <1>2 DEF SetToSeq
  <1>4. SetToSeq(others) \in Seq(others)
    BY <1>2, <1>3
  <1> QED
    BY <1>4 DEF others

LEMMA FunctionIsSeq ==
  ASSUME NEW S, NEW n \in Nat, NEW f \in [1 .. n -> S]
  PROVE  f \in Seq(S) /\ Len(f) = n
OBVIOUS

\* A type of the defaults is found, in its place or by the caller's own parser for
\* it; the rest goes to the parser of any type.
LEMMA FindParserFacts ==
  ASSUME NEW own \in SUBSET {"json", "image"}, NEW type
  PROVE  /\ type = "json" => FindParser(own, type) = [format |-> "json", own |-> "json" \in own]
         /\ type = "text" => FindParser(own, type) = [format |-> "text", own |-> FALSE]
         /\ type \notin {"json", "text"} =>
              FindParser(own, type) = [format |-> "any", own |-> FALSE]
PROOF
  <1> DEFINE others == {[format |-> f, own |-> TRUE] : f \in own \ {"json", "text", "any"}}
             rest == SetToSeq(others)
             defaults == <<"json", "text", "any">>
             firsts == [i \in DOMAIN defaults |->
                          [format |-> defaults[i], own |-> defaults[i] \in own]]
             formats == Formats(own)
             matches == {i \in DOMAIN formats : formats[i].format \in {type, "any"}}
  <1>1. rest \in Seq(others)
    BY OwnFormats
  <1>2. formats = firsts \o rest
    BY DEF Formats
  <1>3. /\ firsts \in Seq([format : {"json", "text", "any"}, own : BOOLEAN]) /\ Len(firsts) = 3
        /\ firsts[1] = [format |-> "json", own |-> "json" \in own]
        /\ firsts[2] = [format |-> "text", own |-> FALSE]
        /\ firsts[3] = [format |-> "any", own |-> FALSE]
    <2>1. DOMAIN defaults = 1 .. 3 /\ defaults[1] = "json" /\ defaults[2] = "text"
          /\ defaults[3] = "any"
      OBVIOUS
    <2>2. "text" \notin own /\ "any" \notin own
      OBVIOUS
    <2> HIDE DEF defaults
    <2>3. \A i \in 1 .. 3 : i = 1 \/ i = 2 \/ i = 3
      OBVIOUS
    <2>4. firsts \in [1 .. 3 -> [format : {"json", "text", "any"}, own : BOOLEAN]]
      BY <2>1, <2>3
    <2>5. /\ firsts \in Seq([format : {"json", "text", "any"}, own : BOOLEAN])
          /\ Len(firsts) = 3
      <3> DEFINE S == [format : {"json", "text", "any"}, own : BOOLEAN]
      <3> HIDE DEF firsts, S
      <3>1. firsts \in [1 .. 3 -> S] /\ 3 \in Nat
        BY <2>4 DEF S
      <3>2. firsts \in Seq(S) /\ Len(firsts) = 3
        BY <3>1, FunctionIsSeq, Zenon
      <3> QED
        BY <3>2 DEF S
    <2>6. \A i \in 1 .. 3 : firsts[i] = [format |-> defaults[i], own |-> defaults[i] \in own]
      BY <2>1
    <2> HIDE DEF firsts
    <2>7. /\ firsts[1] = [format |-> defaults[1], own |-> defaults[1] \in own]
          /\ firsts[2] = [format |-> defaults[2], own |-> defaults[2] \in own]
          /\ firsts[3] = [format |-> defaults[3], own |-> defaults[3] \in own]
      BY <2>6
    <2>8. ("text" \in own) = FALSE /\ ("any" \in own) = FALSE
      BY <2>2
    <2> QED
      BY <2>1, <2>5, <2>7, <2>8
  <1> HIDE DEF rest, others, firsts, formats
  <1>4. /\ DOMAIN formats = 1 .. 3 + Len(rest) /\ Len(rest) \in Nat
        /\ formats[1] = firsts[1] /\ formats[2] = firsts[2] /\ formats[3] = firsts[3]
    <2> DEFINE S == [format : {"json", "text", "any"}, own : BOOLEAN] \cup others
    <2>1. firsts \in Seq(S) /\ rest \in Seq(S)
      BY <1>1, <1>3, SeqMonotonic
    <2> HIDE DEF S
    <2>2. Len(rest) \in Nat /\ Len(firsts) = 3
      BY <1>3, <2>1
    <2>3. /\ DOMAIN formats = 1 .. Len(firsts) + Len(rest)
          /\ \A i \in 1 .. Len(firsts) : formats[i] = firsts[i]
      BY <1>2, <2>1
    <2> QED
      BY <2>2, <2>3
  <1>5. FindParser(own, type) = formats[CHOOSE i \in matches : \A j \in matches : i =< j]
    BY DEF FindParser, formats
  <1>6. /\ formats[1].format = "json" /\ formats[2].format = "text" /\ formats[3].format = "any"
        /\ 1 \in DOMAIN formats /\ 2 \in DOMAIN formats /\ 3 \in DOMAIN formats
    BY <1>3, <1>4
  <1>7. ASSUME NEW k \in matches, \A i \in 1 .. k - 1 : i \notin matches
        PROVE  FindParser(own, type) = formats[k]
    <2>1. \A j \in matches : j \in Nat /\ j >= 1
      BY <1>4
    <2>2. \A j \in matches : k =< j
      BY <1>7, <2>1
    <2>3. (CHOOSE i \in matches : \A j \in matches : i =< j) = k
      BY <2>1, <2>2
    <2> QED
      BY <1>5, <2>3
  <1>8. CASE type = "json"
    <2>1. 1 \in matches /\ \A i \in 1 .. 1 - 1 : i \notin matches
      BY <1>6, <1>8
    <2> QED
      BY <1>3, <1>4, <1>7, <1>8, <2>1
  <1>9. CASE type = "text"
    <2>1. 2 \in matches /\ \A i \in 1 .. 2 - 1 : i \notin matches
      BY <1>6, <1>9
    <2> QED
      BY <1>3, <1>4, <1>7, <1>9, <2>1
  <1>10. CASE type \notin {"json", "text"}
    <2>1. 3 \in matches /\ 1 \notin matches /\ 2 \notin matches
      BY <1>6, <1>10
    <2>2. \A i \in 1 .. 3 - 1 : i \notin matches
      BY <2>1
    <2> QED
      BY <1>3, <1>4, <1>7, <1>10, <2>1, <2>2
  <1> QED
    BY <1>8, <1>9, <1>10

TypeEntries(entries) == {e \in EntrySet(entries) : LowerOf[e.name] = "type"}

\* The type is that of an entry of the last object, when it has one.
LEMMA ContentTypeFacts ==
  ASSUME NEW infos, infos # <<>>, NEW entries \in Seq(Entry),
         infos[Len(infos)].entries = entries
  PROVE  \/ TypeEntries(entries) = {} /\ ContentType(infos) = "none"
         \/ \E e \in TypeEntries(entries) : ContentType(infos) = e.value[1]
PROOF
  <1> DEFINE places == {i \in 1 .. Len(entries) : IsType(entries[i])}
             first == IF places # {} THEN Min(places) ELSE 0
  <1>1. Len(entries) \in Nat /\ DOMAIN entries = 1 .. Len(entries)
    OBVIOUS
  <1>2. ContentType(infos) = IF first = 0 THEN "none" ELSE entries[first].value[1]
    BY DEF ContentType, SelectInSeq
  <1>3. CASE places = {}
    <2>1. TypeEntries(entries) = {}
      BY <1>1, <1>3 DEF TypeEntries, EntrySet, IsType
    <2> QED
      BY <1>2, <1>3, <2>1
  <1>4. CASE places # {}
    <2>1. places \in SUBSET (1 .. Len(entries))
      OBVIOUS
    <2>2. first = Min(places)
      BY <1>4
    <2>3. Min(places) \in places
      <3> HIDE DEF places
      <3> QED
        BY <1>1, <1>4, <2>1, MinOfInterval
    <2>4. first \in 1 .. Len(entries) /\ IsType(entries[first])
      BY <2>2, <2>3
    <2> HIDE DEF first
    <2>5. entries[first] \in TypeEntries(entries)
      BY <1>1, <2>4 DEF TypeEntries, EntrySet, IsType
    <2>6. first # 0
      BY <1>1, <2>4
    <2> QED
      BY <1>2, <2>5, <2>6
  <1> QED
    BY <1>3, <1>4

----------------------------------------------------------------------------
(* What the lines of a response say of it *)

LEMMA GivenFacts ==
  ASSUME NEW lines \in Seq(HeaderLines), NEW name, name # "SetCookie"
  PROVE  \/ Given(lines, name) = <<>> /\ \A i \in DOMAIN lines : lines[i].name # name
         \/ \E i \in DOMAIN lines :
              lines[i].name = name /\ Given(lines, name) = <<lines[i].value>>
PROOF
  <1> DEFINE places == {i \in DOMAIN lines : lines[i].name = name}
  <1>1. Given(lines, name) = IF places = {} THEN <<>> ELSE <<lines[Max(places)].value>>
    BY DEF Given
  <1>2. CASE places = {}
    BY <1>1, <1>2
  <1>3. CASE places # {}
    <2>1. places \in SUBSET (1 .. Len(lines)) /\ Len(lines) \in Nat
      OBVIOUS
    <2>2. Max(places) \in places
      <3> HIDE DEF places
      <3> QED
        BY <1>3, <2>1, MaxOfInterval
    <2> DEFINE i == Max(places)
    <2>3. i \in DOMAIN lines /\ lines[i].name = name
      BY <2>2
    <2>4. Given(lines, name) = <<lines[i].value>>
      BY <1>1, <1>3
    <2> HIDE DEF i
    <2> QED
      BY <2>3, <2>4
  <1> QED
    BY <1>2, <1>3

\* An entry comes from a line with its name, and a line leaves an entry.
LEMMA EntriesOfLines ==
  ASSUME NEW lines \in Seq(HeaderLines), NEW entries, ParsedAs(entries, lines)
  PROVE  /\ \A e \in EntrySet(entries) : e.name # "SetCookie" =>
              \E i \in DOMAIN lines : lines[i].name = e.name /\ e.value = <<lines[i].value>>
         /\ \A i \in DOMAIN lines : lines[i].name \notin {"SetCookie", "setcookie"} =>
              \E e \in EntrySet(entries) : e.name = lines[i].name
PROOF
  <1>1. /\ entries \in Seq(Entry) /\ UniqueNames(entries)
        /\ \A e \in EntrySet(entries) : e.name \in Names \ {"setcookie"} /\ e.value # <<>>
        /\ \A name \in Names \ {"setcookie"} : ValueOf(entries, name) = Given(lines, name)
    BY DEF ParsedAs
  <1>2. ASSUME NEW e \in EntrySet(entries), e.name # "SetCookie"
        PROVE  \E i \in DOMAIN lines : lines[i].name = e.name /\ e.value = <<lines[i].value>>
    <2>1. ValueOf(entries, e.name) = e.value
      BY <1>1, ValueOfFacts
    <2>2. Given(lines, e.name) = e.value /\ e.value # <<>>
      BY <1>1, <2>1
    <2> DEFINE name == e.name
    <2> HIDE DEF name
    <2>3. \E i \in DOMAIN lines : lines[i].name = name /\ Given(lines, name) = <<lines[i].value>>
      BY <1>2, <2>2, GivenFacts DEF name
    <2> QED
      BY <2>2, <2>3 DEF name
  <1>3. ASSUME NEW i \in DOMAIN lines, lines[i].name \notin {"SetCookie", "setcookie"}
        PROVE  \E e \in EntrySet(entries) : e.name = lines[i].name
    <2> DEFINE name == lines[i].name
    <2>1. name \in Names
      <3>1. lines[i] \in HeaderLines
        OBVIOUS
      <3> QED
        BY <3>1, HeaderLineFacts
    <2> HIDE DEF name
    <2>2. PICK j \in DOMAIN lines :
            lines[j].name = name /\ Given(lines, name) = <<lines[j].value>>
      <3>1. name # "SetCookie" /\ ~ \A j \in DOMAIN lines : lines[j].name # name
        BY <1>3 DEF name
      <3> QED
        BY <3>1, GivenFacts
    <2>3. ValueOf(entries, name) = <<lines[j].value>>
      BY <1>1, <1>3, <2>1, <2>2 DEF name
    <2>4. ValueOf(entries, name) # <<>>
      <3> DEFINE v == lines[j].value
      <3> HIDE DEF v
      <3>1. <<v>> # <<>>
        OBVIOUS
      <3> QED
        BY <2>3, <3>1 DEF v
    <2> QED
      BY <1>1, <2>4, ValueOfFacts DEF name
  <1> QED
    BY <1>2, <1>3

\* The values of the lines with a name that is the same in lower case.
ValuesIn(lines, low) ==
  {lines[i].value : i \in {j \in DOMAIN lines : LowerOf[lines[j].name] = low}}

LEMMA SameLower ==
  ASSUME NEW lines \in Seq(HeaderLines), NEW entries, ParsedAs(entries, lines),
         NEW low \in {"type", "encoding"}
  PROVE  /\ \A e \in EntrySet(entries) : LowerOf[e.name] = low =>
              \E v \in ValuesIn(lines, low) : e.value = <<v>>
         /\ ValuesIn(lines, low) # {} => \E e \in EntrySet(entries) : LowerOf[e.name] = low
PROOF
  <1>1. ASSUME NEW e \in EntrySet(entries), LowerOf[e.name] = low
        PROVE  \E v \in ValuesIn(lines, low) : e.value = <<v>>
    <2>1. e.name # "SetCookie"
      BY <1>1, NamesAre
    <2>2. PICK i \in DOMAIN lines : lines[i].name = e.name /\ e.value = <<lines[i].value>>
      BY <2>1, EntriesOfLines
    <2>3. lines[i].value \in ValuesIn(lines, low)
      BY <1>1, <2>2 DEF ValuesIn
    <2> QED
      BY <2>2, <2>3
  <1>2. ASSUME ValuesIn(lines, low) # {}
        PROVE  \E e \in EntrySet(entries) : LowerOf[e.name] = low
    <2>1. PICK i \in DOMAIN lines : LowerOf[lines[i].name] = low
      BY <1>2 DEF ValuesIn
    <2>2. lines[i].name \notin {"SetCookie", "setcookie"}
      BY <2>1, NamesAre
    <2>3. PICK e \in EntrySet(entries) : e.name = lines[i].name
      BY <2>2, EntriesOfLines
    <2> QED
      BY <2>1, <2>3
  <1> QED
    BY <1>1, <1>2

LEMMA EncodingsOfLines ==
  ASSUME NEW lines \in Seq(HeaderLines), NEW entries, ParsedAs(entries, lines)
  PROVE  /\ \A e \in Encodings(entries) : e.value = <<"gzip">>
         /\ Encodings(entries) # {} <=>
              \E i \in DOMAIN lines : LowerOf[lines[i].name] = "encoding"
PROOF
  <1>1. \A i \in DOMAIN lines : LowerOf[lines[i].name] = "encoding" => lines[i].value = "gzip"
    <2>1. \A i \in DOMAIN lines : lines[i] \in HeaderLines
      OBVIOUS
    <2> QED
      BY <2>1, HeaderLineFacts
  <1>2. /\ \A e \in EntrySet(entries) : LowerOf[e.name] = "encoding" =>
             \E v \in ValuesIn(lines, "encoding") : e.value = <<v>>
        /\ ValuesIn(lines, "encoding") # {} =>
             \E e \in EntrySet(entries) : LowerOf[e.name] = "encoding"
    BY SameLower
  <1>3. \A v \in ValuesIn(lines, "encoding") : v = "gzip"
    BY <1>1 DEF ValuesIn
  <1>4. ValuesIn(lines, "encoding") # {} <=>
          \E i \in DOMAIN lines : LowerOf[lines[i].name] = "encoding"
    BY DEF ValuesIn
  <1> QED
    BY <1>2, <1>3, <1>4 DEF Encodings

----------------------------------------------------------------------------
(* The end of a request *)

Requests ==
  [groups : Seq(Groups), trailers : Seq(HeaderLines), chunks : Chunks, parsing : BOOLEAN,
   lower : BOOLEAN, own : SUBSET {"json", "image"}]

\* What parseHeaders() makes of a request: an object for each response, a last one
\* for trailers, and the code of the first that the decoder may have spoilt.
ParsedOf(r, infos) ==
  /\ infos \in Seq(Infos)
  /\ Len(infos) = Len(r.groups) + (IF r.trailers = <<>> THEN 0 ELSE 1)
  /\ \A k \in 1 .. Len(infos) : \E lines \in Seq(HeaderLines) : ParsedAs(infos[k].entries, lines)
  /\ \A k \in 1 .. Len(r.groups) :
       /\ infos[k].code \in {r.groups[k].code, "?"} /\ (k > 1 => infos[k].code # "?")
       /\ ParsedAs(infos[k].entries, r.groups[k].lines)

Shown(infos, lower) ==
  IF lower THEN [i \in DOMAIN infos |-> [infos[i] EXCEPT !.entries = LowerCase(@)]] ELSE infos

LEMMA ParsedOfRequest ==
  ASSUME NEW r \in Requests
  PROVE  ParsedOf(r, ParseHeaders(LinesOf(r.groups, r.trailers)))
PROOF
  <1> DEFINE groups == r.groups
             trailers == r.trailers
             parsed == ParseHeaders(LinesOf(groups, trailers))
             n == Len(groups)
  <1>1. groups \in Seq(Groups) /\ trailers \in Seq(HeaderLines)
    BY DEF Requests
  <1> HIDE DEF groups, trailers
  <1>2. PICK result :
          /\ Told(result, groups, n)
          /\ trailers = <<>> => parsed = result
          /\ trailers # <<>> => \E entries :
               /\ ParsedAs(entries, Tail(trailers))
               /\ parsed = Append(result, [code |-> "NaN", entries |-> entries])
    BY <1>1, ParsedGroups
  <1> HIDE DEF parsed
  <1>3. n \in Nat /\ \A k \in 1 .. n : groups[k] \in Groups
    BY <1>1
  <1>4. \A k \in 1 .. n : groups[k].lines \in Seq(HeaderLines) /\ groups[k].code # "?"
    BY <1>3, GroupFacts
  <1>5. /\ result \in Seq(Infos) /\ Len(result) = n
        /\ \A k \in 1 .. n : /\ result[k].code = groups[k].code
                             /\ ParsedAs(result[k].entries, groups[k].lines)
    BY <1>2 DEF Told
  <1>6. CASE trailers = <<>>
    <2>1. parsed = result /\ Len(parsed) = n + (IF trailers = <<>> THEN 0 ELSE 1)
      BY <1>2, <1>3, <1>5, <1>6
    <2> HIDE DEF n
    <2>2. /\ parsed \in Seq(Infos) /\ Len(parsed) = n
          /\ \A k \in 1 .. n : /\ parsed[k].code = groups[k].code
                               /\ ParsedAs(parsed[k].entries, groups[k].lines)
      BY <1>5, <2>1
    <2>3. \A k \in 1 .. Len(parsed) : \E lines \in Seq(HeaderLines) :
            ParsedAs(parsed[k].entries, lines)
      BY <1>4, <2>2
    <2> QED
      BY <1>4, <2>1, <2>2, <2>3 DEF ParsedOf, groups, trailers, parsed, n
  <1>7. CASE trailers # <<>>
    <2>1. PICK entries :
            /\ ParsedAs(entries, Tail(trailers))
            /\ parsed = Append(result, [code |-> "NaN", entries |-> entries])
      BY <1>2, <1>7
    <2> DEFINE info == [code |-> "NaN", entries |-> entries]
    <2>2. info \in Infos /\ info.entries = entries
      BY <2>1, TextsAre DEF Infos, ParsedAs
    <2> HIDE DEF info
    <2>3. parsed = Append(result, info)
      BY <2>1 DEF info
    <2> HIDE DEF n
    <2>4. /\ parsed \in Seq(Infos) /\ Len(parsed) = n + 1 /\ parsed[n + 1] = info
          /\ \A k \in 1 .. n : parsed[k] = result[k]
      BY <1>3, <1>5, <2>2, <2>3
    <2>5. \A k \in 1 .. n : /\ parsed[k].code = groups[k].code
                            /\ ParsedAs(parsed[k].entries, groups[k].lines)
      BY <1>5, <2>4
    <2>6. Tail(trailers) \in Seq(HeaderLines) /\ ParsedAs(parsed[n + 1].entries, Tail(trailers))
      BY <1>1, <1>7, <2>1, <2>2, <2>4
    <2>7. \A k \in 1 .. n + 1 : k \in 1 .. n \/ k = n + 1
      BY <1>3
    <2>8. \A k \in 1 .. Len(parsed) : \E lines \in Seq(HeaderLines) :
            ParsedAs(parsed[k].entries, lines)
      BY <1>4, <2>4, <2>5, <2>6, <2>7
    <2>9. Len(parsed) = n + (IF trailers = <<>> THEN 0 ELSE 1)
      BY <1>7, <2>4
    <2> QED
      BY <1>4, <2>4, <2>5, <2>8, <2>9 DEF ParsedOf, groups, trailers, parsed, n
  <1> QED
    BY <1>6, <1>7

\* A byte that the decoder holds spoils the first code and nothing else.
LEMMA SpoiltParsed ==
  ASSUME NEW r \in Requests, NEW infos, ParsedOf(r, infos), infos # <<>>
  PROVE  ParsedOf(r, [infos EXCEPT ![1].code = "?"])
PROOF
  <1> DEFINE spoilt == [infos EXCEPT ![1].code = "?"]
             n == Len(infos)
             m == Len(r.groups)
  <1>1. /\ infos \in Seq(Infos)
        /\ n = m + (IF r.trailers = <<>> THEN 0 ELSE 1)
        /\ \A k \in 1 .. n : \E lines \in Seq(HeaderLines) : ParsedAs(infos[k].entries, lines)
        /\ \A k \in 1 .. m :
             /\ infos[k].code \in {r.groups[k].code, "?"} /\ (k > 1 => infos[k].code # "?")
             /\ ParsedAs(infos[k].entries, r.groups[k].lines)
    BY DEF ParsedOf
  <1>2. n \in Nat /\ DOMAIN infos = 1 .. n /\ 1 \in 1 .. n /\ \A k \in 1 .. n : infos[k] \in Infos
    <2>1. infos \in Seq(Infos) /\ infos # <<>>
      BY <1>1
    <2> HIDE DEF spoilt, m
    <2> QED
      BY <2>1
  <1>3. m \in Nat
    <2>1. r.groups \in Seq(Groups)
      BY DEF Requests
    <2> QED
      BY <2>1
  <1>4. spoilt = [k \in 1 .. n |-> IF k = 1 THEN [infos[k] EXCEPT !.code = "?"] ELSE infos[k]]
    BY <1>2
  <1> HIDE DEF spoilt
  <1>5. infos[1].entries \in Seq(Entry) /\ infos[1] = [code |-> infos[1].code,
                                                       entries |-> infos[1].entries]
    BY <1>2 DEF Infos
  <1>6. [infos[1] EXCEPT !.code = "?"] = [code |-> "?", entries |-> infos[1].entries]
    BY <1>5
  <1>7. /\ spoilt[1] = [code |-> "?", entries |-> infos[1].entries]
        /\ \A k \in 1 .. n : k # 1 => spoilt[k] = infos[k]
    BY <1>2, <1>4, <1>6
  <1>8. \A k \in 1 .. n : spoilt[k].entries = infos[k].entries
    BY <1>7
  <1>9. spoilt \in [1 .. n -> Infos]
    <2>1. [code |-> "?", entries |-> infos[1].entries] \in Infos
      BY <1>5, TextsAre DEF Infos
    <2>2. \A k \in 1 .. n : spoilt[k] \in Infos
      BY <1>2, <1>7, <2>1
    <2>3. spoilt = [k \in 1 .. n |-> spoilt[k]]
      BY <1>4
    <2> QED
      BY <2>2, <2>3, Zenon
  <1>10. spoilt \in Seq(Infos) /\ Len(spoilt) = n
    <2> HIDE DEF n
    <2> QED
      BY <1>2, <1>9, FunctionIsSeq
  <1>11. \A k \in 1 .. m : k \in 1 .. n
    <2>1. n = m + (IF r.trailers = <<>> THEN 0 ELSE 1)
      BY <1>1
    <2> HIDE DEF n, m
    <2>2. CASE r.trailers = <<>>
      BY <1>2, <1>3, <2>1, <2>2
    <2>3. CASE r.trailers # <<>>
      BY <1>2, <1>3, <2>1, <2>3
    <2> QED
      BY <2>2, <2>3
  <1>12. \A k \in 1 .. n : \E lines \in Seq(HeaderLines) : ParsedAs(spoilt[k].entries, lines)
    BY <1>1, <1>8
  <1>13. \A k \in 1 .. m :
           /\ spoilt[k].code \in {r.groups[k].code, "?"} /\ (k > 1 => spoilt[k].code # "?")
           /\ ParsedAs(spoilt[k].entries, r.groups[k].lines)
    <2>1. ASSUME NEW k \in 1 .. m
          PROVE  /\ spoilt[k].code \in {r.groups[k].code, "?"} /\ (k > 1 => spoilt[k].code # "?")
                 /\ ParsedAs(spoilt[k].entries, r.groups[k].lines)
      <3>1. ParsedAs(spoilt[k].entries, r.groups[k].lines)
        BY <1>1, <1>8, <1>11
      <3>2. CASE k = 1
        <4>1. spoilt[k].code = "?" /\ ~(k > 1)
          BY <1>7, <3>2
        <4> QED
          BY <3>1, <4>1
      <3>3. CASE k # 1
        BY <1>1, <1>7, <1>11, <3>1, <3>3
      <3> QED
        BY <3>2, <3>3
    <2> QED
      BY <2>1
  <1> QED
    BY <1>1, <1>10, <1>12, <1>13 DEF ParsedOf, spoilt

LEMMA LinesUpToType ==
  ASSUME NEW n \in Nat
  PROVE  LinesUpTo(n) \subseteq Seq(HeaderLines)
PROOF
  <1>1. ASSUME NEW h \in LinesUpTo(n)
        PROVE  h \in Seq(HeaderLines)
    <2>1. PICK k \in 0 .. n : h \in [1 .. k -> HeaderLines]
      BY DEF LinesUpTo
    <2>2. k \in Nat
      OBVIOUS
    <2> QED
      BY <2>1, <2>2, FunctionIsSeq
  <1> QED
    BY <1>1

LEMMA GroupType ==
  ASSUME NEW code \in Codes, NEW lines \in Seq(HeaderLines)
  PROVE  Group(code, lines) \in Groups
BY DEF Group, Groups

LEMMA RequestType ==
  ASSUME NEW groups \in Seq(Groups), NEW trailers \in Seq(HeaderLines), NEW chunks \in Chunks,
         NEW parsing \in BOOLEAN, NEW lower \in BOOLEAN, NEW own \in SUBSET {"json", "image"}
  PROVE  [groups |-> groups, trailers |-> trailers, chunks |-> chunks, parsing |-> parsing,
          lower |-> lower, own |-> own] \in Requests
BY DEF Requests

LEMMA GroupsAreTyped ==
  /\ \A groups \in GroupsOf : groups \in Seq(Groups) /\ TrailersOf(groups) \subseteq Seq(HeaderLines)
  /\ <<>> \in Seq(Groups) /\ Plain \in Seq(Groups) /\ <<>> \in Seq(HeaderLines)
PROOF
  <1>1. "200" \in Codes /\ "301" \in Codes
    BY DEF Codes
  <1>2. LinesUpTo(MaxLines) \subseteq Seq(HeaderLines) /\ LinesUpTo(1) \subseteq Seq(HeaderLines)
    BY BoundsAreNatural, LinesUpToType
  <1>3. /\ \A x \in Groups : <<x>> \in Seq(Groups)
        /\ \A x, y \in Groups : <<x, y>> \in Seq(Groups)
        /\ <<>> \in Seq(Groups) /\ <<>> \in Seq(HeaderLines)
    OBVIOUS
  <1>4. ASSUME NEW groups \in GroupsOf
        PROVE  groups \in Seq(Groups)
    <2>1. CASE groups = <<>>
      BY <1>3, <2>1
    <2>2. CASE groups \in {<<Group("200", h)>> : h \in LinesUpTo(MaxLines)}
      <3>1. PICK h \in LinesUpTo(MaxLines) : groups = <<Group("200", h)>>
        BY <2>2
      <3>2. Group("200", h) \in Groups
        BY <1>1, <1>2, GroupType
      <3> QED
        BY <1>3, <3>1, <3>2
    <2>3. CASE groups \in {<<Group("301", g), Group("200", h)>> :
                             g \in LinesUpTo(1), h \in LinesUpTo(MaxLines)}
      <3>1. PICK g \in LinesUpTo(1), h \in LinesUpTo(MaxLines) :
              groups = <<Group("301", g), Group("200", h)>>
        BY <2>3
      <3>2. Group("301", g) \in Groups /\ Group("200", h) \in Groups
        BY <1>1, <1>2, GroupType
      <3> QED
        BY <1>3, <3>1, <3>2
    <2> QED
      BY <2>1, <2>2, <2>3 DEF GroupsOf
  <1>5. \A groups : TrailersOf(groups) \subseteq Seq(HeaderLines)
    BY <1>2, <1>3 DEF TrailersOf
  <1>6. Plain \in Seq(Groups)
    <2> DEFINE line == Header("Type", "text")
    <2>1. line \in HeaderLines
      BY NamesAre DEF HeaderLines, ValuesOf
    <2> HIDE DEF line
    <2>2. <<line>> \in Seq(HeaderLines)
      BY <2>1
    <2>3. Group("200", <<line>>) \in Groups
      BY <1>1, <2>2, GroupType
    <2> QED
      BY <1>3, <2>3 DEF Plain, line
  <1> QED
    BY <1>3, <1>4, <1>5, <1>6

LEMMA ChunksAreTyped ==
  /\ <<<<"a">>>> \in Chunks
  /\ \A whole \in Bodies : SplitsOf(whole) \subseteq Chunks
PROOF
  <1>1. /\ \A x \in Seq(Bytes) : <<x>> \in Chunks
        /\ \A x, y \in Seq(Bytes) : <<x, y>> \in Chunks
    BY DEF Chunks
  <1>2. <<"a">> \in Seq(Bytes)
    <2>1. "a" \in Bytes
      BY DEF Bytes
    <2> QED
      BY <2>1
  <1>3. ASSUME NEW whole \in Bodies, NEW n \in 0 .. Len(whole)
        PROVE  SubSeq(whole, 1, n) \in Seq(Bytes) /\ SubSeq(whole, n + 1, Len(whole)) \in Seq(Bytes)
    <2>1. PICK m \in 0 .. MaxBody : whole \in [1 .. m -> Bytes]
      BY DEF Bodies
    <2>2. m \in Nat
      BY BoundsAreNatural
    <2>3. whole \in Seq(Bytes) /\ Len(whole) \in Nat
      BY <2>1, <2>2, FunctionIsSeq
    <2> QED
      BY <2>3
  <1> QED
    BY <1>1, <1>2, <1>3 DEF SplitsOf

\* Every step of the model that ends a request ends one of a request of this shape;
\* what is proved of it holds for requests of any length.
LEMMA EndsARequest ==
  ASSUME CurlyEnds \/ CurlEnds
  PROVE  \E r \in Requests : End(r)
PROOF
  <1>1. CASE CurlyEnds
    <2>1. PICK groups \in GroupsOf, lower \in BOOLEAN, own \in SUBSET {"json", "image"} :
            \E trailers \in TrailersOf(groups) :
              End([groups |-> groups, trailers |-> trailers, chunks |-> <<<<"a">>>>,
                   parsing |-> FALSE, lower |-> lower, own |-> own])
      BY <1>1 DEF CurlyEnds
    <2>2. PICK trailers \in TrailersOf(groups) :
            End([groups |-> groups, trailers |-> trailers, chunks |-> <<<<"a">>>>,
                 parsing |-> FALSE, lower |-> lower, own |-> own])
      BY <2>1
    <2>3. groups \in Seq(Groups) /\ trailers \in Seq(HeaderLines)
      BY GroupsAreTyped
    <2>4. [groups |-> groups, trailers |-> trailers, chunks |-> <<<<"a">>>>,
           parsing |-> FALSE, lower |-> lower, own |-> own] \in Requests
      BY <2>3, ChunksAreTyped, RequestType
    <2> QED
      BY <2>2, <2>4
  <1>2. CASE CurlEnds
    <2>1. PICK whole \in Bodies, groups \in {<<>>, Plain}, parsing \in BOOLEAN :
            \E chunks \in SplitsOf(whole) :
              End([groups |-> groups, trailers |-> <<>>, chunks |-> chunks, parsing |-> parsing,
                   lower |-> FALSE, own |-> {}])
      BY <1>2 DEF CurlEnds
    <2>2. PICK chunks \in SplitsOf(whole) :
            End([groups |-> groups, trailers |-> <<>>, chunks |-> chunks, parsing |-> parsing,
                 lower |-> FALSE, own |-> {}])
      BY <2>1
    <2>3. groups \in Seq(Groups) /\ <<>> \in Seq(HeaderLines) /\ chunks \in Chunks
      BY GroupsAreTyped, ChunksAreTyped
    <2>4. [groups |-> groups, trailers |-> <<>>, chunks |-> chunks, parsing |-> parsing,
           lower |-> FALSE, own |-> {}] \in Requests
      BY <2>3, RequestType
    <2> QED
      BY <2>2, <2>4
  <1> QED
    BY <1>1, <1>2

\* What a step of End leaves: the caller's objects are those of the request, and the
\* data is that of its chunks.
Delivered(r, infos) ==
  /\ ParsedOf(r, infos)
  /\ lastChar' \in BOOLEAN /\ found' = lastChar /\ response' = r
  /\ data' = IF r.parsing THEN Write(lastChar, FlattenSeq(r.chunks)).text
                          ELSE FlattenSeq(r.chunks)
  /\ FlattenSeq(r.chunks) \in Seq(Bytes)
  /\ headers' = Shown(infos, r.lower)
  /\ parser' = FindParser(r.own, ContentType(infos))
  /\ decoded' = DecodeData(headers')

LEMMA EndDelivers ==
  ASSUME NEW r \in Requests, lastChar \in BOOLEAN, End(r)
  PROVE  \E infos : Delivered(r, infos)
PROOF
  <1> DEFINE flat == FlattenSeq(r.chunks)
             raw == MergeChunks(r.chunks, ChunksLength(r.chunks))
             text == Write(lastChar, raw)
             kept == IF r.parsing THEN text.kept ELSE lastChar
             parsed == ParseHeaders(LinesOf(r.groups, r.trailers))
             infos == IF parsed # <<>> /\ kept THEN [parsed EXCEPT ![1].code = "?"] ELSE parsed
  <1>1. raw = flat /\ flat \in Seq(Bytes)
    <2>1. r.chunks \in Chunks
      BY DEF Requests
    <2> QED
      BY <2>1, MergedWhole
  <1>2. /\ response' = r /\ found' = lastChar
        /\ data' = IF r.parsing THEN text.text ELSE raw
        /\ lastChar' = (kept /\ r.groups = <<>>)
        /\ headers' = Shown(infos, r.lower)
        /\ parser' = FindParser(r.own, ContentType(infos))
        /\ decoded' = DecodeData(Shown(infos, r.lower))
    BY DEF End, Shown
  <1> HIDE DEF flat, raw
  <1>3. ParsedOf(r, infos)
    <2>1. ParsedOf(r, parsed)
      BY ParsedOfRequest
    <2> HIDE DEF parsed, kept
    <2> QED
      BY <2>1, SpoiltParsed
  <1> HIDE DEF infos, kept
  <1>4. lastChar' \in BOOLEAN
    BY <1>2
  <1> HIDE DEF text
  <1>5. data' = IF r.parsing THEN Write(lastChar, flat).text ELSE flat
    BY <1>1, <1>2 DEF text
  <1> QED
    BY <1>1, <1>2, <1>3, <1>4, <1>5 DEF Delivered, flat

\* The names of a header object are different, lowered or not.
LEMMA ShownFacts ==
  ASSUME NEW r \in Requests, NEW infos, ParsedOf(r, infos), NEW lower \in BOOLEAN
  PROVE  /\ DOMAIN Shown(infos, lower) = 1 .. Len(infos)
         /\ Len(Shown(infos, lower)) = Len(infos) /\ Len(infos) \in Nat
         /\ \A k \in 1 .. Len(infos) :
              /\ UniqueNames(Shown(infos, lower)[k].entries)
              /\ Shown(infos, lower)[k].code = infos[k].code
              /\ Shown(infos, lower)[k].entries =
                   IF lower THEN LowerCase(infos[k].entries) ELSE infos[k].entries
PROOF
  <1> DEFINE n == Len(infos)
             shown == Shown(infos, lower)
  <1>1. infos \in Seq(Infos)
    BY DEF ParsedOf
  <1>2. n \in Nat /\ DOMAIN infos = 1 .. n /\ \A k \in 1 .. n : infos[k] \in Infos
    BY <1>1
  <1>3. \A k \in 1 .. n : \E lines \in Seq(HeaderLines) : ParsedAs(infos[k].entries, lines)
    BY DEF ParsedOf
  <1>4. \A k \in 1 .. n : UniqueNames(infos[k].entries) /\ UniqueNames(LowerCase(infos[k].entries))
    <2>1. ASSUME NEW k \in 1 .. n
          PROVE  UniqueNames(infos[k].entries) /\ UniqueNames(LowerCase(infos[k].entries))
      <3> DEFINE entries == infos[k].entries
      <3>1. PICK lines \in Seq(HeaderLines) : ParsedAs(entries, lines)
        BY <1>3
      <3> HIDE DEF entries
      <3>2. /\ entries \in Seq(Entry) /\ UniqueNames(entries)
            /\ \A e \in EntrySet(entries) : e.name \in Names
        BY <3>1 DEF ParsedAs
      <3>3. \A e \in Encodings(entries) : e.value = <<"gzip">>
        BY <3>1, EncodingsOfLines
      <3>4. UniqueNames(LowerCase(entries))
        BY <3>2, <3>3, LowerCaseFacts
      <3> QED
        BY <3>2, <3>4 DEF entries
    <2> QED
      BY <2>1
  <1>5. CASE lower
    <2>1. shown = [k \in 1 .. n |-> [infos[k] EXCEPT !.entries = LowerCase(infos[k].entries)]]
      BY <1>2, <1>5 DEF Shown
    <2> HIDE DEF shown, n
    <2>2. \A k \in 1 .. n : [infos[k] EXCEPT !.entries = LowerCase(infos[k].entries)] =
                              [code |-> infos[k].code, entries |-> LowerCase(infos[k].entries)]
      BY <1>2 DEF Infos
    <2>3. \A k \in 1 .. n : /\ shown[k].code = infos[k].code
                            /\ shown[k].entries = LowerCase(infos[k].entries)
      BY <2>1, <2>2
    <2>4. DOMAIN shown = 1 .. n /\ Len(shown) = n
      BY <1>2, <2>1
    <2> QED
      BY <1>2, <1>4, <1>5, <2>3, <2>4 DEF shown, n
  <1>6. CASE ~lower
    <2>1. shown = infos
      BY <1>6 DEF Shown
    <2> QED
      BY <1>2, <1>4, <1>6, <2>1
  <1> QED
    BY <1>5, <1>6

LEMMA LengthsOfRequest ==
  ASSUME NEW r \in Requests
  PROVE  /\ Len(r.groups) \in Nat /\ DOMAIN r.groups = 1 .. Len(r.groups)
         /\ r.groups # <<>> => Len(r.groups) \in 1 .. Len(r.groups)
         /\ \A k \in 1 .. Len(r.groups) : r.groups[k].lines \in Seq(HeaderLines)
         /\ r.own \in SUBSET {"json", "image"} /\ r.parsing \in BOOLEAN /\ r.lower \in BOOLEAN
PROOF
  <1>1. r.groups \in Seq(Groups)
    BY DEF Requests
  <1>2. \A k \in 1 .. Len(r.groups) : r.groups[k] \in Groups
    BY <1>1
  <1>3. \A k \in 1 .. Len(r.groups) : r.groups[k].lines \in Seq(HeaderLines)
    BY <1>2, GroupFacts
  <1>4. r.own \in SUBSET {"json", "image"} /\ r.parsing \in BOOLEAN /\ r.lower \in BOOLEAN
    BY DEF Requests
  <1> QED
    BY <1>1, <1>3, <1>4

LEMMA DecodeDataType ==
  ASSUME NEW infos
  PROVE  DecodeData(infos) \in {"inflated", "as is", "throws"}
BY DEF DecodeData

LEMMA DeliveredTyped ==
  ASSUME NEW r \in Requests, lastChar \in BOOLEAN, NEW infos, Delivered(r, infos)
  PROVE  DataTypeOK'
PROOF
  <1>1. lastChar' \in BOOLEAN /\ found' \in BOOLEAN /\ ParsedOf(r, infos)
    BY DEF Delivered
  <1>2. \A i \in DOMAIN data' : data'[i] \in Bytes \cup {"two", "?"}
    <2>1. FlattenSeq(r.chunks) \in Seq(Bytes)
      BY DEF Delivered
    <2>2. Write(lastChar, FlattenSeq(r.chunks)) \in Decoders
      BY <2>1, WriteType
    <2>3. Write(lastChar, FlattenSeq(r.chunks)).text \in Seq(Bytes \cup {"two", "?"})
      BY <2>2 DEF Decoders
    <2>4. \/ data' = Write(lastChar, FlattenSeq(r.chunks)).text
          \/ data' = FlattenSeq(r.chunks)
      BY DEF Delivered
    <2>5. data' \in Seq(Bytes \cup {"two", "?"})
      BY <2>1, <2>3, <2>4, SeqMonotonic
    <2> QED
      BY <2>5
  <1>3. decoded' \in {"inflated", "as is", "throws"}
    BY DecodeDataType DEF Delivered
  <1>4. parser'.format \in {"json", "text", "image", "any"} /\ parser'.own \in BOOLEAN
    <2> DEFINE type == ContentType(infos)
    <2>1. r.own \in SUBSET {"json", "image"} /\ parser' = FindParser(r.own, type)
      BY LengthsOfRequest DEF Delivered
    <2> HIDE DEF type
    <2>2. \/ parser' = [format |-> "json", own |-> "json" \in r.own]
          \/ parser' = [format |-> "text", own |-> FALSE]
          \/ parser' = [format |-> "any", own |-> FALSE]
      BY <2>1, FindParserFacts
    <2>3. \E f \in {"json", "text", "any"}, b \in BOOLEAN : parser' = [format |-> f, own |-> b]
      <3>1. ("json" \in r.own) \in BOOLEAN
        OBVIOUS
      <3> QED
        BY <2>2, <3>1, Zenon
    <2> QED
      BY <2>3
  <1>5. \A k \in DOMAIN headers' : UniqueNames(headers'[k].entries)
    <2>1. headers' = Shown(infos, r.lower) /\ r.lower \in BOOLEAN
      BY LengthsOfRequest DEF Delivered
    <2> QED
      BY <1>1, <2>1, ShownFacts
  <1> QED
    BY <1>1, <1>2, <1>3, <1>4, <1>5 DEF DataTypeOK, UniqueNames

LEMMA DeliveredHeaders ==
  ASSUME NEW r \in Requests, lastChar \in BOOLEAN, NEW infos, Delivered(r, infos)
  PROVE  HeadersPerResponse'
PROOF
  <1>1. DataTypeOK'
    BY DeliveredTyped
  <1>2. /\ response' = r /\ ParsedOf(r, infos) /\ headers' = Shown(infos, r.lower)
        /\ r.lower \in BOOLEAN
    BY LengthsOfRequest DEF Delivered
  <1> DEFINE shown == Shown(infos, r.lower)
             n == Len(infos)
  <1>3. /\ Len(shown) = n /\ n \in Nat
        /\ \A k \in 1 .. n :
             /\ shown[k].code = infos[k].code
             /\ shown[k].entries = IF r.lower THEN LowerCase(infos[k].entries)
                                              ELSE infos[k].entries
    BY <1>2, ShownFacts
  <1>4. /\ n = Len(r.groups) + (IF r.trailers = <<>> THEN 0 ELSE 1)
        /\ \A k \in 1 .. Len(r.groups) :
             /\ infos[k].code \in {r.groups[k].code, "?"} /\ (k > 1 => infos[k].code # "?")
             /\ ParsedAs(infos[k].entries, r.groups[k].lines)
    BY <1>2 DEF ParsedOf
  <1>5. Len(r.groups) \in Nat /\ DOMAIN r.groups = 1 .. Len(r.groups)
    BY LengthsOfRequest
  <1> HIDE DEF shown, n
  <1>6. \A k \in 1 .. Len(r.groups) : k \in 1 .. n
    <2> DEFINE m == Len(r.groups)
    <2>1. n = m + (IF r.trailers = <<>> THEN 0 ELSE 1) /\ m \in Nat
      BY <1>4, <1>5
    <2> HIDE DEF m
    <2>2. CASE r.trailers = <<>>
      BY <1>3, <2>1, <2>2 DEF m
    <2>3. CASE r.trailers # <<>>
      BY <1>3, <2>1, <2>3 DEF m
    <2> QED
      BY <2>2, <2>3
  <1>7. ASSUME NEW k \in DOMAIN r.groups
        PROVE  /\ shown[k].code \in {r.groups[k].code, "?"}
               /\ k > 1 => shown[k].code # "?"
               /\ ~r.lower => \A name \in Names \ {"setcookie"} :
                    ValueOf(shown[k].entries, name) = Given(r.groups[k].lines, name)
    <2>1. k \in 1 .. Len(r.groups) /\ k \in 1 .. n
      BY <1>5, <1>6
    <2>2. /\ shown[k].code \in {r.groups[k].code, "?"}
          /\ k > 1 => shown[k].code # "?"
      BY <1>3, <1>4, <2>1
    <2>3. ParsedAs(infos[k].entries, r.groups[k].lines)
      BY <1>4, <2>1
    <2>4. ASSUME ~r.lower
          PROVE  \A name \in Names \ {"setcookie"} :
                   ValueOf(shown[k].entries, name) = Given(r.groups[k].lines, name)
      <3>1. shown[k].entries = infos[k].entries
        BY <1>3, <2>1, <2>4
      <3> QED
        BY <2>3, <3>1 DEF ParsedAs
    <2> QED
      BY <2>2, <2>4
  <1>8. Len(shown) = Len(r.groups) + (IF r.trailers = <<>> THEN 0 ELSE 1)
    BY <1>3, <1>4
  <1>9. headers' = shown
    BY <1>2 DEF shown
  <1> QED
    BY <1>1, <1>2, <1>7, <1>8, <1>9, Zenon DEF HeadersPerResponse

LEMMA DeliveredData ==
  ASSUME NEW r \in Requests, lastChar \in BOOLEAN, NEW infos, Delivered(r, infos)
  PROVE  DataIsOwn'
PROOF
  <1>1. /\ response' = r /\ found' = lastChar
        /\ data' = IF r.parsing THEN Write(lastChar, FlattenSeq(r.chunks)).text
                                ELSE FlattenSeq(r.chunks)
    BY DEF Delivered
  <1>2. CASE r.parsing
    <2>1. ~found' => lastChar = FALSE
      BY <1>1
    <2>2. ~found' => data' = Write(FALSE, FlattenSeq(r.chunks)).text
      BY <1>1, <1>2, <2>1
    <2> QED
      BY <1>1, <1>2, <2>2 DEF DataIsOwn
  <1>3. CASE ~r.parsing
    BY <1>1, <1>3 DEF DataIsOwn
  <1> QED
    BY <1>2, <1>3

\* The last object is that of the final response when there are no trailers.
LEMMA LastIsFinal ==
  ASSUME NEW r \in Requests, NEW infos, ParsedOf(r, infos), r.trailers = <<>>, r.groups # <<>>
  PROVE  /\ Len(infos) = Len(r.groups) /\ infos # <<>> /\ Len(infos) \in 1 .. Len(infos)
         /\ infos[Len(infos)].entries \in Seq(Entry)
         /\ r.groups[Len(r.groups)].lines \in Seq(HeaderLines)
         /\ ParsedAs(infos[Len(infos)].entries, r.groups[Len(r.groups)].lines)
PROOF
  <1>1. /\ Len(r.groups) \in Nat /\ Len(r.groups) \in 1 .. Len(r.groups)
        /\ r.groups[Len(r.groups)].lines \in Seq(HeaderLines)
    BY LengthsOfRequest
  <1>2. /\ Len(infos) = Len(r.groups) + 0 /\ infos \in Seq(Infos)
        /\ ParsedAs(infos[Len(r.groups)].entries, r.groups[Len(r.groups)].lines)
    BY <1>1 DEF ParsedOf
  <1>3. Len(infos) = Len(r.groups)
    BY <1>1, <1>2
  <1>4. infos # <<>>
    BY <1>1, <1>2, <1>3
  <1> QED
    BY <1>1, <1>2, <1>3, <1>4 DEF ParsedAs

\* What the property says of a parser that is chosen.
FinalType(lines, own, chosen) ==
  /\ chosen.format \in {"json", "text"} => chosen.format \in ValuesIn(lines, "type")
  /\ ValuesIn(lines, "type") = {"json"} => chosen = [format |-> "json", own |-> "json" \in own]
  /\ ValuesIn(lines, "type") = {"text"} => chosen.format = "text"

LEMMA DeliveredParser ==
  ASSUME NEW r \in Requests, NEW infos, Delivered(r, infos)
  PROVE  ParsedByFinalType'
PROOF
  <1>1. /\ response' = r /\ ParsedOf(r, infos)
        /\ parser' = FindParser(r.own, ContentType(infos)) /\ r.own \in SUBSET {"json", "image"}
    BY LengthsOfRequest DEF Delivered
  <1>2. ASSUME r.trailers = <<>>, r.groups # <<>>
        PROVE  FinalType(r.groups[Len(r.groups)].lines, r.own, parser')
    <2> DEFINE lines == r.groups[Len(r.groups)].lines
               types == ValuesIn(lines, "type")
               entries == infos[Len(infos)].entries
               type == ContentType(infos)
    <2>1. /\ infos # <<>> /\ entries \in Seq(Entry) /\ lines \in Seq(HeaderLines)
          /\ ParsedAs(entries, lines)
      BY <1>1, <1>2, LastIsFinal
    <2>2. \/ TypeEntries(entries) = {} /\ type = "none"
          \/ \E e \in TypeEntries(entries) : type = e.value[1]
      BY <2>1, ContentTypeFacts
    <2> HIDE DEF lines, entries, type
    <2>3. /\ \A e \in EntrySet(entries) : LowerOf[e.name] = "type" =>
               \E v \in types : e.value = <<v>>
          /\ types # {} => \E e \in EntrySet(entries) : LowerOf[e.name] = "type"
      BY <2>1, SameLower
    <2> HIDE DEF types
    <2>4. \/ types = {} /\ type = "none"
          \/ type \in types
      <3>1. ASSUME NEW e \in TypeEntries(entries)
            PROVE  e.value[1] \in types
        <4>1. PICK v \in types : e.value = <<v>>
          BY <2>3 DEF TypeEntries
        <4> QED
          BY <4>1
      <3>2. TypeEntries(entries) = {} => types = {}
        BY <2>3 DEF TypeEntries
      <3> QED
        BY <2>2, <3>1, <3>2
    <2>5. /\ type = "json" => parser' = [format |-> "json", own |-> "json" \in r.own]
          /\ type = "text" => parser' = [format |-> "text", own |-> FALSE]
          /\ type \notin {"json", "text"} => parser' = [format |-> "any", own |-> FALSE]
      BY <1>1, FindParserFacts DEF type
    <2>6. parser'.format \in {"json", "text"} => parser'.format \in types
      BY <2>4, <2>5
    <2>7. types = {"json"} => parser' = [format |-> "json", own |-> "json" \in r.own]
      BY <2>4, <2>5
    <2>8. types = {"text"} => parser'.format = "text"
      BY <2>4, <2>5
    <2> QED
      BY <2>6, <2>7, <2>8 DEF FinalType, lines, types
  <1>3. response'.trailers = <<>> /\ response'.groups # <<>> =>
          FinalType(response'.groups[Len(response'.groups)].lines, response'.own, parser')
    BY <1>1, <1>2
  <1> QED
    BY <1>3, Zenon DEF ParsedByFinalType, FinalType, ValuesIn

LEMMA DeliveredDecoded ==
  ASSUME NEW r \in Requests, NEW infos, Delivered(r, infos)
  PROVE  InflatesWhatIsEncoded'
PROOF
  <1>1. /\ response' = r /\ ParsedOf(r, infos)
        /\ decoded' = DecodeData(Shown(infos, r.lower)) /\ r.lower \in BOOLEAN
    BY LengthsOfRequest DEF Delivered
  <1>2. ASSUME r.lower, r.trailers = <<>>, r.groups # <<>>
        PROVE  LET lines == r.groups[Len(r.groups)].lines IN
               (decoded' = "inflated") <=> (\E i \in DOMAIN lines : LowerOf[lines[i].name] = "encoding")
    <2> DEFINE lines == r.groups[Len(r.groups)].lines
               entries == infos[Len(infos)].entries
               shown == Shown(infos, r.lower)
    <2>1. /\ Len(infos) \in 1 .. Len(infos)
          /\ entries \in Seq(Entry) /\ lines \in Seq(HeaderLines) /\ ParsedAs(entries, lines)
      BY <1>1, <1>2, LastIsFinal
    <2>2. Len(shown) = Len(infos) /\ shown[Len(infos)].entries = LowerCase(entries)
      BY <1>1, <1>2, <2>1, ShownFacts
    <2>3. shown # <<>>
      <3>1. Len(infos) # 0
        BY <2>1
      <3> HIDE DEF shown
      <3> QED
        BY <2>2, <3>1
    <2> HIDE DEF lines, entries, shown
    <2>4. UniqueNames(entries) /\ \A e \in EntrySet(entries) : e.name \in Names
      BY <2>1 DEF ParsedAs
    <2>5. /\ \A e \in Encodings(entries) : e.value = <<"gzip">>
          /\ Encodings(entries) # {} <=>
               \E i \in DOMAIN lines : LowerOf[lines[i].name] = "encoding"
      BY <2>1, EncodingsOfLines
    <2>6. ValueOf(LowerCase(entries), "encoding") = <<"gzip">> <=> Encodings(entries) # {}
      BY <2>1, <2>4, <2>5, LowerCaseFacts
    <2>7. decoded' = IF ValueOf(LowerCase(entries), "encoding") = <<"gzip">>
                       THEN "inflated" ELSE "as is"
      BY <1>1, <2>2, <2>3 DEF DecodeData, shown
    <2> QED
      BY <2>5, <2>6, <2>7 DEF lines
  <1> QED
    BY <1>1, <1>2 DEF InflatesWhatIsEncoded

----------------------------------------------------------------------------
(* The invariant *)

DataInv ==
  /\ lastChar \in BOOLEAN
  /\ HeadersPerResponse /\ DataIsOwn /\ ParsedByFinalType /\ InflatesWhatIsEncoded

LEMMA EmptyDomain == \A i : i \notin DOMAIN <<>>
OBVIOUS

LEMMA NothingKeeps ==
  ASSUME DataInv, Nothing, UNCHANGED lastChar
  PROVE  DataInv'
PROOF
  <1>1. Idle'
    BY DEF Nothing, Idle
  <1>2. DataTypeOK'
    <2>1. /\ data' = <<>> /\ headers' = <<>> /\ parser' = [format |-> "any", own |-> FALSE]
          /\ decoded' = "as is" /\ found' = FALSE /\ lastChar' \in BOOLEAN
      BY DEF DataInv, Nothing
    <2>2. parser'.format = "any" /\ parser'.own = FALSE
      BY <2>1
    <2>3. found' \in BOOLEAN /\ parser'.own \in BOOLEAN
      BY <2>1, <2>2
    <2> QED
      BY <2>1, <2>2, <2>3, EmptyDomain, Zenon DEF DataTypeOK
  <1>3. lastChar' \in BOOLEAN
    BY DEF DataInv
  <1> QED
    BY <1>1, <1>2, <1>3 DEF DataInv, HeadersPerResponse, DataIsOwn, ParsedByFinalType,
       InflatesWhatIsEncoded, Ended

\* Whatever requests end, one after the other: the invariant is inductive.
THEOREM DataInvariance == DataSpec => []DataInv
PROOF
  <1>1. DataInit => DataInv
    <2> SUFFICES ASSUME DataInit PROVE DataInv
      OBVIOUS
    <2>1. Idle /\ DataTypeOK /\ lastChar \in BOOLEAN
      <3>1. /\ data = <<>> /\ headers = <<>> /\ parser = [format |-> "any", own |-> FALSE]
            /\ decoded = "as is" /\ Idle
            /\ found \in BOOLEAN /\ lastChar \in BOOLEAN
        BY DEF DataInit, Idle
      <3>2. parser.format = "any" /\ parser.own \in BOOLEAN
        BY <3>1
      <3> QED
        BY <3>1, <3>2, EmptyDomain, Zenon DEF DataTypeOK
    <2> QED
      BY <2>1 DEF DataInv, HeadersPerResponse, DataIsOwn, ParsedByFinalType,
         InflatesWhatIsEncoded, Ended
  <1>2. DataInv /\ [DataNext]_dataVars => DataInv'
    <2> SUFFICES ASSUME DataInv, [DataNext]_dataVars PROVE DataInv'
      OBVIOUS
    <2>1. CASE CurlyEnds \/ CurlEnds
      <3>1. lastChar \in BOOLEAN
        BY DEF DataInv
      <3>2. PICK r \in Requests : End(r)
        BY <2>1, EndsARequest
      <3>3. PICK infos : Delivered(r, infos)
        BY <3>1, <3>2, EndDelivers
      <3>4. lastChar' \in BOOLEAN
        BY <3>3 DEF Delivered
      <3> QED
        BY <3>1, <3>3, <3>4, DeliveredHeaders, DeliveredData, DeliveredParser,
           DeliveredDecoded DEF DataInv
    <2>2. CASE Nothing /\ UNCHANGED lastChar
      BY <2>2, NothingKeeps
    <2>3. CASE UNCHANGED dataVars
      <3>1. /\ lastChar' = lastChar /\ response' = response /\ found' = found /\ data' = data
            /\ headers' = headers /\ parser' = parser /\ decoded' = decoded
        BY <2>3 DEF dataVars
      <3>2. lastChar' \in BOOLEAN
        BY <3>1 DEF DataInv
      <3>3. HeadersPerResponse'
        BY <3>1 DEF DataInv, HeadersPerResponse, DataTypeOK, Ended, Idle
      <3>4. DataIsOwn'
        BY <3>1 DEF DataInv, DataIsOwn, Ended, Idle
      <3>5. ParsedByFinalType'
        <4>1. response # NoResponse /\ response.trailers = <<>> /\ response.groups # <<>> =>
                FinalType(response.groups[Len(response.groups)].lines, response.own, parser)
          BY Zenon DEF DataInv, ParsedByFinalType, FinalType, ValuesIn, Ended, Idle
        <4>2. response' # NoResponse /\ response'.trailers = <<>> /\ response'.groups # <<>> =>
                FinalType(response'.groups[Len(response'.groups)].lines, response'.own, parser')
          BY <3>1, <4>1
        <4> QED
          BY <4>2, Zenon DEF ParsedByFinalType, FinalType, ValuesIn, Ended, Idle
      <3>6. InflatesWhatIsEncoded'
        BY <3>1 DEF DataInv, InflatesWhatIsEncoded, Ended, Idle
      <3> QED
        BY <3>2, <3>3, <3>4, <3>5, <3>6 DEF DataInv
    <2> QED
      BY <2>1, <2>2, <2>3 DEF DataNext
  <1> QED
    BY <1>1, <1>2, PTL DEF DataSpec

\* Each response has its own object with its code and its headers, in every state:
\* for header groups of any length (parseHeaders).
THEOREM HeadersPerResponseHolds == DataSpec => []HeadersPerResponse
PROOF
  <1>1. DataInv => HeadersPerResponse
    BY DEF DataInv
  <1> QED
    BY <1>1, DataInvariance, PTL

\* The data is that of the request's own chunks, however it was cut (mergeChunks and
\* the decoder).
THEOREM DataIsOwnHolds == DataSpec => []DataIsOwn
PROOF
  <1>1. DataInv => DataIsOwn
    BY DEF DataInv
  <1> QED
    BY <1>1, DataInvariance, PTL

\* The body goes to the parser of the final response's type (curly).
THEOREM ParsedByFinalTypeHolds == DataSpec => []ParsedByFinalType
PROOF
  <1>1. DataInv => ParsedByFinalType
    BY DEF DataInv
  <1> QED
    BY <1>1, DataInvariance, PTL

\* decodeData() inflates exactly what is encoded when the names are lowered.
THEOREM InflatesWhatIsEncodedHolds == DataSpec => []InflatesWhatIsEncoded
PROOF
  <1>1. DataInv => InflatesWhatIsEncoded
    BY DEF DataInv
  <1> QED
    BY <1>1, DataInvariance, PTL

=============================================================================
