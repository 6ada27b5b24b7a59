-------------------------- MODULE SocketWatchProofs --------------------------
(***************************************************************************)
(* Proofs about SocketWatch, for every number of Multis, Easies and        *)
(* descriptors and callers that keep to the rules.                         *)
(***************************************************************************)
EXTENDS SocketWatch, WellFoundedInduction, TLAPS

----------------------------------------------------------------------------
(* The inductive invariant *)

\* What libcurl has for the descriptor fd is what the map of the Multi has, and
\* the context is open, for this descriptor, and polls it.
Linked(m, fd) ==
  /\ socketContextMap[m][fd] = socketp[m][fd]
  /\ socketp[m][fd] # Nil =>
       /\ multi[m] = "open" /\ owner[fd] = m
       /\ watcher[fd] = socketp[m][fd]
       /\ context[socketp[m][fd]] = [state |-> "open", fd |-> fd, multi |-> m]

\* Who polls a descriptor was asked to.
Heard(fd) ==
  /\ watcher[fd] \in Contexts =>
       /\ context[watcher[fd]].multi \in Multis
       /\ socketp[context[watcher[fd]].multi][fd] = watcher[fd]
  /\ watcher[fd] \in Easies => socket[watcher[fd]] = fd /\ monitors[watcher[fd]]

Watching ==
  /\ \A m \in Multis, fd \in Fds : Linked(m, fd)
  /\ \A fd \in Fds : Heard(fd)
  /\ \A e \in Easies : socket[e] # Nil => owner[socket[e]] = e

\* The context of an OnSocket that runs inside libcurl exists.
Calling ==
  onSocket.stage = "acting" =>
    onSocket.context \in Contexts /\ context[onSocket.context].state # "free"

\* Timers are closed at the end of the environment only, and Multis after them.
Ticking ==
  /\ \A m \in Multis : multi[m] = "collected" => timer[m] = "closed"
  /\ ~teardown => \A m \in Multis : timer[m] \in {"stopped", "armed"}

IInv ==
  /\ TypeOK
  /\ ~aborted
  /\ Watching
  /\ Calling
  /\ Ticking

----------------------------------------------------------------------------
(* Lemmas on parts of steps *)

\* The free context with the least number is one of them.
LEMMA MinOfContexts ==
  ASSUME NEW S \in SUBSET Contexts, S # {}
  PROVE  Min(S) \in S
<1>1. S \subseteq Nat
  BY KindsDiffer
<1>2. PICK x \in S : \A y \in S : ~ (<<y, x>> \in OpToRel(<, Nat))
  BY <1>1, NatLessThanWellFounded, WFMin
<1>3. \A y \in S : ~ (y < x)
  BY <1>1, <1>2, Zenon DEF OpToRel
<1>4. \E z \in S : \A y \in S : z =< y
  BY <1>1, <1>3
<1>. QED
  BY <1>4, Zenon DEF Min

\* Who watches what stays when descriptors, contexts and polls do, and no Multi
\* is closed.
LEMMA WatchingFrame ==
  ASSUME Watching, UNCHANGED <<owner, contexts, watcher, monitors, socket>>,
         \A m \in Multis : multi[m] = "open" => multi'[m] = "open"
  PROVE  Watching'
<1>. USE DEF contexts
<1>1. ASSUME NEW m \in Multis, NEW fd \in Fds
      PROVE  Linked(m, fd)'
  <2>1. Linked(m, fd)
    BY DEF Watching
  <2>. QED
    BY <2>1 DEF Linked
<1>2. \A fd \in Fds : Heard(fd)'
  BY DEF Watching, Heard
<1>. QED
  BY <1>1, <1>2 DEF Watching

\* A context belongs to one descriptor of one Multi.
LEMMA OneContext ==
  ASSUME Watching, NEW m \in Multis, NEW n \in Multis, NEW fd \in Fds, NEW gd \in Fds,
         socketp[m][fd] # Nil, socketp[m][fd] = socketp[n][gd]
  PROVE  m = n /\ fd = gd
<1>1. Linked(m, fd) /\ Linked(n, gd)
  BY DEF Watching
<1>. QED
  BY <1>1 DEF Linked

\* A descriptor that libcurl uses for m is polled by a context of m, which m has
\* told libcurl about, or by nobody.
LEMMA OwnWatcher ==
  ASSUME TypeOK, Watching, NEW m \in Multis, NEW fd \in Fds, owner[fd] = m
  PROVE  watcher[fd] # Nil => socketp[m][fd] = watcher[fd]
<1>1. Heard(fd) /\ \A n \in Multis : Linked(n, fd)
  BY DEF Watching
<1>2. CASE watcher[fd] \in Contexts
  <2>1. PICK n \in Multis : n = context[watcher[fd]].multi /\ socketp[n][fd] = watcher[fd]
    BY <1>1, <1>2 DEF Heard
  <2>2. n = m
    <3>1. Linked(n, fd) /\ socketp[n][fd] # Nil
      BY <1>1, <1>2, <2>1, KindsDiffer
    <3>. QED
      BY <3>1 DEF Linked
  <2>. QED
    BY <2>1, <2>2
<1>3. watcher[fd] \notin Easies
  <2>1. SUFFICES ASSUME watcher[fd] \in Easies PROVE FALSE
    OBVIOUS
  <2>2. owner[fd] = watcher[fd]
    BY <1>1, <2>1, KindsDiffer DEF Heard, Watching
  <2>. QED
    BY <2>1, <2>2, KindsDiffer
<1>. QED
  BY <1>2, <1>3 DEF TypeOK

\* CURL_POLL_REMOVE takes the contexts of these descriptors, and nothing else.
LEMMA RemoveFacts ==
  ASSUME IInv, NEW m \in Multis, NEW F \in SUBSET Fds, RemoveAll(m, F)
  PROVE  /\ watcher' \in [Fds -> Contexts \cup Easies \cup {Nil}]
         /\ socketp' \in [Multis -> [Fds -> Contexts \cup {Nil}]]
         /\ socketContextMap' \in [Multis -> [Fds -> Contexts \cup {Nil}]]
         /\ context' \in [Contexts -> [state : {"free", "open", "closing"},
                                       fd : Fds \cup {Nil}, multi : Multis \cup {Nil}]]
         /\ \A fd \in F : socketp'[m][fd] = Nil /\ socketContextMap'[m][fd] = Nil
         /\ \A n \in Multis, fd \in Fds : n # m \/ fd \notin F =>
              /\ socketp'[n][fd] = socketp[n][fd]
              /\ socketContextMap'[n][fd] = socketContextMap[n][fd]
              /\ socketp[n][fd] # Nil =>
                   /\ watcher'[fd] = watcher[fd]
                   /\ context'[socketp[n][fd]] = context[socketp[n][fd]]
         /\ \A fd \in Fds : \/ watcher'[fd] = Nil
                            \/ /\ watcher'[fd] = watcher[fd]
                               /\ \A gd \in F : watcher[fd] # socketp[m][gd]
         /\ \A c \in Contexts : /\ context'[c].multi = context[c].multi
                                /\ context[c].state # "free" => context'[c].state # "free"
<1>. DEFINE C == {socketp[m][fd] : fd \in F} \ {Nil}
<1>1. /\ watcher' = [fd \in Fds |-> IF watcher[fd] \in C THEN Nil ELSE watcher[fd]]
      /\ context' = [c \in Contexts |->
           IF c \in C THEN [context[c] EXCEPT !.state = "closing"] ELSE context[c]]
      /\ socketContextMap' = [n \in Multis |-> [fd \in Fds |->
           IF socketContextMap[n][fd] \in C THEN Nil ELSE socketContextMap[n][fd]]]
      /\ socketp' = [socketp EXCEPT ![m] = [fd \in Fds |-> IF fd \in F THEN Nil ELSE @[fd]]]
  BY DEF RemoveAll, DestroyCurlSocketContext
<1>2. /\ watcher \in [Fds -> Contexts \cup Easies \cup {Nil}]
      /\ socketp \in [Multis -> [Fds -> Contexts \cup {Nil}]]
      /\ socketContextMap \in [Multis -> [Fds -> Contexts \cup {Nil}]]
      /\ context \in [Contexts -> [state : {"free", "open", "closing"},
                                   fd : Fds \cup {Nil}, multi : Multis \cup {Nil}]]
  BY DEF IInv, TypeOK
<1>3. \A n \in Multis, fd \in Fds : Linked(n, fd)
  BY DEF IInv, Watching
<1>4. \A n \in Multis, fd \in Fds : (n # m \/ fd \notin F) => socketp[n][fd] \notin C
  BY OneContext DEF IInv
<1>5. \A fd \in F : socketp[m][fd] \in C \/ socketp[m][fd] = Nil
  OBVIOUS
<1>6. \A fd \in F, gd \in Fds : watcher[gd] \notin C => watcher[gd] = Nil \/ watcher[gd] # socketp[m][fd]
  BY <1>5
<1>. HIDE DEF C
<1>7. socketp' \in [Multis -> [Fds -> Contexts \cup {Nil}]]
  BY <1>1, <1>2
<1>8. /\ watcher' \in [Fds -> Contexts \cup Easies \cup {Nil}]
      /\ socketContextMap' \in [Multis -> [Fds -> Contexts \cup {Nil}]]
  BY <1>1, <1>2
<1>9. context' \in [Contexts -> [state : {"free", "open", "closing"},
                                 fd : Fds \cup {Nil}, multi : Multis \cup {Nil}]]
  BY <1>1, <1>2
<1>10. ASSUME NEW fd \in F PROVE socketp'[m][fd] = Nil /\ socketContextMap'[m][fd] = Nil
  <2>1. socketContextMap[m][fd] = socketp[m][fd]
    BY <1>3 DEF Linked
  <2>2. socketContextMap'[m][fd] = Nil
    BY <2>1, <1>1, <1>5
  <2>3. socketp'[m][fd] = Nil
    BY <1>1, <1>2
  <2>. QED
    BY <2>2, <2>3
<1>11. ASSUME NEW n \in Multis, NEW fd \in Fds, n # m \/ fd \notin F
       PROVE  /\ socketp'[n][fd] = socketp[n][fd]
              /\ socketContextMap'[n][fd] = socketContextMap[n][fd]
              /\ socketp[n][fd] # Nil =>
                   /\ watcher'[fd] = watcher[fd]
                   /\ context'[socketp[n][fd]] = context[socketp[n][fd]]
  <2>1. socketp'[n][fd] = socketp[n][fd]
    BY <1>1, <1>2, <1>11
  <2>2. socketp[n][fd] \notin C /\ Linked(n, fd) /\ socketp[n][fd] \in Contexts \cup {Nil}
    BY <1>2, <1>3, <1>4, <1>11
  <2>3. socketContextMap'[n][fd] = socketContextMap[n][fd]
    BY <2>2, <1>1 DEF Linked
  <2>4. socketp[n][fd] # Nil =>
          watcher'[fd] = watcher[fd] /\ context'[socketp[n][fd]] = context[socketp[n][fd]]
    BY <2>2, <1>1 DEF Linked
  <2>. QED
    BY <2>1, <2>3, <2>4
<1>12. \A fd \in Fds : \/ watcher'[fd] = Nil
                       \/ /\ watcher'[fd] = watcher[fd]
                          /\ \A gd \in F : watcher[fd] # socketp[m][gd]
  BY <1>1, <1>6
<1>13. ASSUME NEW c \in Contexts
       PROVE  /\ context'[c].multi = context[c].multi
              /\ context[c].state # "free" => context'[c].state # "free"
  BY <1>1, <1>2
<1>. QED
  BY <1>7, <1>8, <1>9, <1>10, <1>11, <1>12, <1>13

\* ... so that the other descriptors are watched as before.
LEMMA RemoveKeepsWatching ==
  ASSUME IInv, NEW m \in Multis, NEW F \in SUBSET Fds, RemoveAll(m, F),
         UNCHANGED <<monitors, socket>>,
         \A n \in Multis \ {m} : multi'[n] = multi[n],
         multi'[m] = multi[m] \/ F = Fds,
         \A fd \in Fds : owner'[fd] = owner[fd] \/ (owner[fd] = m /\ F = Fds)
  PROVE  Watching'
<1>1. /\ \A fd \in F : socketp'[m][fd] = Nil /\ socketContextMap'[m][fd] = Nil
      /\ \A n \in Multis, fd \in Fds : n # m \/ fd \notin F =>
           /\ socketp'[n][fd] = socketp[n][fd]
           /\ socketContextMap'[n][fd] = socketContextMap[n][fd]
           /\ socketp[n][fd] # Nil =>
                /\ watcher'[fd] = watcher[fd]
                /\ context'[socketp[n][fd]] = context[socketp[n][fd]]
      /\ \A fd \in Fds : \/ watcher'[fd] = Nil
                         \/ /\ watcher'[fd] = watcher[fd]
                            /\ \A gd \in F : watcher[fd] # socketp[m][gd]
      /\ \A c \in Contexts : context'[c].multi = context[c].multi
  BY RemoveFacts
<1>2. ASSUME NEW n \in Multis, NEW fd \in Fds PROVE Linked(n, fd)'
  <2>1. Linked(n, fd)
    BY DEF IInv, Watching
  <2>2. CASE n = m /\ fd \in F
    BY <2>2, <1>1 DEF Linked
  <2>3. CASE n # m \/ fd \notin F
    <3>1. socketp[n][fd] # Nil => multi'[n] = multi[n] /\ owner'[fd] = owner[fd]
      BY <2>1, <2>3 DEF Linked
    <3>. QED
      BY <2>1, <2>3, <3>1, <1>1 DEF Linked
  <2>. QED
    BY <2>2, <2>3
<1>3. ASSUME NEW fd \in Fds PROVE Heard(fd)'
  <2>1. Heard(fd)
    BY DEF IInv, Watching
  <2>2. CASE watcher'[fd] = Nil
    BY <2>2, KindsDiffer DEF Heard
  <2>3. CASE watcher'[fd] = watcher[fd] /\ \A gd \in F : watcher[fd] # socketp[m][gd]
    <3>1. ASSUME watcher[fd] \in Contexts
          PROVE  /\ context'[watcher[fd]].multi \in Multis
                 /\ socketp'[context'[watcher[fd]].multi][fd] = watcher[fd]
      <4>1. PICK n \in Multis : n = context[watcher[fd]].multi /\ socketp[n][fd] = watcher[fd]
        BY <2>1, <3>1 DEF Heard
      <4>2. n # m \/ fd \notin F
        BY <2>3, <4>1
      <4>. QED
        BY <3>1, <4>1, <4>2, <1>1
    <3>. QED
      BY <2>1, <2>3, <3>1 DEF Heard
  <2>. QED
    BY <2>2, <2>3, <1>1
<1>4. \A e \in Easies : socket'[e] # Nil => owner'[socket'[e]] = e
  BY KindsDiffer DEF IInv, TypeOK, Watching
<1>. QED
  BY <1>2, <1>3, <1>4 DEF Watching

----------------------------------------------------------------------------
(* The invariant is kept, one lemma for each kind of action *)

\* Steps of timers, of OnSocket and of handles that libuv closes: who watches
\* what is not touched.
LEMMA QuietStep ==
  ASSUME IInv,
         \/ \E m \in Multis : \/ Construct(m) \/ OnTimeout(m) \/ TimerClosed(m)
                              \/ \E t \in {"stopped", "armed"} : SetTimer(m, t)
         \/ AfterAction \/ OnSocketReturns \/ CleanupHookAsync
         \/ \E e \in Easies : PollClosed(e) \/ NewEasy(e)
         \/ UNCHANGED vars
  PROVE  IInv'
<1>. USE DEF contexts, easies
<1>1. CASE \E m \in Multis : Construct(m)
  <2>1. TypeOK'
    BY <1>1 DEF IInv, TypeOK, Construct
  <2>2. Watching'
    BY <1>1, WatchingFrame DEF IInv, TypeOK, Construct
  <2>3. Calling' /\ Ticking'
    BY <1>1 DEF IInv, TypeOK, Calling, Ticking, Construct
  <2>. QED
    BY <1>1, <2>1, <2>2, <2>3 DEF IInv, Construct
<1>2. CASE \E m \in Multis : \/ OnTimeout(m) \/ TimerClosed(m)
                             \/ \E t \in {"stopped", "armed"} : SetTimer(m, t)
  <2>0. PICK m \in Multis : \/ OnTimeout(m) \/ TimerClosed(m)
                              \/ \E t \in {"stopped", "armed"} : SetTimer(m, t)
    BY <1>2
  <2>5. PICK t \in {"stopped", "armed", "closing", "closed"} :
          /\ timer' = [timer EXCEPT ![m] = t]
          /\ timer[m] = "closed" => t = "closed"
          /\ timer[m] \in {"stopped", "armed"} => t \in {"stopped", "armed"}
    <3>1. CASE OnTimeout(m)
      BY <3>1 DEF OnTimeout
    <3>2. CASE TimerClosed(m)
      BY <3>2 DEF TimerClosed
    <3>3. CASE \E t \in {"stopped", "armed"} : SetTimer(m, t)
      <4>1. timer[m] \in {"stopped", "armed", "closing", "closed"}
        BY DEF IInv, TypeOK
      <4>. QED
        BY <3>3, <4>1 DEF SetTimer, HandleTimeout
    <3>. QED
      BY <2>0, <3>1, <3>2, <3>3
  <2>6. UNCHANGED <<multi, owner, contexts, watcher, onSocket, easies, teardown, aborted>>
    BY <2>0 DEF OnTimeout, TimerClosed, SetTimer
  <2>1. TypeOK'
    BY <2>5, <2>6 DEF IInv, TypeOK
  <2>2. Watching'
    BY <1>2, WatchingFrame DEF IInv, OnTimeout, TimerClosed, SetTimer
  <2>3. Ticking'
    BY <2>5, <2>6 DEF IInv, TypeOK, Ticking
  <2>4. Calling' /\ ~aborted'
    BY <1>2 DEF IInv, Calling, OnTimeout, TimerClosed, SetTimer
  <2>. QED
    BY <2>1, <2>2, <2>3, <2>4 DEF IInv
<1>3. CASE AfterAction \/ OnSocketReturns
  <2>0. onSocket \in [context : Contexts \cup {Nil}, stage : {"none", "acting", "messages"}]
    BY DEF IInv, TypeOK
  <2>1. /\ onSocket' \in [context : Contexts \cup {Nil}, stage : {"none", "acting", "messages"}]
        /\ onSocket'.stage # "acting"
    <3>1. CASE AfterAction
      <4>1. onSocket' = [onSocket EXCEPT !.stage = "messages"]
        BY <3>1 DEF AfterAction
      <4>. QED
        BY <4>1, <2>0
    <3>2. CASE OnSocketReturns
      <4>1. onSocket' = NoCall
        BY <3>2 DEF OnSocketReturns
      <4>. QED
        BY <4>1 DEF NoCall
    <3>. QED
      BY <1>3, <3>1, <3>2
  <2>3. UNCHANGED <<multi, timer, owner, contexts, watcher, easies, teardown, aborted>>
    BY <1>3 DEF AfterAction, OnSocketReturns
  <2>4. TypeOK' /\ Watching' /\ Ticking'
    BY <2>1, <2>3, WatchingFrame DEF IInv, TypeOK, Ticking
  <2>. QED
    BY <2>1, <2>3, <2>4 DEF IInv, Calling
<1>4. CASE CleanupHookAsync
  <2>1. TypeOK' /\ Ticking'
    BY <1>4 DEF IInv, TypeOK, Ticking, CleanupHookAsync, CloseTimerAsync
  <2>2. Watching'
    BY <1>4, WatchingFrame DEF IInv, CleanupHookAsync
  <2>. QED
    BY <1>4, <2>1, <2>2 DEF IInv, Calling, CleanupHookAsync
<1>5. CASE \E e \in Easies : PollClosed(e) \/ NewEasy(e)
  <2>1. poll' \in [Easies -> {"null", "open", "closing", "deleted"}]
    BY <1>5 DEF IInv, TypeOK, PollClosed, NewEasy
  <2>2. \A e \in Easies : monitors'[e] => poll'[e] = "open"
    BY <1>5 DEF IInv, TypeOK, PollClosed, NewEasy
  <2>3. UNCHANGED <<multi, timer, owner, contexts, watcher, onSocket, monitors, socket,
                    teardown, aborted>>
    BY <1>5 DEF PollClosed, NewEasy
  <2>4. Watching' /\ Calling' /\ Ticking'
    BY <2>3, WatchingFrame DEF IInv, Calling, Ticking
  <2>. QED
    BY <2>1, <2>2, <2>3, <2>4 DEF IInv, TypeOK
<1>6. CASE UNCHANGED vars
  <2>1. Watching'
    BY <1>6, WatchingFrame DEF IInv, vars
  <2>. QED
    BY <1>6, <2>1 DEF IInv, TypeOK, Calling, Ticking, vars
<1>. QED
  BY <1>1, <1>2, <1>3, <1>4, <1>5, <1>6

\* libcurl asks for a descriptor: the context it knows, the one of the map, or a
\* new one, for a descriptor that nobody polls.
LEMMA PollStep ==
  ASSUME NEW m \in Multis, NEW fd \in Fds, NEW remembers \in BOOLEAN, IInv,
         Poll(m, fd, remembers)
  PROVE  IInv'
<1>. USE DEF contexts, easies
<1>1. /\ multi[m] = "open" /\ owner[fd] = m /\ Linked(m, fd)
      /\ UNCHANGED <<multi, timer, owner, onSocket, easies, teardown>>
  BY DEF Poll, IInv, Watching
<1>2. CASE \/ socketp[m][fd] # Nil /\ StartPoll(socketp[m][fd], m, fd)
           \/ /\ socketContextMap[m][fd] # Nil
              /\ StartPoll(socketContextMap[m][fd], m, fd)
  <2>1. PICK c \in Contexts : c = socketp[m][fd] /\ c # Nil /\ StartPoll(c, m, fd)
    BY <1>1, <1>2 DEF Linked, IInv, TypeOK
  <2>2. context[c] = [state |-> "open", fd |-> fd, multi |-> m] /\ watcher[fd] = c
    BY <1>1, <2>1 DEF Linked
  <2>3. aborted' = FALSE
    <3>1. aborted' = (context[c].state # "open") /\ context[c].state = "open"
      BY <2>1, <2>2 DEF StartPoll
    <3>. QED
      BY <3>1
  <2>4. watcher' = watcher
    BY <2>1, <2>2 DEF StartPoll, IInv, TypeOK
  <2>5. socketp' = socketp
    BY <2>1 DEF StartPoll, IInv, TypeOK
  <2>6. UNCHANGED contexts
    BY <2>1, <2>5 DEF StartPoll
  <2>7. Watching'
    BY <1>1, <2>4, <2>6, WatchingFrame DEF IInv
  <2>. QED
    BY <1>1, <2>3, <2>4, <2>6, <2>7 DEF IInv, TypeOK, Calling, Ticking
<1>3. CASE /\ socketContextMap[m][fd] = Nil
           /\ \E c \in Contexts : context[c].state = "free"
           /\ LET c == Min({k \in Contexts : context[k].state = "free"}) IN
              /\ aborted' = (watcher[fd] # Nil)
              /\ context' = [context EXCEPT ![c] = [state |-> "open", fd |-> fd, multi |-> m]]
              /\ socketContextMap' = [socketContextMap EXCEPT ![m][fd] = c]
              /\ watcher' = [watcher EXCEPT ![fd] = c]
              /\ socketp' = [socketp EXCEPT ![m][fd] = c]
  <2>1. PICK c \in Contexts : c = Min({k \in Contexts : context[k].state = "free"}) /\ context[c].state = "free"
    <3>. DEFINE free == {k \in Contexts : context[k].state = "free"}
    <3>1. Min(free) \in free
      BY <1>3, MinOfContexts
    <3>. QED
      BY <3>1
  <2>2. watcher[fd] = Nil /\ socketp[m][fd] = Nil
    BY <1>1, <1>3, OwnWatcher DEF Linked, IInv
  <2>3. /\ aborted' = FALSE
        /\ context' = [context EXCEPT ![c] = [state |-> "open", fd |-> fd, multi |-> m]]
        /\ socketContextMap' = [socketContextMap EXCEPT ![m][fd] = c]
        /\ watcher' = [watcher EXCEPT ![fd] = c]
        /\ socketp' = [socketp EXCEPT ![m][fd] = c]
    BY <1>3, <2>1, <2>2
  <2>4. /\ watcher \in [Fds -> Contexts \cup Easies \cup {Nil}]
        /\ socketp \in [Multis -> [Fds -> Contexts \cup {Nil}]]
        /\ socketContextMap \in [Multis -> [Fds -> Contexts \cup {Nil}]]
        /\ context \in [Contexts -> [state : {"free", "open", "closing"},
                                     fd : Fds \cup {Nil}, multi : Multis \cup {Nil}]]
    BY DEF IInv, TypeOK
  <2>5. /\ watcher' \in [Fds -> Contexts \cup Easies \cup {Nil}]
        /\ context' \in [Contexts -> [state : {"free", "open", "closing"},
                                      fd : Fds \cup {Nil}, multi : Multis \cup {Nil}]]
    BY <2>3, <2>4
  <2>6. /\ socketp' \in [Multis -> [Fds -> Contexts \cup {Nil}]]
        /\ socketContextMap' \in [Multis -> [Fds -> Contexts \cup {Nil}]]
    BY <2>3, <2>4
  <2>7. /\ context'[c] = [state |-> "open", fd |-> fd, multi |-> m]
        /\ socketp'[m][fd] = c /\ socketContextMap'[m][fd] = c /\ watcher'[fd] = c
        /\ \A k \in Contexts \ {c} : context'[k] = context[k]
        /\ \A gd \in Fds \ {fd} : watcher'[gd] = watcher[gd]
    BY <2>3, <2>4
  <2>8. \A n \in Multis, gd \in Fds : n # m \/ gd # fd =>
          /\ socketp'[n][gd] = socketp[n][gd]
          /\ socketContextMap'[n][gd] = socketContextMap[n][gd]
    BY <2>3, <2>4
  <2>9. ASSUME NEW n \in Multis, NEW gd \in Fds PROVE Linked(n, gd)'
    <3>1. Linked(n, gd)
      BY DEF IInv, Watching
    <3>2. CASE n = m /\ gd = fd
      BY <3>2, <2>7, <1>1 DEF Linked
    <3>3. CASE n # m \/ gd # fd
      <4>1. socketp[n][gd] # Nil => gd # fd /\ socketp[n][gd] \in Contexts \ {c}
        <5>1. socketp[n][gd] # Nil => gd # fd
          BY <1>1, <3>1, <3>3, <2>2 DEF Linked
        <5>2. socketp[n][gd] # Nil => context[socketp[n][gd]].state = "open"
          BY <3>1 DEF Linked
        <5>. QED
          BY <5>1, <5>2, <2>1, <2>4
      <4>. QED
        BY <1>1, <3>1, <3>3, <4>1, <2>7, <2>8 DEF Linked
    <3>. QED
      BY <3>2, <3>3
  <2>10. ASSUME NEW gd \in Fds PROVE Heard(gd)'
    <3>1. Heard(gd)
      BY DEF IInv, Watching
    <3>2. CASE gd = fd
      BY <3>2, <2>7, KindsDiffer DEF Heard
    <3>3. CASE gd # fd
      <4>1. ASSUME watcher[gd] \in Contexts
            PROVE  /\ context'[watcher[gd]].multi \in Multis
                   /\ socketp'[context'[watcher[gd]].multi][gd] = watcher[gd]
        <5>1. PICK n \in Multis : n = context[watcher[gd]].multi /\ socketp[n][gd] = watcher[gd]
          BY <3>1, <4>1 DEF Heard
        <5>2. Linked(n, gd) /\ watcher[gd] # Nil
          BY <4>1, KindsDiffer DEF IInv, Watching
        <5>3. watcher[gd] # c
          BY <2>1, <5>1, <5>2 DEF Linked
        <5>. QED
          BY <3>3, <4>1, <5>1, <5>3, <2>7, <2>8
      <4>. QED
        BY <3>1, <3>3, <4>1, <1>1, <2>7 DEF Heard
    <3>. QED
      BY <3>2, <3>3
  <2>11. Watching'
    BY <2>9, <2>10, <1>1 DEF IInv, Watching
  <2>12. Calling'
    BY <1>1, <2>1, <2>7 DEF IInv, Calling
  <2>. QED
    BY <1>1, <2>3, <2>5, <2>6, <2>11, <2>12 DEF IInv, TypeOK, Ticking
<1>. QED
  BY <1>2, <1>3 DEF Poll, CreateCurlSocketContext

\* libcurl drops a descriptor.
LEMMA RemoveStep ==
  ASSUME NEW m \in Multis, NEW fd \in Fds, IInv, Remove(m, fd)
  PROVE  IInv'
<1>. USE DEF easies
<1>1. /\ RemoveAll(m, {fd})
      /\ UNCHANGED <<multi, timer, owner, onSocket, easies, teardown, aborted>>
  BY DEF Remove
<1>2. Watching'
  BY <1>1, RemoveKeepsWatching
<1>3. TypeOK'
  BY <1>1, RemoveFacts DEF IInv, TypeOK
<1>4. Calling'
  BY <1>1, RemoveFacts DEF IInv, Calling
<1>. QED
  BY <1>1, <1>2, <1>3, <1>4 DEF IInv, Ticking

\* libcurl opens and closes descriptors of its own.
LEMMA SocketStep ==
  ASSUME NEW m \in Multis, NEW fd \in Fds, IInv, OpenSocket(m, fd) \/ CloseSocket(m, fd)
  PROVE  IInv'
<1>. USE DEF contexts, easies
<1>1. /\ UNCHANGED <<multi, timer, contexts, watcher, onSocket, easies, teardown, aborted>>
      /\ owner[fd] \in {Nil, m} /\ owner'[fd] \in {Nil, m} /\ socketp[m][fd] = Nil
      /\ \A gd \in Fds \ {fd} : owner'[gd] = owner[gd]
      /\ owner' \in [Fds -> Multis \cup Easies \cup {Nil}]
  <2>1. owner[fd] = Nil => socketp[m][fd] = Nil
    <3>1. Linked(m, fd)
      BY DEF IInv, Watching
    <3>. QED
      BY <3>1, KindsDiffer DEF Linked
  <2>2. owner \in [Fds -> Multis \cup Easies \cup {Nil}]
    BY DEF IInv, TypeOK
  <2>3. CASE OpenSocket(m, fd)
    BY <2>1, <2>2, <2>3 DEF OpenSocket
  <2>4. CASE CloseSocket(m, fd)
    BY <2>2, <2>4 DEF CloseSocket
  <2>. QED
    BY <2>3, <2>4
<1>2. ASSUME NEW n \in Multis, NEW gd \in Fds PROVE Linked(n, gd)'
  <2>1. Linked(n, gd)
    BY DEF IInv, Watching
  <2>2. socketp[n][gd] # Nil => gd # fd
    BY <1>1, <2>1, KindsDiffer DEF Linked
  <2>. QED
    BY <1>1, <2>1, <2>2 DEF Linked
<1>3. \A gd \in Fds : Heard(gd)'
  BY <1>1 DEF IInv, Watching, Heard
<1>4. \A e \in Easies : socket'[e] # Nil => owner'[socket'[e]] = e
  BY <1>1, KindsDiffer DEF IInv, TypeOK, Watching
<1>. QED
  BY <1>1, <1>2, <1>3, <1>4 DEF IInv, TypeOK, Watching, Calling, Ticking

\* A Multi is disposed of: every descriptor and every context of it goes.
LEMMA DisposeStep ==
  ASSUME NEW m \in Multis, NEW next \in {"closed", "collected"},
         NEW t \in {"stopped", "armed"}, IInv, Dispose(m, next, t),
         multi[m] = "open", UNCHANGED <<onSocket, easies, teardown>>, aborted' = FALSE,
         next = "collected" => timer[m] = "closed"
  PROVE  IInv'
<1>. USE DEF easies
<1>1. /\ multi' = [multi EXCEPT ![m] = next] /\ RemoveAll(m, Fds)
      /\ owner' = [fd \in Fds |-> IF owner[fd] = m THEN Nil ELSE owner[fd]]
      /\ timer' = [timer EXCEPT ![m] = IF timer[m] \in {"closing", "closed"} THEN @ ELSE t]
  BY DEF Dispose, HandleTimeout
<1>2. /\ multi' \in [Multis -> {"new", "open", "closed", "collected"}]
      /\ multi'[m] = next /\ \A n \in Multis \ {m} : multi'[n] = multi[n]
  BY <1>1 DEF IInv, TypeOK
<1>3. /\ timer' \in [Multis -> {"stopped", "armed", "closing", "closed"}]
      /\ \A n \in Multis : timer[n] = "closed" => timer'[n] = "closed"
      /\ \A n \in Multis : timer[n] \in {"stopped", "armed"} => timer'[n] \in {"stopped", "armed"}
  <2>1. PICK x \in {"stopped", "armed", "closing", "closed"} :
          /\ timer' = [timer EXCEPT ![m] = x]
          /\ timer[m] = "closed" => x = "closed"
          /\ timer[m] \in {"stopped", "armed"} => x \in {"stopped", "armed"}
    <3>1. timer[m] \in {"stopped", "armed", "closing", "closed"}
      BY DEF IInv, TypeOK
    <3>. QED
      BY <1>1, <3>1
  <2>. QED
    BY <2>1 DEF IInv, TypeOK
<1>4. owner' \in [Fds -> Multis \cup Easies \cup {Nil}]
  BY <1>1 DEF IInv, TypeOK
<1>5. Watching'
  BY <1>1, <1>2, RemoveKeepsWatching
<1>6. Calling'
  BY <1>1, RemoveFacts DEF IInv, Calling
<1>7. Ticking'
  BY <1>2, <1>3 DEF IInv, Ticking
<1>8. TypeOK'
  BY <1>1, <1>2, <1>3, <1>4, RemoveFacts DEF IInv, TypeOK
<1>. QED
  BY <1>5, <1>6, <1>7, <1>8 DEF IInv

\* close() by a caller that libcurl is not calling for this Multi, and the
\* destructor of a Multi whose timer is closed.
LEMMA EndOfMulti ==
  ASSUME NEW m \in Multis, NEW t \in {"stopped", "armed"}, IInv, Disciplined,
         Close(m, t) \/ Collect(m, t)
  PROVE  IInv'
<1>. USE DEF easies, contexts
<1>1. CASE Close(m, t)
  <2>1. ~Inside(m) /\ aborted' = Inside(m)
    BY <1>1 DEF Close
  <2>2. aborted' = FALSE
    BY <2>1 DEF Inside
  <2>. QED
    BY <1>1, <2>2, DisposeStep DEF Close
<1>2. CASE Collect(m, t) /\ multi[m] = "open"
  <2>1. aborted' = FALSE
    BY <1>2 DEF Collect, IInv, TypeOK
  <2>. QED
    BY <1>2, <2>1, DisposeStep DEF Collect
<1>3. CASE Collect(m, t) /\ multi[m] # "open"
  <2>1. /\ multi[m] = "closed" /\ timer[m] = "closed"
        /\ multi' = [multi EXCEPT ![m] = "collected"]
        /\ UNCHANGED <<timer, owner, contexts, watcher, onSocket, easies, teardown, aborted>>
    <3>1. socketp' = socketp /\ socketContextMap' = socketContextMap /\ context' = context
      BY <1>3 DEF Collect
    <3>. QED
      BY <1>3, <3>1 DEF Collect
  <2>2. \A n \in Multis : multi[n] = "open" => multi'[n] = "open"
    BY <2>1 DEF IInv, TypeOK
  <2>3. Watching'
    BY <2>1, <2>2, WatchingFrame DEF IInv
  <2>4. TypeOK' /\ Ticking'
    BY <2>1 DEF IInv, TypeOK, Ticking
  <2>. QED
    BY <2>1, <2>3, <2>4 DEF IInv, Calling
<1>. QED
  BY <1>1, <1>2, <1>3

\* An event reaches a Multi that is open, through a context that exists.
LEMMA OnSocketStep ==
  ASSUME NEW fd \in Fds, IInv, OnSocket(fd)
  PROVE  IInv'
<1>. USE DEF easies, contexts
<1>1. PICK c \in Contexts : c = watcher[fd]
  BY DEF OnSocket
<1>2. /\ onSocket' = [context |-> c, stage |-> "acting"]
      /\ aborted' = (multi[context[c].multi] # "open")
      /\ UNCHANGED <<multi, timer, owner, contexts, watcher, easies, teardown>>
  BY <1>1 DEF OnSocket
<1>3. multi[context[c].multi] = "open" /\ context[c].state = "open"
  <2>1. PICK m \in Multis : m = context[c].multi /\ socketp[m][fd] = c
    BY <1>1 DEF IInv, Watching, Heard
  <2>2. Linked(m, fd) /\ c # Nil
    BY KindsDiffer DEF IInv, Watching
  <2>. QED
    BY <2>1, <2>2 DEF Linked
<1>4. aborted' = FALSE
  BY <1>2, <1>3
<1>5. Watching'
  BY <1>2, WatchingFrame DEF IInv
<1>6. Calling'
  BY <1>2, <1>3 DEF Calling
<1>. QED
  BY <1>2, <1>4, <1>5, <1>6 DEF IInv, TypeOK, Ticking

\* libuv deletes a context only when no OnSocket runs.
LEMMA ContextClosedStep ==
  ASSUME NEW c \in Contexts, IInv, ContextClosed(c)
  PROVE  IInv'
<1>. USE DEF easies
<1>1. /\ onSocket = NoCall /\ context[c].state = "closing"
      /\ context' = [context EXCEPT ![c] = NoContext]
      /\ UNCHANGED <<multi, timer, owner, socketp, socketContextMap, watcher, onSocket, easies,
                     teardown, aborted>>
  BY DEF ContextClosed, LoopTurn
<1>2. /\ \A k \in Contexts \ {c} : context'[k] = context[k]
      /\ context' \in [Contexts -> [state : {"free", "open", "closing"},
                                    fd : Fds \cup {Nil}, multi : Multis \cup {Nil}]]
  BY <1>1 DEF IInv, TypeOK, NoContext
<1>3. ASSUME NEW m \in Multis, NEW fd \in Fds
      PROVE  Linked(m, fd)' /\ (socketp[m][fd] # Nil => socketp[m][fd] # c)
  <2>1. Linked(m, fd) /\ socketp[m][fd] \in Contexts \cup {Nil}
    BY DEF IInv, Watching, TypeOK
  <2>2. socketp[m][fd] # Nil => socketp[m][fd] \in Contexts \ {c}
    BY <1>1, <2>1 DEF Linked
  <2>. QED
    BY <1>1, <1>2, <2>1, <2>2 DEF Linked
<1>4. ASSUME NEW fd \in Fds PROVE Heard(fd)'
  <2>1. Heard(fd)
    BY DEF IInv, Watching
  <2>2. watcher[fd] \in Contexts => watcher[fd] # c
    BY <1>3, <2>1, KindsDiffer DEF Heard
  <2>. QED
    BY <1>1, <1>2, <2>1, <2>2 DEF Heard
<1>5. Watching'
  BY <1>1, <1>3, <1>4 DEF IInv, Watching
<1>6. Calling'
  BY <1>1 DEF NoCall, IInv, Calling
<1>. QED
  BY <1>1, <1>2, <1>5, <1>6 DEF IInv, TypeOK, Ticking

\* Who watches what for a Multi stays when only descriptors and watchers of
\* others change.
LEMMA MultisFrame ==
  ASSUME TypeOK, Watching, UNCHANGED <<multi, contexts>>,
         \A fd \in Fds : owner'[fd] = owner[fd] \/ owner[fd] \notin Multis,
         \A fd \in Fds : watcher'[fd] = watcher[fd]
                         \/ (watcher[fd] \notin Contexts /\ watcher'[fd] \notin Contexts)
  PROVE  /\ \A m \in Multis, fd \in Fds : Linked(m, fd)'
         /\ \A fd \in Fds : watcher'[fd] \in Contexts =>
              /\ context'[watcher'[fd]].multi \in Multis
              /\ socketp'[context'[watcher'[fd]].multi][fd] = watcher'[fd]
<1>. USE DEF contexts
<1>1. ASSUME NEW m \in Multis, NEW fd \in Fds PROVE Linked(m, fd)'
  <2>1. Linked(m, fd)
    BY DEF Watching
  <2>2. socketp[m][fd] # Nil => owner[fd] \in Multis
    BY <2>1 DEF Linked
  <2>3. socketp[m][fd] # Nil => watcher'[fd] = watcher[fd]
    <3>1. SUFFICES ASSUME socketp[m][fd] # Nil, watcher[fd] \notin Contexts PROVE FALSE
      OBVIOUS
    <3>. QED
      BY <2>1, <3>1 DEF Linked, TypeOK
  <2>. QED
    BY <2>1, <2>2, <2>3 DEF Linked
<1>2. \A fd \in Fds : watcher'[fd] \in Contexts =>
        /\ context'[watcher'[fd]].multi \in Multis
        /\ socketp'[context'[watcher'[fd]].multi][fd] = watcher'[fd]
  BY DEF Watching, Heard
<1>. QED
  BY <1>1, <1>2

\* Calls on an Easy that monitors its connection.
LEMMA EasyCallStep ==
  ASSUME NEW e \in Easies, IInv, Disciplined,
         \/ \E fd \in Fds : Connect(e, fd)
         \/ Disconnect(e) \/ MonitorSockets(e) \/ UnmonitorSockets(e) \/ CloseEasy(e)
  PROVE  IInv'
<1>. USE DEF contexts
<1>. DEFINE Hears(fd) == watcher[fd] \in Easies =>
                           socket[watcher[fd]] = fd /\ monitors[watcher[fd]]
<1>1. /\ owner \in [Fds -> Multis \cup Easies \cup {Nil}]
      /\ watcher \in [Fds -> Contexts \cup Easies \cup {Nil}]
      /\ poll \in [Easies -> {"null", "open", "closing", "deleted"}]
      /\ monitors \in [Easies -> BOOLEAN]
      /\ \A x \in Easies : monitors[x] => poll[x] = "open"
      /\ socket \in [Easies -> Fds \cup {Nil}] /\ aborted = FALSE
      /\ \A fd \in Fds : Hears(fd)
      /\ \A x \in Easies : socket[x] # Nil => owner[socket[x]] = x
  BY DEF IInv, TypeOK, Watching, Heard
<1>2. /\ UNCHANGED <<multi, timer, contexts, onSocket, teardown>>
      /\ aborted' = FALSE
  <2>1. CASE UnmonitorSockets(e)
    <3>1. aborted' = (poll[e] # "open") /\ poll[e] = "open"
      BY <1>1, <2>1 DEF UnmonitorSockets
    <3>2. aborted' = FALSE
      BY <3>1
    <3>. QED
      BY <2>1, <3>2 DEF UnmonitorSockets
  <2>. QED
    BY <1>1, <2>1 DEF Connect, Disconnect, MonitorSockets, CloseEasy
<1>3. ASSUME owner' \in [Fds -> Multis \cup Easies \cup {Nil}],
             watcher' \in [Fds -> Contexts \cup Easies \cup {Nil}],
             poll' \in [Easies -> {"null", "open", "closing", "deleted"}],
             monitors' \in [Easies -> BOOLEAN],
             \A x \in Easies : monitors'[x] => poll'[x] = "open",
             socket' \in [Easies -> Fds \cup {Nil}],
             \A fd \in Fds : owner'[fd] = owner[fd] \/ owner[fd] \notin Multis,
             \A fd \in Fds : watcher'[fd] = watcher[fd]
                             \/ (watcher[fd] \notin Contexts /\ watcher'[fd] \notin Contexts),
             \A fd \in Fds : Hears(fd)',
             \A x \in Easies : socket'[x] # Nil => owner'[socket'[x]] = x
      PROVE  IInv'
  <2>1. TypeOK'
    BY <1>2, <1>3 DEF IInv, TypeOK
  <2>2. /\ \A m \in Multis, fd \in Fds : Linked(m, fd)'
        /\ \A fd \in Fds : watcher'[fd] \in Contexts =>
             /\ context'[watcher'[fd]].multi \in Multis
             /\ socketp'[context'[watcher'[fd]].multi][fd] = watcher'[fd]
    BY <1>2, <1>3, MultisFrame DEF IInv
  <2>3. Watching'
    BY <2>2, <1>3 DEF Watching, Heard
  <2>. QED
    BY <1>2, <2>1, <2>3 DEF IInv, Calling, Ticking
<1>4. CASE \E fd \in Fds : Connect(e, fd)
  <2>1. PICK fd \in Fds : Connect(e, fd)
    BY <1>4
  <2>2. /\ owner[fd] = Nil /\ socket[e] = Nil
        /\ owner' = [owner EXCEPT ![fd] = e] /\ socket' = [socket EXCEPT ![e] = fd]
        /\ UNCHANGED <<watcher, poll, monitors>>
    BY <2>1 DEF Connect
  <2>3. \A gd \in Fds : Hears(gd)'
    BY <2>2, <1>1, KindsDiffer
  <2>4. \A x \in Easies : socket'[x] # Nil => owner'[socket'[x]] = x
    BY <2>2, <1>1, KindsDiffer
  <2>. QED
    BY <2>2, <2>3, <2>4, <1>1, <1>3, KindsDiffer
<1>5. CASE Disconnect(e)
  <2>1. PICK fd \in Fds : fd = socket[e]
    BY <1>1, <1>5 DEF Disconnect
  <2>2. /\ owner' = [owner EXCEPT ![fd] = Nil] /\ socket' = [socket EXCEPT ![e] = Nil]
        /\ owner[fd] = e /\ ~monitors[e]
        /\ UNCHANGED <<watcher, poll, monitors>>
    BY <1>1, <1>5, <2>1 DEF Disconnect
  <2>3. \A gd \in Fds : Hears(gd)'
    BY <2>2, <1>1
  <2>4. \A x \in Easies : socket'[x] # Nil => owner'[socket'[x]] = x
    BY <2>2, <1>1
  <2>. QED
    BY <2>2, <2>3, <2>4, <1>1, <1>3, KindsDiffer
<1>6. CASE MonitorSockets(e)
  <2>1. PICK fd \in Fds : fd = socket[e]
    BY <1>1, <1>6 DEF MonitorSockets
  <2>2. /\ poll' = [poll EXCEPT ![e] = "open"] /\ poll[e] = "null"
        /\ UNCHANGED <<owner, socket>>
        /\ \/ /\ watcher[fd] = Nil /\ watcher' = [watcher EXCEPT ![fd] = e]
              /\ monitors' = [monitors EXCEPT ![e] = TRUE]
           \/ /\ watcher' = watcher
              /\ monitors' = [monitors EXCEPT ![e] = FALSE]
    BY <1>6, <2>1 DEF MonitorSockets
  <2>3. \A gd \in Fds : Hears(gd)'
    <3>1. ~monitors[e] /\ \A gd \in Fds : watcher[gd] # e
      BY <2>2, <1>1
    <3>2. CASE watcher' = watcher
      BY <2>2, <3>1, <3>2, <1>1
    <3>3. CASE watcher' = [watcher EXCEPT ![fd] = e] /\ monitors' = [monitors EXCEPT ![e] = TRUE]
      <4>1. Hears(fd)'
        BY <2>1, <2>2, <3>3, <1>1
      <4>2. \A gd \in Fds \ {fd} : Hears(gd)'
        BY <2>2, <3>1, <3>3, <1>1
      <4>. QED
        BY <4>1, <4>2
    <3>. QED
      BY <2>2, <3>2, <3>3
  <2>4. /\ watcher' \in [Fds -> Contexts \cup Easies \cup {Nil}]
        /\ monitors' \in [Easies -> BOOLEAN]
        /\ poll' \in [Easies -> {"null", "open", "closing", "deleted"}]
        /\ \A x \in Easies : monitors'[x] => poll'[x] = "open"
    <3>1. watcher' \in [Fds -> Contexts \cup Easies \cup {Nil}]
      BY <2>2, <1>1
    <3>2. poll' \in [Easies -> {"null", "open", "closing", "deleted"}] /\ poll'[e] = "open"
          /\ \A x \in Easies \ {e} : poll'[x] = poll[x]
      BY <2>2, <1>1
    <3>3. monitors' \in [Easies -> BOOLEAN]
          /\ \A x \in Easies \ {e} : monitors'[x] = monitors[x]
      <4>1. CASE monitors' = [monitors EXCEPT ![e] = TRUE]
        BY <4>1, <1>1
      <4>2. CASE monitors' = [monitors EXCEPT ![e] = FALSE]
        BY <4>2, <1>1
      <4>. QED
        BY <4>1, <4>2, <2>2
    <3>. QED
      BY <3>1, <3>2, <3>3, <1>1
  <2>5. \A gd \in Fds : watcher'[gd] = watcher[gd]
                        \/ (watcher[gd] \notin Contexts /\ watcher'[gd] \notin Contexts)
    BY <2>2, <1>1, KindsDiffer
  <2>. QED
    BY <2>2, <2>3, <2>4, <2>5, <1>1, <1>3
<1>7. CASE UnmonitorSockets(e) \/ (CloseEasy(e) /\ monitors[e])
  <2>1. /\ poll' = [poll EXCEPT ![e] = "closing"] /\ monitors' = [monitors EXCEPT ![e] = FALSE]
        /\ watcher' = [fd \in Fds |-> IF watcher[fd] = e THEN Nil ELSE watcher[fd]]
    BY <1>7 DEF UnmonitorSockets, CloseEasy, DisposeMonitor, Unwatch
  <2>2. \/ UNCHANGED <<owner, socket>>
        \/ \E fd \in Fds : /\ fd = socket[e] /\ owner' = [owner EXCEPT ![fd] = Nil]
                           /\ socket' = [socket EXCEPT ![e] = Nil]
    BY <1>1, <1>7 DEF UnmonitorSockets, CloseEasy
  <2>3. \A gd \in Fds : Hears(gd)'
    BY <2>1, <2>2, <1>1, KindsDiffer
  <2>4. /\ watcher' \in [Fds -> Contexts \cup Easies \cup {Nil}]
        /\ monitors' \in [Easies -> BOOLEAN]
        /\ poll' \in [Easies -> {"null", "open", "closing", "deleted"}]
        /\ \A x \in Easies : monitors'[x] => poll'[x] = "open"
    BY <2>1, <1>1
  <2>5. \A gd \in Fds : watcher'[gd] = watcher[gd]
                        \/ (watcher[gd] \notin Contexts /\ watcher'[gd] \notin Contexts)
    BY <2>1, <1>1, KindsDiffer
  <2>6. /\ owner' \in [Fds -> Multis \cup Easies \cup {Nil}]
        /\ socket' \in [Easies -> Fds \cup {Nil}]
        /\ \A fd \in Fds : owner'[fd] = owner[fd] \/ owner[fd] \notin Multis
        /\ \A x \in Easies : socket'[x] # Nil => owner'[socket'[x]] = x
    BY <2>2, <1>1, KindsDiffer
  <2>. QED
    BY <2>3, <2>4, <2>5, <2>6, <1>3
<1>8. CASE CloseEasy(e) /\ ~monitors[e]
  <2>1. PICK fd \in Fds : fd = socket[e]
    BY <1>1, <1>8 DEF CloseEasy
  <2>2. /\ owner' = [owner EXCEPT ![fd] = Nil] /\ socket' = [socket EXCEPT ![e] = Nil]
        /\ owner[fd] = e
        /\ UNCHANGED <<watcher, poll, monitors>>
    BY <1>1, <1>8, <2>1 DEF CloseEasy, DisposeMonitor
  <2>3. \A gd \in Fds : Hears(gd)'
    BY <2>2, <1>1, <1>8
  <2>4. \A x \in Easies : socket'[x] # Nil => owner'[socket'[x]] = x
    BY <2>2, <1>1
  <2>. QED
    BY <2>2, <2>3, <2>4, <1>1, <1>3, KindsDiffer
<1>. QED
  BY <1>4, <1>5, <1>6, <1>7, <1>8

----------------------------------------------------------------------------
(* The invariant of every behavior *)

\* The initial states satisfy the invariant.
LEMMA InitIInv == Init => IInv
<1>. SUFFICES ASSUME Init PROVE IInv
  OBVIOUS
<1>1. TypeOK /\ ~aborted
  BY DEF Init, TypeOK, NoContext, NoCall
<1>2. Watching
  BY KindsDiffer DEF Init, Watching, Linked, Heard
<1>3. Calling /\ Ticking
  BY DEF Init, Calling, NoCall, Ticking
<1>. QED
  BY <1>1, <1>2, <1>3 DEF IInv

\* Every step keeps the invariant; one step of the proof per action.
LEMMA NextIInv == Disciplined /\ IInv /\ [Next]_vars => IInv'
<1>. SUFFICES ASSUME Disciplined, IInv, [Next]_vars PROVE IInv'
  OBVIOUS
<1>1. CASE Loop
  BY <1>1, QuietStep, OnSocketStep, ContextClosedStep DEF Loop
<1>2. CASE \E m \in Multis : MultiStep(m)
  BY <1>2, QuietStep, PollStep, RemoveStep, SocketStep, EndOfMulti DEF MultiStep, Timers
<1>3. CASE \E e \in Easies : EasyStep(e)
  BY <1>3, QuietStep, EasyCallStep DEF EasyStep
<1>4. CASE UNCHANGED vars
  BY <1>4, QuietStep
<1>. QED
  BY <1>1, <1>2, <1>3, <1>4 DEF Next

\* The invariant holds in every reachable state.
LEMMA Invariance == ASSUME Disciplined PROVE Spec => []IInv
<1>1. IInv /\ [Next]_vars => IInv'
  BY NextIInv
<1>. QED
  BY <1>1, InitIInv, PTL DEF Spec

\* No assertion of the addon or of libuv fails, whatever descriptors come back
\* while their last context is closing: not the one after uv_poll_init
\* (Multi.cc:643), after socket_action (Multi.cc:888) or in uv_poll_start
\* (Multi.cc:702); and a Multi is finalized after its timer (Multi.cc:133).
THEOREM NothingAborts == ASSUME Disciplined PROVE Spec => []NeverAborts
<1>1. IInv => NeverAborts
  BY DEF IInv, Ticking, NeverAborts
<1>. QED
  BY <1>1, Invariance, PTL

\* libuv polls what libcurl asked for and through the one context that libcurl,
\* the map of the Multi and the descriptor agree on (Multi.cc:619); an Easy
\* hears about its own connection (Easy.cc:154).
THEOREM PollsExactly == ASSUME Disciplined PROVE Spec => []PollsWhatIsAsked
<1>1. IInv => PollsWhatIsAsked
  <2>. SUFFICES ASSUME IInv PROVE PollsWhatIsAsked
    OBVIOUS
  <2>1. TypeOK
    BY DEF IInv
  <2>2. ASSUME NEW m \in Multis, NEW fd \in Fds
        PROVE  LET c == socketp[m][fd] IN
               /\ socketContextMap[m][fd] = c
               /\ c # Nil => /\ owner[fd] = m /\ watcher[fd] = c
                             /\ context[c] = [state |-> "open", fd |-> fd, multi |-> m]
    <3>1. Linked(m, fd)
      BY DEF IInv, Watching
    <3>. QED
      BY <3>1 DEF Linked
  <2>3. ASSUME NEW fd \in Fds
        PROVE  /\ watcher[fd] \in Contexts =>
                    socketp[context[watcher[fd]].multi][fd] = watcher[fd]
               /\ watcher[fd] \in Easies => socket[watcher[fd]] = fd
    <3>1. Heard(fd)
      BY DEF IInv, Watching
    <3>. QED
      BY <3>1 DEF Heard
  <2>. QED
    BY <2>1, <2>2, <2>3 DEF PollsWhatIsAsked
<1>. QED
  BY <1>1, Invariance, PTL

\* The context OnSocket reads after socket_action was not deleted meanwhile
\* (Multi.cc:891).
THEOREM ContextOutlives == ASSUME Disciplined PROVE Spec => []ContextOutlivesCall
<1>1. IInv => ContextOutlivesCall
  BY DEF IInv, Calling, ContextOutlivesCall
<1>. QED
  BY <1>1, Invariance, PTL

=============================================================================
