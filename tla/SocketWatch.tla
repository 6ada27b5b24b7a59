---------------------------- MODULE SocketWatch ----------------------------
(***************************************************************************)
(* The libuv handles of Multi objects and of Easy objects that monitor     *)
(* their connection (src/Multi.cc, src/Easy.cc): a CurlSocketContext for   *)
(* every socket libcurl wants to be watched, a timer per Multi.            *)
(*                                                                         *)
(* libcurl asks for a socket with HandleSocket and closes and opens        *)
(* descriptors as it likes, so a number comes back while the context of    *)
(* its last socket still waits for libuv to close it.  libuv refuses a     *)
(* second poll handle for a descriptor and calls back on its own turn      *)
(* only; both sides keep pointers to a context.                            *)
(***************************************************************************)
EXTENDS Integers, FiniteSets, FiniteSetsExt

CONSTANTS
  Multis, Easies,
  Fds,         \* descriptors
  Contexts,    \* bound of the model: CurlSocketContext addresses, numbers
  Nil,
  Disciplined  \* the caller keeps to what the comments at the guards say

ASSUME KindsDiffer ==
  /\ Contexts \subseteq Nat /\ Contexts # {}
  /\ Easies \cap (Multis \cup Contexts) = {} /\ Nil \notin Multis \cup Easies \cup Fds \cup Contexts
ASSUME DisciplineIsAChoice == Disciplined \in BOOLEAN

VARIABLES
  multi,      \* "new", "open", "closed", "collected"
  timer,      \* of a Multi: "stopped", "armed", "closing", "closed"
  owner,      \* who has a descriptor open: a Multi, an Easy or nobody
  socketp,    \* what curl_multi_assign told libcurl about a descriptor
  socketContextMap,
  context,    \* "free", "open", "closing", and what a context is for
  watcher,    \* libuv: the poll handle active on a descriptor
  onSocket,   \* the OnSocket that runs: its context, inside libcurl or after
  poll,       \* socketPollHandle: "null", "open", "closing", "deleted"
  monitors,   \* isMonitoringSockets
  socket,     \* the descriptor of the connection of an Easy
  teardown,   \* the environment ends
  aborted     \* an assertion of the addon or of libuv ended the process

contexts == <<socketp, socketContextMap, context>>
easies == <<poll, monitors, socket>>
vars == <<multi, timer, owner, contexts, watcher, onSocket, easies, teardown, aborted>>

NoContext == [state |-> "free", fd |-> Nil, multi |-> Nil]
NoCall == [context |-> Nil, stage |-> "none"]

Init ==
  /\ multi = [m \in Multis |-> "new"] /\ timer = [m \in Multis |-> "stopped"]
  /\ owner = [fd \in Fds |-> Nil] /\ watcher = [fd \in Fds |-> Nil]
  /\ socketp = [m \in Multis |-> [fd \in Fds |-> Nil]]
  /\ socketContextMap = [m \in Multis |-> [fd \in Fds |-> Nil]]
  /\ context = [c \in Contexts |-> NoContext]
  /\ onSocket = NoCall
  /\ poll = [e \in Easies |-> "null"] /\ monitors = [e \in Easies |-> FALSE]
  /\ socket = [e \in Easies |-> Nil]
  /\ teardown = FALSE /\ aborted = FALSE

\* JavaScript runs until the environment ends.
Runs == ~aborted /\ ~teardown
\* libcurl works when JavaScript or the loop calls it.
LibcurlRuns == ~aborted /\ (teardown => onSocket.stage = "acting")
\* libuv calls back only when nothing of this thread is on the stack.
LoopTurn == ~aborted /\ onSocket = NoCall

----------------------------------------------------------------------------
(* HandleSocket *)

\* uv_poll_start; libuv asserts that the handle is not closing.
StartPoll(c, m, fd) ==
  /\ aborted' = (context[c].state # "open")
  /\ watcher' = [watcher EXCEPT ![context[c].fd] = c]
  /\ socketp' = [socketp EXCEPT ![m][fd] = c]
  /\ UNCHANGED <<context, socketContextMap>>

\* [mutant] a context is not looked up.
CreateAnyway(m, fd) ==
  /\ \E c \in Contexts : context[c].state = "free"
  /\ LET c == Min({k \in Contexts : context[k].state = "free"}) IN
     /\ aborted' = (watcher[fd] # Nil)
     /\ context' = [context EXCEPT ![c] = [state |-> "open", fd |-> fd, multi |-> m]]
     /\ socketContextMap' = [socketContextMap EXCEPT ![m][fd] = c]
     /\ watcher' = [watcher EXCEPT ![fd] = c]
     /\ socketp' = [socketp EXCEPT ![m][fd] = c]

\* CreateCurlSocketContext, uv_poll_start and curl_multi_assign.  uv_poll_init
\* answers UV_EEXIST for a descriptor that has a poll handle, and asserts.
CreateCurlSocketContext(m, fd) ==
  \/ /\ socketContextMap[m][fd] # Nil
     /\ StartPoll(socketContextMap[m][fd], m, fd)
  \/ /\ socketContextMap[m][fd] = Nil
     /\ \E c \in Contexts : context[c].state = "free"
     /\ LET c == Min({k \in Contexts : context[k].state = "free"}) IN
        /\ aborted' = (watcher[fd] # Nil)
        /\ context' = [context EXCEPT ![c] = [state |-> "open", fd |-> fd, multi |-> m]]
        /\ socketContextMap' = [socketContextMap EXCEPT ![m][fd] = c]
        /\ watcher' = [watcher EXCEPT ![fd] = c]
        /\ socketp' = [socketp EXCEPT ![m][fd] = c]

\* CURL_POLL_IN, OUT or INOUT.  libcurl up to 7.81 may have forgotten socketp.
Poll(m, fd, remembers) ==
  /\ LibcurlRuns /\ multi[m] = "open" /\ owner[fd] = m
  /\ \/ /\ remembers /\ socketp[m][fd] # Nil
        /\ StartPoll(socketp[m][fd], m, fd)
     \/ /\ ~remembers \/ socketp[m][fd] = Nil
        /\ CreateCurlSocketContext(m, fd)
  /\ UNCHANGED <<multi, timer, owner, onSocket, easies, teardown>>

\* [mutant] the context is deleted at once.
DestroyNow(C) ==
  /\ context' = [c \in Contexts |-> IF c \in C THEN NoContext ELSE context[c]]
  /\ socketContextMap' = [m \in Multis |-> [fd \in Fds |->
       IF socketContextMap[m][fd] \in C THEN Nil ELSE socketContextMap[m][fd]]]

\* uv_poll_stop was called; uv_close deletes the context on a later turn.
DestroyCurlSocketContext(C) ==
  /\ context' = [c \in Contexts |->
       IF c \in C THEN [context[c] EXCEPT !.state = "closing"] ELSE context[c]]
  /\ socketContextMap' = [m \in Multis |-> [fd \in Fds |->
       IF socketContextMap[m][fd] \in C THEN Nil ELSE socketContextMap[m][fd]]]

\* CURL_POLL_REMOVE for the descriptors F of m.
RemoveAll(m, F) ==
  LET C == {socketp[m][fd] : fd \in F} \ {Nil} IN
  /\ watcher' = [fd \in Fds |-> IF watcher[fd] \in C THEN Nil ELSE watcher[fd]]
  /\ DestroyCurlSocketContext(C)
  /\ socketp' = [socketp EXCEPT ![m] = [fd \in Fds |-> IF fd \in F THEN Nil ELSE @[fd]]]

\* Without a socketp nothing is done: libcurl up to 7.81 tells of some sockets once
\* more.  That it then closes one whose context is still there is not modelled.
Remove(m, fd) ==
  /\ LibcurlRuns /\ multi[m] = "open"
  /\ RemoveAll(m, {fd})
  /\ UNCHANGED <<multi, timer, owner, onSocket, easies, teardown, aborted>>

----------------------------------------------------------------------------
(* libcurl *)

OpenSocket(m, fd) ==
  /\ LibcurlRuns /\ multi[m] = "open" /\ owner[fd] = Nil
  /\ owner' = [owner EXCEPT ![fd] = m]
  /\ UNCHANGED <<multi, timer, contexts, watcher, onSocket, easies, teardown, aborted>>

\* libcurl tells that it no longer watches a socket before it closes it.
CloseSocket(m, fd) ==
  /\ LibcurlRuns /\ multi[m] = "open" /\ owner[fd] = m /\ socketp[m][fd] = Nil
  /\ owner' = [owner EXCEPT ![fd] = Nil]
  /\ UNCHANGED <<multi, timer, contexts, watcher, onSocket, easies, teardown, aborted>>

----------------------------------------------------------------------------
(* Multi *)

Construct(m) ==
  /\ Runs /\ multi[m] = "new"
  /\ multi' = [multi EXCEPT ![m] = "open"]
  /\ UNCHANGED <<timer, owner, contexts, watcher, onSocket, easies, teardown, aborted>>

\* HandleTimeout: nothing once timerClosed.
HandleTimeout(m, t) ==
  timer' = [timer EXCEPT ![m] = IF timer[m] \in {"closing", "closed"} THEN @ ELSE t]

SetTimer(m, t) ==
  /\ LibcurlRuns /\ multi[m] = "open" /\ timer[m] # t
  /\ HandleTimeout(m, t)
  /\ UNCHANGED <<multi, owner, contexts, watcher, onSocket, easies, teardown, aborted>>

Inside(m) ==
  onSocket.stage = "acting" /\ context[onSocket.context].multi = m

\* Dispose(): the timer is stopped, curl_multi_cleanup has every socket removed
\* and closed, and may set the timer again.
Dispose(m, next, t) ==
  /\ multi' = [multi EXCEPT ![m] = next]
  /\ HandleTimeout(m, t)
  /\ RemoveAll(m, Fds)
  /\ owner' = [fd \in Fds |-> IF owner[fd] = m THEN Nil ELSE owner[fd]]

\* close(), but not from a callback that libcurl calls for this Multi: the
\* cleanup is refused and its assertion fails.
Close(m, t) ==
  /\ Runs /\ multi[m] = "open"
  /\ Disciplined => ~Inside(m)
  /\ Dispose(m, "closed", t)
  /\ aborted' = Inside(m)
  /\ UNCHANGED <<onSocket, easies, teardown>>

----------------------------------------------------------------------------
(* The loop *)

\* OnSocket: curl_multi_socket_action of a closed Multi fails its assertion.
OnSocket(fd) ==
  /\ LoopTurn /\ watcher[fd] \in Contexts
  /\ onSocket' = [context |-> watcher[fd], stage |-> "acting"]
  /\ aborted' = (multi[context[watcher[fd]].multi] # "open")
  /\ UNCHANGED <<multi, timer, owner, contexts, watcher, easies, teardown>>

\* It reads the context when socket_action returns, and then ProcessMessages.
AfterAction ==
  /\ ~aborted /\ onSocket.stage = "acting"
  /\ onSocket' = [onSocket EXCEPT !.stage = "messages"]
  /\ UNCHANGED <<multi, timer, owner, contexts, watcher, easies, teardown, aborted>>

OnSocketReturns ==
  /\ ~aborted /\ onSocket.stage = "messages"
  /\ onSocket' = NoCall
  /\ UNCHANGED <<multi, timer, owner, contexts, watcher, easies, teardown, aborted>>

\* OnTimeout of a closed Multi does nothing.  What libcurl does in it of an
\* open one are the actions above.
OnTimeout(m) ==
  /\ LoopTurn /\ timer[m] = "armed"
  /\ timer' = [timer EXCEPT ![m] = "stopped"]
  /\ UNCHANGED <<multi, owner, contexts, watcher, onSocket, easies, teardown, aborted>>

ContextClosed(c) ==
  /\ LoopTurn /\ context[c].state = "closing"
  /\ context' = [context EXCEPT ![c] = NoContext]
  /\ UNCHANGED <<multi, timer, owner, socketp, socketContextMap, watcher, onSocket, easies,
                 teardown, aborted>>

----------------------------------------------------------------------------
(* The end of the environment *)

\* [mutant] the hook of a Multi that was closed has nothing to do.
CloseOpenTimers ==
  timer' = [m \in Multis |-> IF multi[m] = "open" THEN "closing" ELSE timer[m]]

\* CloseTimerAsync of every Multi.
CloseTimerAsync ==
  timer' = [m \in Multis |-> IF multi[m] = "new" THEN timer[m] ELSE "closing"]

CleanupHookAsync ==
  /\ LoopTurn /\ ~teardown
  /\ teardown' = TRUE
  /\ CloseTimerAsync
  /\ UNCHANGED <<multi, owner, contexts, watcher, onSocket, easies, aborted>>

\* uv_close called back: the Multi is no longer referenced.
TimerClosed(m) ==
  /\ LoopTurn /\ timer[m] = "closing"
  /\ timer' = [timer EXCEPT ![m] = "closed"]
  /\ UNCHANGED <<multi, owner, contexts, watcher, onSocket, easies, teardown, aborted>>

\* The destructor of a Multi, which is referenced until its timer is closed.
Collect(m, t) ==
  /\ LoopTurn /\ multi[m] \in {"open", "closed"} /\ timer[m] = "closed"
  /\ \/ /\ multi[m] = "open"
        /\ Dispose(m, "collected", t)
     \/ /\ multi[m] = "closed"
        /\ multi' = [multi EXCEPT ![m] = "collected"]
        /\ UNCHANGED <<timer, owner, contexts, watcher>>
  /\ UNCHANGED <<onSocket, easies, teardown, aborted>>

----------------------------------------------------------------------------
(* Easy: monitorSocketEvents *)

\* A request with CONNECT_ONLY leaves its connection to the Easy.
Connect(e, fd) ==
  /\ Runs /\ owner[fd] = Nil /\ socket[e] = Nil
  /\ owner' = [owner EXCEPT ![fd] = e] /\ socket' = [socket EXCEPT ![e] = fd]
  /\ UNCHANGED <<multi, timer, contexts, watcher, onSocket, poll, monitors, teardown, aborted>>

\* The next request of the Easy closes it; its caller stops monitoring first.
Disconnect(e) ==
  /\ Runs /\ socket[e] # Nil
  /\ Disciplined => ~monitors[e]
  /\ owner' = [owner EXCEPT ![socket[e]] = Nil] /\ socket' = [socket EXCEPT ![e] = Nil]
  /\ UNCHANGED <<multi, timer, contexts, watcher, onSocket, poll, monitors, teardown, aborted>>

\* Refused once socketPollHandle is set, which nothing resets.
MonitorSockets(e) ==
  /\ Runs /\ poll[e] = "null" /\ socket[e] # Nil
  /\ poll' = [poll EXCEPT ![e] = "open"]
  /\ LET initialised == watcher[socket[e]] = Nil IN
     /\ monitors' = [monitors EXCEPT ![e] = initialised]
     /\ watcher' = IF initialised THEN [watcher EXCEPT ![socket[e]] = e] ELSE watcher
  /\ UNCHANGED <<multi, timer, owner, contexts, onSocket, socket, teardown, aborted>>

Unwatch(e) == watcher' = [fd \in Fds |-> IF watcher[fd] = e THEN Nil ELSE watcher[fd]]

\* Without a handle, or with a deleted one, uv_poll_stop is undefined: only a
\* caller that looks at isMonitoringSockets first is disciplined.
UnmonitorSockets(e) ==
  /\ Runs
  /\ Disciplined => monitors[e]
  /\ aborted' = (poll[e] # "open")
  /\ poll' = [poll EXCEPT ![e] = "closing"] /\ monitors' = [monitors EXCEPT ![e] = FALSE]
  /\ Unwatch(e)
  /\ UNCHANGED <<multi, timer, owner, contexts, onSocket, socket, teardown>>

PollClosed(e) ==
  /\ LoopTurn /\ poll[e] = "closing"
  /\ poll' = [poll EXCEPT ![e] = "deleted"]
  /\ UNCHANGED <<multi, timer, owner, contexts, watcher, onSocket, monitors, socket, teardown,
                 aborted>>

\* [mutant] an Easy is closed without a look at its poll handle.
DisposeOnly(e) == UNCHANGED <<poll, monitors, watcher>>

\* Dispose(): libcurl closes the connection, then monitoring stops.
DisposeMonitor(e) ==
  \/ monitors[e] /\ poll' = [poll EXCEPT ![e] = "closing"]
       /\ monitors' = [monitors EXCEPT ![e] = FALSE] /\ Unwatch(e)
  \/ ~monitors[e] /\ UNCHANGED <<poll, monitors, watcher>>

CloseEasy(e) ==
  /\ Runs /\ socket[e] # Nil
  /\ owner' = [owner EXCEPT ![socket[e]] = Nil] /\ socket' = [socket EXCEPT ![e] = Nil]
  /\ DisposeMonitor(e)
  /\ UNCHANGED <<multi, timer, contexts, onSocket, teardown, aborted>>

\* A new Easy takes the place of one whose handle is closed.
NewEasy(e) ==
  /\ Runs /\ socket[e] = Nil /\ ~monitors[e] /\ poll[e] = "deleted"
  /\ poll' = [poll EXCEPT ![e] = "null"]
  /\ UNCHANGED <<multi, timer, owner, contexts, watcher, onSocket, monitors, socket, teardown,
                 aborted>>

----------------------------------------------------------------------------
Timers == {"stopped", "armed"}

MultiStep(m) ==
  \/ Construct(m)
  \/ \E fd \in Fds :
       \/ \E remembers \in BOOLEAN : Poll(m, fd, remembers)
       \/ Remove(m, fd) \/ OpenSocket(m, fd) \/ CloseSocket(m, fd)
  \/ \E t \in Timers : SetTimer(m, t) \/ Close(m, t) \/ Collect(m, t)

EasyStep(e) ==
  \/ \E fd \in Fds : Connect(e, fd)
  \/ Disconnect(e) \/ MonitorSockets(e) \/ UnmonitorSockets(e) \/ CloseEasy(e) \/ NewEasy(e)

Loop ==
  \/ \E fd \in Fds : OnSocket(fd)
  \/ AfterAction \/ OnSocketReturns \/ CleanupHookAsync
  \/ \E m \in Multis : OnTimeout(m) \/ TimerClosed(m)
  \/ \E c \in Contexts : ContextClosed(c)
  \/ \E e \in Easies : PollClosed(e)

Next == Loop \/ (\E m \in Multis : MultiStep(m)) \/ (\E e \in Easies : EasyStep(e))

Spec == Init /\ [][Next]_vars

\* libuv closes what it was told to close at the end of every turn, and Node.js
\* finalizes at the end what nothing references, however many events come.
Fairness ==
  /\ SF_vars(\E m \in Multis : TimerClosed(m) \/ \E t \in Timers : Collect(m, t))
  /\ SF_vars(\E c \in Contexts : ContextClosed(c))
  /\ WF_vars(AfterAction \/ OnSocketReturns)

FairSpec == Spec /\ Fairness

----------------------------------------------------------------------------
(* Properties *)

\* Values stay in their ranges.
TypeOK ==
  /\ multi \in [Multis -> {"new", "open", "closed", "collected"}]
  /\ timer \in [Multis -> {"stopped", "armed", "closing", "closed"}]
  /\ owner \in [Fds -> Multis \cup Easies \cup {Nil}]
  /\ watcher \in [Fds -> Contexts \cup Easies \cup {Nil}]
  /\ socketp \in [Multis -> [Fds -> Contexts \cup {Nil}]]
  /\ socketContextMap \in [Multis -> [Fds -> Contexts \cup {Nil}]]
  /\ context \in [Contexts -> [state : {"free", "open", "closing"},
                               fd : Fds \cup {Nil}, multi : Multis \cup {Nil}]]
  /\ onSocket \in [context : Contexts \cup {Nil}, stage : {"none", "acting", "messages"}]
  /\ poll \in [Easies -> {"null", "open", "closing", "deleted"}]
  /\ monitors \in [Easies -> BOOLEAN]
  /\ \A e \in Easies : monitors[e] => poll[e] = "open"
  /\ socket \in [Easies -> Fds \cup {Nil}] /\ aborted \in BOOLEAN /\ teardown \in BOOLEAN

\* With descriptors that come back while their last context is closing, other
\* Multis and monitored connections: no uv_poll_init for a descriptor that has a
\* poll handle (Multi.cc:643), no event for a Multi that is closed (Multi.cc:888),
\* no start of a handle that is closing (Multi.cc:702),
\* and no Multi is finalized before its timer is closed (Multi.cc:133).
NeverAborts ==
  /\ ~aborted
  /\ \A m \in Multis : multi[m] = "collected" => timer[m] = "closed"

\* libuv polls exactly what libcurl asked for, each descriptor through the one
\* context that libcurl, the map and the descriptor agree on (Multi.cc:619); and
\* an Easy hears about its own connection only (Easy.cc:154).
PollsWhatIsAsked ==
  /\ TypeOK
  /\ \A m \in Multis, fd \in Fds :
       LET c == socketp[m][fd] IN
       /\ socketContextMap[m][fd] = c
       /\ c # Nil => /\ owner[fd] = m /\ watcher[fd] = c
                     /\ context[c] = [state |-> "open", fd |-> fd, multi |-> m]
  /\ \A fd \in Fds : watcher[fd] \in Contexts =>
       socketp[context[watcher[fd]].multi][fd] = watcher[fd]
  /\ \A fd \in Fds : watcher[fd] \in Easies => socket[watcher[fd]] = fd

\* The context that OnSocket reads when socket_action returns is still there,
\* whatever libcurl removed and callbacks closed meanwhile (Multi.cc:891).
ContextOutlivesCall == onSocket.stage = "acting" => context[onSocket.context].state # "free"

\* When the environment ends every Multi is finalized, open or closed before, and
\* no context of one is left (Multi.cc:104, 133).
TeardownCompletes ==
  teardown ~> aborted \/ /\ \A m \in Multis : multi[m] \in {"new", "collected"}
                         /\ \A c \in Contexts : context[c].state = "free"
=============================================================================
