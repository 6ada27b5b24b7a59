---------------------------- MODULE MultiHandle ----------------------------
(***************************************************************************)
(* The native Multi class (src/src/Multi.cc) together with the part of the *)
(* Easy class (src/src/Easy.cc) that decides whether a handle may be added,*)
(* removed, closed or collected, and the slice of libcurl's multi          *)
(* interface those two rely on.                                            *)
(*                                                                         *)
(* Everything runs on one thread.  The loop is either running JavaScript,  *)
(* or inside curl_multi_socket_action (entered from Multi::OnTimeout and   *)
(* Multi::OnSocket), or inside Multi::ProcessMessages; JavaScript also     *)
(* runs nested in the last two, in a transfer callback (data, header,      *)
(* progress ...) and in the onMessage callback.                            *)
(*                                                                         *)
(* A CURL* is an address: once its Easy is closed or collected, a later    *)
(* Easy may be given the same one.  Each successful addHandle() or         *)
(* perform() starts a transfer of its own, named so that a promise can be  *)
(* compared with the transfer that settled it.                             *)
(***************************************************************************)
EXTENDS Integers, FiniteSets

CONSTANTS
  Multis,         \* Multi instances
  Easies,         \* Easy instances that exist at one time
  Ptrs,           \* CURL* addresses the allocator hands out
  Transfers,      \* bound on the addHandle()/perform() calls of one behavior
  Nil,            \* no multi, no address, no transfer
  Notifications,  \* useNotificationsApi: messages are read inside libcurl
  Disciplined,    \* callers keep the handles they gave to a Multi and remove
                  \* only members whose result has been reported
  MaxDeficit      \* bound on how far below zero amountOfHandles is driven

ASSUME NilIsNoValue == Nil \notin Multis \cup Easies \cup Ptrs \cup Transfers
ASSUME FlagsAreBoolean == Notifications \in BOOLEAN /\ Disciplined \in BOOLEAN
ASSUME DeficitIsNatural == MaxDeficit \in Nat
ASSUME InstancesAreFinite == IsFiniteSet(Ptrs)

VARIABLES
  \* Easy
  ch,                   \* the CURL* of an open Easy, Nil when closed
  isInsideMultiHandle,
  callbackError,        \* a callback of this handle threw: error kept for later
  referenced,           \* JavaScript can still reach the Easy
  \* Multi
  isOpen,
  amountOfHandles,
  cbOnMessage,          \* the onMessage callback: "unset", "set", or "cleared" with null
  handlePromiseMap,     \* CURL* -> perform() call whose deferred is stored
  \* libcurl
  memberOf,             \* the multi a CURL* was added to
  current,              \* the transfer that CURL* carries there
  result,               \* libcurl's code for a transfer: "none" while running
  msgs,                 \* CURL*s with an unread CURLMSG_DONE
  \* the event loop
  at,                   \* where control is; "aborted" when the process ended
  activeMulti,          \* the Multi whose native code is on the stack
  activeEasy,           \* the Easy whose transfer callback is on the stack
  \* perform() calls, and what happened to the transfers
  promise,
  settledBy,            \* the transfer whose message settled the promise
  threw,                \* a callback threw in the transfer, or for a duplicate of
                        \* the handle made meanwhile (and reset() did not clear
                        \* it before the result was reported)
  left                  \* how the handle left before its result was reported

easyVars  == <<ch, isInsideMultiHandle, callbackError, referenced>>
multiVars == <<isOpen, amountOfHandles, cbOnMessage, handlePromiseMap>>
curlVars  == <<memberOf, current, result, msgs>>
loopVars  == <<at, activeMulti, activeEasy>>
histVars  == <<promise, settledBy, threw, left>>
vars == <<easyVars, multiVars, curlVars, loopVars, histVars>>

Places    == {"loop", "libcurl", "callback", "drain", "message", "aborted"}
Promises  == {"unused", "none", "pending", "resolved", "rejected", "aborted"}
Settled   == {"resolved", "rejected", "aborted"}
Exits     == {"none", "removed", "collected", "closed"}

----------------------------------------------------------------------------
Init ==
  /\ ch = [e \in Easies |-> Nil]
  /\ isInsideMultiHandle = [e \in Easies |-> FALSE]
  /\ callbackError = [e \in Easies |-> FALSE]
  /\ referenced = [e \in Easies |-> FALSE]
  /\ isOpen = [m \in Multis |-> TRUE]
  /\ amountOfHandles = [m \in Multis |-> 0]
  /\ cbOnMessage = [m \in Multis |-> "unset"]
  /\ handlePromiseMap = [m \in Multis |-> [p \in Ptrs |-> Nil]]
  /\ memberOf = [p \in Ptrs |-> Nil]
  /\ current = [p \in Ptrs |-> Nil]
  /\ result = [t \in Transfers |-> "none"]
  /\ msgs = {}
  /\ at = "loop" /\ activeMulti = Nil /\ activeEasy = Nil
  /\ promise = [t \in Transfers |-> "unused"]
  /\ settledBy = [t \in Transfers |-> Nil]
  /\ threw = [t \in Transfers |-> FALSE]
  /\ left = [t \in Transfers |-> "none"]

----------------------------------------------------------------------------
(* Helpers *)

\* JavaScript runs from the loop and inside the two kinds of callback.
JavaScript == at \in {"loop", "callback", "message"}

\* libcurl refuses to change a multi from within one of its own transfer
\* callbacks: CURLM_RECURSIVE_API_CALL.
Recursive(m) == at = "callback" /\ activeMulti = m

\* curl_multi_cleanup is refused in a notify callback as well.
CleanupRefused(m) ==
  \/ Recursive(m)
  \/ Notifications /\ at = "message" /\ activeMulti = m

Open(e)    == ch[e] # Nil
Running(p) == memberOf[p] # Nil /\ result[current[p]] = "none"

\* The transfer on p has not been reported to JavaScript yet.
Unreported(p) == memberOf[p] # Nil /\ (result[current[p]] = "none" \/ p \in msgs)

\* libcurl forgets a CURL*: no membership, no transfer, no unread message.
Detach(S, how) ==
  /\ memberOf' = [p \in Ptrs |-> IF p \in S THEN Nil ELSE memberOf[p]]
  /\ current' = [p \in Ptrs |-> IF p \in S THEN Nil ELSE current[p]]
  /\ msgs' = msgs \ S
  /\ left' = [t \in Transfers |->
                IF \E p \in S : current[p] = t /\ Unreported(p)
                  THEN how ELSE left[t]]

\* [mutant] callbackError survives where it has to be dropped.
KeepCallbackError(e) == UNCHANGED callbackError

ResetCallbackError(e) == callbackError' = [callbackError EXCEPT ![e] = FALSE]

\* [mutant] the stored deferred is used but not erased.
KeepPromise(m, p) == UNCHANGED handlePromiseMap

ErasePromise(m, p) == handlePromiseMap' = [handlePromiseMap EXCEPT ![m][p] = Nil]

\* [mutant] only libcurl's code decides.
CodeOnlyVerdict(e) == IF result[current[ch[e]]] = "ok" THEN "resolved" ELSE "rejected"

\* How the promise of the transfer on e is settled.
Verdict(e) ==
  IF callbackError[e] THEN "aborted"
  ELSE IF result[current[ch[e]]] = "ok" THEN "resolved" ELSE "rejected"

----------------------------------------------------------------------------
(* Easy: construction, reset, close, finalizer *)

\* The constructor, also of a duplicate.
Construct(e, p) ==
  /\ JavaScript
  /\ ~Open(e)
  /\ \A x \in Easies : ch[x] # p
  /\ ch' = [ch EXCEPT ![e] = p]
  /\ referenced' = [referenced EXCEPT ![e] = TRUE]
  /\ UNCHANGED <<isInsideMultiHandle, multiVars, curlVars, loopVars, promise,
                 settledBy, left>>

NewEasy(e, p) == Construct(e, p) /\ UNCHANGED <<callbackError, threw>>

\* The copied handle still leads to orig while libcurl fills its HSTS cache: when
\* the HSTSREADFUNCTION throws and orig is busy, the error is kept at orig.
DupHandleThrows(orig, e, p) ==
  /\ Construct(e, p)
  /\ Open(orig) /\ referenced[orig] /\ isInsideMultiHandle[orig]
  /\ callbackError' = [callbackError EXCEPT ![orig] = TRUE]
  /\ threw' = IF Unreported(ch[orig]) THEN [threw EXCEPT ![current[ch[orig]]] = TRUE]
                                      ELSE threw

\* Easy::Reset drops the stored callback error, also in mid-transfer.
ResetEasy(e) ==
  /\ JavaScript
  /\ Open(e) /\ referenced[e]
  /\ Disciplined => ~isInsideMultiHandle[e]
  /\ ResetCallbackError(e)
  /\ threw' = IF Unreported(ch[e]) THEN [threw EXCEPT ![current[ch[e]]] = FALSE]
                                   ELSE threw
  /\ UNCHANGED <<ch, isInsideMultiHandle, referenced, multiVars, curlVars,
                 loopVars, promise, settledBy, left>>

\* curl_easy_cleanup takes the handle out of its multi first.  No method does
\* anything with a closed Easy, so e then stands for the next one constructed.
Dispose(e, how) ==
  /\ ch' = [ch EXCEPT ![e] = Nil]
  /\ ResetCallbackError(e)
  /\ isInsideMultiHandle' = [isInsideMultiHandle EXCEPT ![e] = FALSE]
  /\ referenced' = [referenced EXCEPT ![e] = FALSE]
  /\ Detach({ch[e]}, how)
  /\ UNCHANGED <<multiVars, result, loopVars, promise, settledBy, threw>>

\* Easy::Close throws for a handle inside a Multi.
CloseEasy(e) ==
  /\ JavaScript
  /\ Open(e) /\ referenced[e]
  /\ ~isInsideMultiHandle[e]
  /\ Dispose(e, "closed")

\* Nothing in the addon keeps the JavaScript object of an added Easy alive.
DropReference(e) ==
  /\ JavaScript
  /\ Open(e) /\ referenced[e]
  /\ Disciplined => ~isInsideMultiHandle[e]
  /\ referenced' = [referenced EXCEPT ![e] = FALSE]
  /\ UNCHANGED <<ch, isInsideMultiHandle, callbackError, multiVars, curlVars,
                 loopVars, histVars>>

\* The finalizer of a collected object, run by the loop: Easy::~Easy.
CollectEasy(e) ==
  /\ at = "loop"
  /\ Open(e) /\ ~referenced[e]
  /\ Dispose(e, "collected")

----------------------------------------------------------------------------
(* Multi: the methods JavaScript calls *)

\* What addHandle() and perform() share.
Add(m, e, t) ==
  /\ JavaScript
  /\ isOpen[m]
  /\ Open(e) /\ referenced[e]
  /\ ~isInsideMultiHandle[e]
  /\ promise[t] = "unused"
  /\ ResetCallbackError(e)
  /\ ~Recursive(m) /\ memberOf[ch[e]] = Nil
  /\ memberOf' = [memberOf EXCEPT ![ch[e]] = m]
  /\ current' = [current EXCEPT ![ch[e]] = t]
  /\ amountOfHandles' = [amountOfHandles EXCEPT ![m] = @ + 1]
  /\ isInsideMultiHandle' = [isInsideMultiHandle EXCEPT ![e] = TRUE]
  /\ UNCHANGED <<ch, referenced, isOpen, cbOnMessage, result, msgs, loopVars,
                 settledBy, threw, left>>

\* The message of such a handle needs an onMessage callback.
AddHandle(m, e, t) ==
  /\ Add(m, e, t)
  /\ Disciplined => cbOnMessage[m] # "unset"
  /\ promise' = [promise EXCEPT ![t] = "none"]
  /\ UNCHANGED handlePromiseMap

\* [mutant] the deferred is inserted only where no entry exists.
PerformEmplaces(m, e, t) ==
  /\ Add(m, e, t)
  /\ promise' = [promise EXCEPT ![t] = "pending"]
  /\ handlePromiseMap' = [handlePromiseMap EXCEPT ![m][ch[e]] =
                            IF @ = Nil THEN t ELSE @]

Perform(m, e, t) ==
  /\ Add(m, e, t)
  /\ promise' = [promise EXCEPT ![t] = "pending"]
  /\ handlePromiseMap' = [handlePromiseMap EXCEPT ![m][ch[e]] = t]

\* [mutant] the handle is counted before libcurl's code is looked at.
AddRefusedCounted(m, e) ==
  /\ isOpen[m] /\ Recursive(m)
  /\ Open(e) /\ referenced[e] /\ ~isInsideMultiHandle[e]
  /\ ResetCallbackError(e)
  /\ amountOfHandles' = [amountOfHandles EXCEPT ![m] = @ + 1]
  /\ UNCHANGED <<ch, isInsideMultiHandle, referenced, isOpen, cbOnMessage,
                 handlePromiseMap, curlVars, loopVars, histVars>>

\* addHandle() or perform() from within a callback of the same multi: the
\* error is thrown after the handle's old callback error was dropped.
AddRefused(m, e) ==
  /\ isOpen[m] /\ Recursive(m)
  /\ Open(e) /\ referenced[e]
  /\ ~isInsideMultiHandle[e]
  /\ ResetCallbackError(e)
  /\ UNCHANGED <<ch, isInsideMultiHandle, referenced, multiVars, curlVars,
                 loopVars, histVars>>

\* [mutant] the flag is cleared whether or not libcurl let go of the handle.
RemoveUnchecked(m, e) ==
  /\ JavaScript
  /\ isOpen[m]
  /\ Open(e) /\ referenced[e]
  /\ amountOfHandles[m] > -MaxDeficit
  /\ IF Recursive(m) \/ memberOf[ch[e]] \notin {m, Nil}
       THEN UNCHANGED <<memberOf, current, msgs, left>>
       ELSE Detach({ch[e]}, "removed")
  /\ amountOfHandles' = [amountOfHandles EXCEPT ![m] = @ - 1]
  /\ isInsideMultiHandle' = [isInsideMultiHandle EXCEPT ![e] = FALSE]
  /\ UNCHANGED <<ch, callbackError, referenced, isOpen, cbOnMessage,
                 handlePromiseMap, result, loopVars, promise, settledBy, threw>>

\* curl_multi_remove_handle accepts a handle that is in no multi; the method
\* does not look at isInsideMultiHandle and leaves handlePromiseMap alone.
RemoveHandle(m, e) ==
  /\ JavaScript
  /\ isOpen[m]
  /\ Open(e) /\ referenced[e]
  /\ Disciplined => memberOf[ch[e]] = m /\ ~Unreported(ch[e])
  /\ amountOfHandles[m] > -MaxDeficit
  /\ ~Recursive(m) /\ memberOf[ch[e]] \in {m, Nil}
  /\ Detach({ch[e]}, "removed")
  /\ amountOfHandles' = [amountOfHandles EXCEPT ![m] = @ - 1]
  /\ isInsideMultiHandle' = [isInsideMultiHandle EXCEPT ![e] = FALSE]
  /\ UNCHANGED <<ch, callbackError, referenced, isOpen, cbOnMessage,
                 handlePromiseMap, result, loopVars, promise, settledBy, threw>>

\* A reference that never had a callback is left as it is by null.
Cleared(m) == IF cbOnMessage[m] = "unset" THEN "unset" ELSE "cleared"

OnMessage(m, set) ==
  /\ JavaScript
  /\ cbOnMessage' = [cbOnMessage EXCEPT ![m] = IF set THEN "set" ELSE Cleared(m)]
  /\ UNCHANGED <<easyVars, isOpen, amountOfHandles, handlePromiseMap, curlVars,
                 loopVars, histVars>>

\* Multi::Close.  Dispose asserts that curl_multi_cleanup succeeded; the
\* cleanup detaches the handles still inside, whose Easy is not told.
CloseMulti(m) ==
  /\ JavaScript
  /\ isOpen[m]
  /\ Disciplined => ~CleanupRefused(m)
  /\ isOpen' = [isOpen EXCEPT ![m] = FALSE]
  /\ cbOnMessage' = [cbOnMessage EXCEPT ![m] = Cleared(m)]
  /\ IF CleanupRefused(m)
       THEN at' = "aborted" /\ UNCHANGED <<memberOf, current, msgs, left>>
       ELSE Detach({p \in Ptrs : memberOf[p] = m}, "closed") /\ UNCHANGED at
  /\ UNCHANGED <<easyVars, amountOfHandles, handlePromiseMap, result,
                 activeMulti, activeEasy, promise, settledBy, threw>>

----------------------------------------------------------------------------
(* The event loop: libcurl at work, and Multi::ProcessMessages *)

\* uv fires Multi::OnTimeout or Multi::OnSocket.
SocketAction(m) ==
  /\ at = "loop"
  /\ isOpen[m]
  /\ \E p \in Ptrs : memberOf[p] = m /\ Running(p)
  /\ at' = "libcurl" /\ activeMulti' = m
  /\ UNCHANGED <<easyVars, multiVars, curlVars, activeEasy, histVars>>

TransferDone(p, code) ==
  /\ at = "libcurl"
  /\ memberOf[p] = activeMulti /\ Running(p)
  /\ result' = [result EXCEPT ![current[p]] = code]
  /\ msgs' = msgs \cup {p}
  /\ UNCHANGED <<easyVars, multiVars, memberOf, current, loopVars, histVars>>

TransferCallback(e) ==
  /\ at = "libcurl"
  /\ Open(e) /\ memberOf[ch[e]] = activeMulti /\ Running(ch[e])
  /\ at' = "callback" /\ activeEasy' = e
  /\ referenced' = [referenced EXCEPT ![e] = TRUE]  \* it is the callback's this
  /\ UNCHANGED <<ch, isInsideMultiHandle, callbackError, multiVars, curlVars,
                 activeMulti, histVars>>

\* Easy::throwErrorMultiInterfaceAware keeps what the callback threw.
CallbackReturns(throws) ==
  /\ at = "callback"
  /\ at' = "libcurl" /\ activeEasy' = Nil
  /\ IF throws /\ isInsideMultiHandle[activeEasy]
       THEN /\ callbackError' = [callbackError EXCEPT ![activeEasy] = TRUE]
            /\ threw' = [threw EXCEPT ![current[ch[activeEasy]]] = TRUE]
       ELSE UNCHANGED <<callbackError, threw>>
  /\ UNCHANGED <<ch, isInsideMultiHandle, referenced, multiVars, curlVars,
                 activeMulti, promise, settledBy, left>>

\* [mutant] nobody reads the messages of this round.
SkipDrain ==
  /\ at = "libcurl"
  /\ at' = "loop" /\ activeMulti' = Nil
  /\ UNCHANGED <<easyVars, multiVars, curlVars, activeEasy, histVars>>

\* socket_action has done its work and the messages are read: by the caller,
\* or from NotifyCallback when the notifications API is in use.
StartDrain ==
  /\ at = "libcurl"
  /\ at' = "drain"
  /\ UNCHANGED <<easyVars, multiVars, curlVars, activeMulti, activeEasy, histVars>>

\* CallOnMessageCallback's call: of a cleared reference it fails like a callback that
\* throws, which is ignored; one that never had a callback has no environment to
\* fail in, and ends the process.
Notified(m) == CASE cbOnMessage[m] = "set" -> "message"
                 [] cbOnMessage[m] = "cleared" -> "drain"
                 [] cbOnMessage[m] = "unset" -> "aborted"

\* One turn of ProcessMessages' loop; e is CURLINFO_PRIVATE of the message.
ReadMessage(e) ==
  LET p     == ch[e]
      entry == handlePromiseMap[activeMulti][p]
  IN
  /\ at = "drain"
  /\ isOpen[activeMulti]
  /\ Open(e) /\ p \in msgs /\ memberOf[p] = activeMulti
  /\ msgs' = msgs \ {p}
  /\ referenced' = [referenced EXCEPT ![e] = TRUE]
  /\ IF entry # Nil
       THEN /\ promise' = [promise EXCEPT ![entry] = Verdict(e)]
            /\ settledBy' = [settledBy EXCEPT ![entry] = current[p]]
            /\ ErasePromise(activeMulti, p)
            /\ UNCHANGED at
       ELSE /\ at' = Notified(activeMulti)
            /\ UNCHANGED <<promise, settledBy, handlePromiseMap>>
  /\ UNCHANGED <<ch, isInsideMultiHandle, callbackError, isOpen, amountOfHandles,
                 cbOnMessage, memberOf, current, result, activeMulti, activeEasy, threw, left>>

\* Whatever the onMessage callback threw is ignored.
MessageReturns ==
  /\ at = "message"
  /\ at' = "drain"
  /\ UNCHANGED <<easyVars, multiVars, curlVars, activeMulti, activeEasy, histVars>>

\* [mutant] one message per round.
DrainOne ==
  /\ at = "drain"
  /\ at' = "loop" /\ activeMulti' = Nil
  /\ UNCHANGED <<easyVars, multiVars, curlVars, activeEasy, histVars>>

DrainDone ==
  /\ at = "drain"
  /\ isOpen[activeMulti] => \A p \in msgs : memberOf[p] # activeMulti
  /\ at' = "loop" /\ activeMulti' = Nil
  /\ UNCHANGED <<easyVars, multiVars, curlVars, activeEasy, histVars>>

----------------------------------------------------------------------------
EasyCall(e) ==
  \/ \E p \in Ptrs : NewEasy(e, p)
  \/ \E orig \in Easies, p \in Ptrs : DupHandleThrows(orig, e, p)
  \/ ResetEasy(e)
  \/ CloseEasy(e)
  \/ DropReference(e)
  \/ CollectEasy(e)

MultiCall(m) ==
  \/ \E e \in Easies, t \in Transfers : AddHandle(m, e, t)
  \/ \E e \in Easies, t \in Transfers : Perform(m, e, t)
  \/ \E e \in Easies : AddRefused(m, e)
  \/ \E e \in Easies : RemoveHandle(m, e)
  \/ \E set \in BOOLEAN : OnMessage(m, set)
  \/ CloseMulti(m)

LoopStep ==
  \/ \E m \in Multis : SocketAction(m)
  \/ \E p \in Ptrs, code \in {"ok", "failed"} : TransferDone(p, code)
  \/ \E e \in Easies : TransferCallback(e)
  \/ \E throws \in BOOLEAN : CallbackReturns(throws)
  \/ StartDrain
  \/ \E e \in Easies : ReadMessage(e)
  \/ MessageReturns
  \/ DrainDone

Next ==
  \/ \E e \in Easies : EasyCall(e)
  \/ \E m \in Multis : MultiCall(m)
  \/ LoopStep

Spec == Init /\ [][Next]_vars

\* JavaScript callbacks return and libcurl finishes its round; uv serves every
\* ready handle of its loop.  Nothing is assumed of the network.
LoopFairness ==
  /\ WF_vars(\E throws \in BOOLEAN : CallbackReturns(throws))
  /\ WF_vars(MessageReturns)
  /\ SF_vars(StartDrain)
  /\ WF_vars(\E e \in Easies : ReadMessage(e))
  /\ WF_vars(DrainDone)

FairSpec == Spec /\ LoopFairness

\* In addition the peers answer: a transfer that stays in an open multi ends.
NetworkFairness ==
  /\ \A m \in Multis : SF_vars(SocketAction(m))
  /\ \A p \in Ptrs :
       SF_vars(\E code \in {"ok", "failed"} : TransferDone(p, code))

LiveSpec == FairSpec /\ NetworkFairness

----------------------------------------------------------------------------
(* Properties *)

\* Values stay in their ranges, and a closed Easy keeps no callback error alive.
TypeOK ==
  /\ ch \in [Easies -> Ptrs \cup {Nil}]
  /\ isInsideMultiHandle \in [Easies -> BOOLEAN]
  /\ callbackError \in [Easies -> BOOLEAN]
  /\ referenced \in [Easies -> BOOLEAN]
  /\ isOpen \in [Multis -> BOOLEAN]
  /\ amountOfHandles \in [Multis -> Int]
  /\ cbOnMessage \in [Multis -> {"unset", "set", "cleared"}]
  /\ handlePromiseMap \in [Multis -> [Ptrs -> Transfers \cup {Nil}]]
  /\ memberOf \in [Ptrs -> Multis \cup {Nil}]
  /\ current \in [Ptrs -> Transfers \cup {Nil}]
  /\ result \in [Transfers -> {"none", "ok", "failed"}]
  /\ msgs \subseteq Ptrs
  /\ at \in Places
  /\ activeMulti \in Multis \cup {Nil}
  /\ activeEasy \in Easies \cup {Nil}
  /\ promise \in [Transfers -> Promises]
  /\ settledBy \in [Transfers -> Transfers \cup {Nil}]
  /\ threw \in [Transfers -> BOOLEAN]
  /\ left \in [Transfers -> Exits]
  /\ \A e \in Easies : callbackError[e] => Open(e)

\* A CURL* libcurl still drives, or holds a message of, belongs to an open Easy
\* that knows it is inside a multi: the pointer ProcessMessages takes from
\* CURLINFO_PRIVATE (Multi.cc:538-543) is never that of a freed Easy, whatever
\* the order of close, remove, collection and re-entrant calls.
LiveHandles ==
  /\ \A p \in Ptrs :
       memberOf[p] # Nil =>
         /\ isOpen[memberOf[p]] \/ at = "aborted"
         /\ \E e \in Easies : ch[e] = p /\ isInsideMultiHandle[e]
  /\ \A p \in msgs : memberOf[p] # Nil

\* A pending promise of perform() is stored under its handle for as long as the
\* handle's transfer can still report, so the report will find it; it is only
\* out of reach once the handle left its multi unreported.
PendingIsTracked ==
  \A t \in Transfers :
    promise[t] = "pending" /\ left[t] = "none" =>
      \E p \in Ptrs : /\ current[p] = t /\ Unreported(p)
                      /\ handlePromiseMap[memberOf[p]][p] = t

\* A promise is settled by the transfer its perform() started, except when that
\* handle had left its multi unreported: only then can the entry it leaves in
\* handlePromiseMap meet a later transfer at the same address.
OwnResult ==
  \A t \in Transfers : settledBy[t] \notin {Nil, t} => left[t] # "none"

\* The verdict follows the transfer that is reported: rejected as aborted
\* exactly when a callback threw before the report, in the transfer or for a
\* duplicate made of its handle, never because of an error an earlier transfer
\* of the handle left behind, and resolved only on CURLE_OK.
VerdictMatchesTransfer ==
  \A t \in Transfers :
    promise[t] \in Settled =>
      LET by == settledBy[t] IN
      /\ by # Nil
      /\ promise[t] = "aborted" <=> threw[by]
      /\ promise[t] = "resolved" => result[by] = "ok"
      /\ promise[t] = "rejected" => result[by] = "failed"

\* When the loop regains control no message waits unread: neither a re-entrant
\* call from onMessage nor an early exit of ProcessMessages leaves one behind.
MessagesDrained == at = "loop" => msgs = {}

\* No later message, removal or address reuse settles a promise again.
PromiseFinal ==
  [][\A t \in Transfers :
       promise[t] \in Settled =>
         promise'[t] = promise[t] /\ settledBy'[t] = settledBy[t]]_vars

\* For disciplined callers getCount() is the number of handles inside, through
\* every order of additions, removals, closes and failed calls.
CountExact ==
  \A m \in Multis :
    isOpen[m] => amountOfHandles[m] = Cardinality({p \in Ptrs : memberOf[p] = m})

\* With disciplined callers and peers that answer, every promise perform()
\* returned settles, unless its Multi is closed.
EveryPromiseSettles ==
  \A t \in Transfers :
    promise[t] = "pending" ~> (promise[t] \in Settled \/ left[t] = "closed")

----------------------------------------------------------------------------
(* What perform() promises: PerformContract *)

ByPerform(t) == promise[t] \notin {"unused", "none"}

Contract == INSTANCE PerformContract WITH
  phase <- [t \in Transfers |->
              IF ~ByPerform(t) THEN "idle"
              ELSE IF promise[t] # "pending" THEN promise[t]
              ELSE IF left[t] = "none" THEN "waiting" ELSE "abandoned"],
  answer <- [t \in Transfers |-> IF ByPerform(t) THEN result[t] ELSE "none"],
  threw <- [t \in Transfers |-> ByPerform(t) /\ threw[t]]

\* Under disciplined callers every step of the native code is a step of the
\* contract or invisible to it, and an answered call is eventually settled.
ImplementsContract == Contract!Spec
=============================================================================
