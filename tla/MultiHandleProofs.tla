------------------------- MODULE MultiHandleProofs -------------------------
(***************************************************************************)
(* Proofs about MultiHandle, for every number of multis, handles,          *)
(* addresses and calls, with and without notifications, and for every      *)
(* caller.                                                                 *)
(***************************************************************************)
EXTENDS MultiHandle, FiniteSetTheorems, TLAPS

----------------------------------------------------------------------------
(* The inductive invariant *)

\* Two open handles never share a CURL*.
Addresses ==
  \A e, x \in Easies : Open(e) /\ ch[e] = ch[x] => e = x

\* Native code on the stack belongs to a multi; a callback on the stack to a
\* transfer that is still running in it.
Stack ==
  /\ at \in {"libcurl", "callback", "drain", "message"} => activeMulti \in Multis
  /\ at = "callback" =>
       /\ activeEasy \in Easies /\ Open(activeEasy)
       /\ memberOf[ch[activeEasy]] = activeMulti
       /\ Running(ch[activeEasy])

\* libcurl's bookkeeping: one transfer per CURL* inside a multi, and messages
\* only for finished transfers.
Members ==
  /\ \A p \in Ptrs : memberOf[p] # Nil => current[p] \in Transfers
  /\ \A p \in Ptrs : memberOf[p] = Nil => current[p] = Nil /\ p \notin msgs
  /\ \A p, q \in Ptrs : current[p] # Nil /\ current[p] = current[q] => p = q
  /\ \A p \in msgs : result[current[p]] # "none"

\* A transfer that was not started has no history, one that left is in no multi.
History ==
  /\ \A t \in Transfers :
       promise[t] = "unused" =>
         /\ result[t] = "none" /\ settledBy[t] = Nil /\ ~threw[t] /\ left[t] = "none"
         /\ \A p \in Ptrs : current[p] # t
  /\ \A t \in Transfers : left[t] # "none" => \A p \in Ptrs : current[p] # t

\* A stored deferred is pending and stored once; if its handle did not leave,
\* the handle's transfer is the one it waits for.
StoredPromises ==
  \A m \in Multis, p \in Ptrs :
    LET t == handlePromiseMap[m][p] IN
    t # Nil =>
      /\ promise[t] = "pending"
      /\ left[t] = "none" => memberOf[p] = m /\ current[p] = t
      /\ \A n \in Multis, q \in Ptrs : handlePromiseMap[n][q] = t => n = m /\ q = p

\* Until a transfer is reported, its handle remembers exactly whether a callback
\* of this transfer, or of a duplicate of the handle made meanwhile, threw.
ErrorsAreCurrent ==
  \A e \in Easies :
    Open(e) /\ Unreported(ch[e]) => (callbackError[e] <=> threw[current[ch[e]]])

\* The transfer that settled a promise was reported.
SettledByReported ==
  \A t \in Transfers :
    /\ promise[t] \in Settled <=> settledBy[t] # Nil
    /\ settledBy[t] # Nil =>
         /\ promise[settledBy[t]] # "unused"
         /\ \A p \in Ptrs : current[p] = settledBy[t] => ~Unreported(p)

IInv ==
  /\ TypeOK
  /\ Addresses
  /\ Stack
  /\ Members
  /\ History
  /\ StoredPromises
  /\ ErrorsAreCurrent
  /\ SettledByReported
  /\ LiveHandles
  /\ PendingIsTracked
  /\ OwnResult
  /\ VerdictMatchesTransfer

----------------------------------------------------------------------------
(* What Detach does, address by address *)

\* Detaching the addresses in S clears what libcurl keeps of them and nothing
\* else, and marks the transfers they carried unreported as having left.
LEMMA DetachFacts ==
  ASSUME TypeOK, NEW S \in SUBSET Ptrs, NEW how, Detach(S, how), result' = result
  PROVE  /\ \A p \in S : memberOf'[p] = Nil /\ current'[p] = Nil /\ p \notin msgs'
         /\ \A p \in S : ~Unreported(p)'
         /\ \A p \in Ptrs \ S :
              /\ memberOf'[p] = memberOf[p] /\ current'[p] = current[p]
              /\ p \in msgs' <=> p \in msgs
              /\ Unreported(p)' <=> Unreported(p)
         /\ \A t \in Transfers :
              \/ left'[t] = left[t] /\ \A p \in S : current[p] = t => ~Unreported(p)
              \/ left'[t] = how /\ \E p \in S : current[p] = t /\ Unreported(p)
<1>1. \A p \in S : memberOf'[p] = Nil /\ current'[p] = Nil /\ p \notin msgs'
  BY DEF Detach
<1>2. \A p \in Ptrs \ S : /\ memberOf'[p] = memberOf[p] /\ current'[p] = current[p]
                          /\ p \in msgs' <=> p \in msgs
  BY DEF Detach
<1>3. \A t \in Transfers :
        \/ left'[t] = left[t] /\ \A p \in S : current[p] = t => ~Unreported(p)
        \/ left'[t] = how /\ \E p \in S : current[p] = t /\ Unreported(p)
  <2>. TAKE t \in Transfers
  <2>. DEFINE gone == \E p \in S : current[p] = t /\ Unreported(p)
  <2>1. left'[t] = IF gone THEN how ELSE left[t]
    BY DEF Detach
  <2>. QED
    BY <2>1
<1>4. \A p \in S : ~Unreported(p)'
  BY <1>1 DEF Unreported
<1>5. \A p \in Ptrs \ S : Unreported(p)' <=> Unreported(p)
  BY <1>2 DEF Unreported
<1>. QED
  BY <1>1, <1>2, <1>3, <1>4, <1>5

\* Whoever is detached, and why, the books kept for promises stay right: a
\* transfer that still had to report is marked as having left.
LEMMA DetachKeeps ==
  ASSUME IInv, NEW S \in SUBSET Ptrs, NEW how \in Exits \ {"none"}, Detach(S, how),
         UNCHANGED <<handlePromiseMap, result, promise, settledBy, threw>>
  PROVE  /\ memberOf' \in [Ptrs -> Multis \cup {Nil}]
         /\ current' \in [Ptrs -> Transfers \cup {Nil}]
         /\ msgs' \subseteq Ptrs
         /\ left' \in [Transfers -> Exits]
         /\ Members' /\ History' /\ StoredPromises' /\ SettledByReported'
         /\ PendingIsTracked' /\ OwnResult' /\ VerdictMatchesTransfer'
<1>1. /\ \A p \in S : memberOf'[p] = Nil /\ current'[p] = Nil /\ p \notin msgs'
      /\ \A p \in S : ~Unreported(p)'
      /\ \A p \in Ptrs \ S :
           /\ memberOf'[p] = memberOf[p] /\ current'[p] = current[p]
           /\ p \in msgs' <=> p \in msgs
           /\ Unreported(p)' <=> Unreported(p)
      /\ \A t \in Transfers :
           \/ left'[t] = left[t] /\ \A p \in S : current[p] = t => ~Unreported(p)
           \/ left'[t] = how /\ \E p \in S : current[p] = t /\ Unreported(p)
  BY DetachFacts DEF IInv
<1>2. /\ memberOf' \in [Ptrs -> Multis \cup {Nil}]
      /\ current' \in [Ptrs -> Transfers \cup {Nil}]
      /\ msgs' \subseteq Ptrs
  BY DEF IInv, TypeOK, Detach
<1>3. left' \in [Transfers -> Exits]
  BY <1>1 DEF IInv, TypeOK, Detach
<1>4. Members'
  <2>1. \A p \in Ptrs : memberOf'[p] # Nil => current'[p] \in Transfers
    BY <1>1 DEF IInv, Members
  <2>2. \A p \in Ptrs : memberOf'[p] = Nil => current'[p] = Nil /\ p \notin msgs'
    BY <1>1 DEF IInv, Members
  <2>3. \A p, q \in Ptrs : current'[p] # Nil /\ current'[p] = current'[q] => p = q
    BY <1>1 DEF IInv, Members
  <2>4. \A p \in msgs' : result'[current'[p]] # "none"
    BY <1>1, <1>2 DEF IInv, Members
  <2>. QED
    BY <2>1, <2>2, <2>3, <2>4 DEF Members
<1>5. History'
  <2>1. ASSUME NEW t \in Transfers, promise[t] = "unused"
        PROVE  left'[t] = "none" /\ \A p \in Ptrs : current'[p] # t
    BY <2>1, <1>1, NilIsNoValue DEF IInv, History
  <2>2. ASSUME NEW t \in Transfers, left'[t] # "none"
        PROVE  \A p \in Ptrs : current'[p] # t
    BY <2>2, <1>1, NilIsNoValue DEF IInv, History, Members
  <2>. QED
    BY <2>1, <2>2 DEF IInv, History
<1>6. StoredPromises'
  <2>. SUFFICES ASSUME NEW m \in Multis, NEW p \in Ptrs, handlePromiseMap[m][p] # Nil,
                       left'[handlePromiseMap[m][p]] = "none"
                PROVE  memberOf'[p] = m /\ current'[p] = handlePromiseMap[m][p]
    BY DEF IInv, StoredPromises
  <2>. DEFINE t == handlePromiseMap[m][p]
  <2>1. t \in Transfers /\ promise[t] = "pending"
    BY DEF IInv, TypeOK, StoredPromises
  <2>2. left[t] = "none" /\ \A q \in S : current[q] = t => ~Unreported(q)
    BY <1>1, <2>1
  <2>3. memberOf[p] = m /\ current[p] = t
    BY <2>2 DEF IInv, StoredPromises
  <2>4. Unreported(p)
    BY <2>1, <2>2, <2>3 DEF IInv, PendingIsTracked, Members
  <2>. QED
    BY <2>2, <2>3, <2>4, <1>1
<1>7. SettledByReported'
  BY <1>1, NilIsNoValue DEF IInv, TypeOK, SettledByReported
<1>8. PendingIsTracked'
  <2>. SUFFICES ASSUME NEW t \in Transfers, promise[t] = "pending", left'[t] = "none"
                PROVE  \E p \in Ptrs : /\ current'[p] = t /\ Unreported(p)'
                                       /\ handlePromiseMap[memberOf'[p]][p] = t
    BY DEF PendingIsTracked
  <2>1. left[t] = "none" /\ \A p \in S : current[p] = t => ~Unreported(p)
    BY <1>1
  <2>2. PICK p \in Ptrs : /\ current[p] = t /\ Unreported(p)
                          /\ handlePromiseMap[memberOf[p]][p] = t
    BY <2>1 DEF IInv, PendingIsTracked
  <2>. QED
    BY <2>1, <2>2, <1>1
<1>9. OwnResult' /\ VerdictMatchesTransfer'
  BY <1>1 DEF IInv, TypeOK, OwnResult, VerdictMatchesTransfer
<1>. QED
  BY <1>2, <1>3, <1>4, <1>5, <1>6, <1>7, <1>8, <1>9

----------------------------------------------------------------------------
(* The invariant is kept, one lemma for each action *)

\* Steps that only move control, or the callback settings of a Multi, or the
\* reachability of an Easy.
LEMMA QuietStep ==
  ASSUME IInv,
         \/ \E e \in Easies : DropReference(e)
         \/ \E m \in Multis, set \in BOOLEAN : OnMessage(m, set)
         \/ \E m \in Multis : SocketAction(m)
         \/ \E e \in Easies : TransferCallback(e)
         \/ StartDrain
         \/ MessageReturns
         \/ DrainDone
  PROVE  IInv'
<1>. USE DEF easyVars, multiVars, curlVars, loopVars, histVars
<1>1. /\ UNCHANGED <<ch, isInsideMultiHandle, callbackError, isOpen,
                     amountOfHandles, handlePromiseMap>>
      /\ UNCHANGED <<curlVars, histVars>>
      /\ at' # "aborted" /\ at # "aborted"
  BY DEF DropReference, OnMessage, SocketAction, TransferCallback, StartDrain,
         MessageReturns, DrainDone, JavaScript
<1>2. TypeOK'
  <2>1. /\ at' \in Places /\ activeMulti' \in Multis \cup {Nil}
        /\ activeEasy' \in Easies \cup {Nil}
    BY DEF IInv, TypeOK, DropReference, OnMessage, SocketAction, TransferCallback,
           StartDrain, MessageReturns, DrainDone, Places
  <2>2. referenced' \in [Easies -> BOOLEAN]
    BY DEF IInv, TypeOK, DropReference, OnMessage, SocketAction, TransferCallback,
           StartDrain, MessageReturns, DrainDone
  <2>3. cbOnMessage' \in [Multis -> {"unset", "set", "cleared"}]
    BY DEF IInv, TypeOK, Cleared, DropReference, OnMessage, SocketAction, TransferCallback,
           StartDrain, MessageReturns, DrainDone
  <2>. QED
    BY <1>1, <2>1, <2>2, <2>3 DEF IInv, TypeOK, Open
<1>3. Stack'
  BY DEF IInv, Stack, TypeOK, Open, Running, DropReference, OnMessage, SocketAction,
         TransferCallback, StartDrain, MessageReturns, DrainDone
<1>4. Addresses' /\ Members' /\ History' /\ StoredPromises'
  BY <1>1 DEF IInv, Addresses, Members, History, StoredPromises, Open
<1>5. ErrorsAreCurrent' /\ SettledByReported' /\ PendingIsTracked'
  BY <1>1 DEF IInv, ErrorsAreCurrent, SettledByReported, PendingIsTracked,
              Open, Unreported
<1>6. LiveHandles' /\ OwnResult' /\ VerdictMatchesTransfer'
  BY <1>1 DEF IInv, LiveHandles, OwnResult, VerdictMatchesTransfer
<1>. QED
  BY <1>2, <1>3, <1>4, <1>5, <1>6 DEF IInv

\* A closed Easy gets an address no open Easy has, so one without a transfer.
\* Of what a new Easy leaves alone, and of the addresses, nothing gets lost.
LEMMA ConstructFacts ==
  ASSUME NEW e \in Easies, NEW p \in Ptrs, IInv, Construct(e, p),
         callbackError' \in [Easies -> BOOLEAN], threw' \in [Transfers -> BOOLEAN],
         \A x \in Easies : callbackError'[x] => Open(x)
  PROVE  /\ TypeOK' /\ Addresses' /\ Stack' /\ LiveHandles' /\ Members' /\ StoredPromises'
         /\ SettledByReported' /\ PendingIsTracked' /\ OwnResult'
         /\ ~Unreported(p) /\ ch'[e] = p
         /\ \A x \in Easies : x # e => ch'[x] = ch[x]
<1>. USE DEF multiVars, curlVars, loopVars, histVars
<1>1. memberOf[p] = Nil /\ ~Unreported(p)
  BY DEF IInv, LiveHandles, Construct, Unreported
<1>2. /\ ch'[e] = p
      /\ \A x \in Easies : x # e => ch'[x] = ch[x]
      /\ p \in Ptrs /\ p # Nil
  BY NilIsNoValue DEF IInv, TypeOK, Construct
<1>3. TypeOK'
  <2>1. \A x \in Easies : callbackError'[x] => Open(x)'
    BY <1>2 DEF Construct, Open
  <2>. QED
    BY <2>1 DEF IInv, TypeOK, Construct
<1>4. Addresses'
  BY <1>2 DEF IInv, Addresses, Construct, Open
<1>5. Stack'
  BY <1>2 DEF IInv, Stack, Construct, Open, Running
<1>6. LiveHandles'
  BY <1>1, <1>2, NilIsNoValue DEF IInv, TypeOK, LiveHandles, Construct, Open, JavaScript
<1>7. Members' /\ StoredPromises' /\ SettledByReported'
  BY DEF IInv, Construct, Members, StoredPromises, SettledByReported, Unreported
<1>8. PendingIsTracked' /\ OwnResult'
  BY DEF IInv, Construct, PendingIsTracked, OwnResult, Unreported
<1>. QED
  BY <1>1, <1>2, <1>3, <1>4, <1>5, <1>6, <1>7, <1>8

LEMMA NewEasyStep ==
  ASSUME NEW e \in Easies, NEW p \in Ptrs, IInv, NewEasy(e, p)
  PROVE  IInv'
<1>. USE DEF multiVars, curlVars, loopVars, histVars
<1>1. /\ TypeOK' /\ Addresses' /\ Stack' /\ LiveHandles' /\ Members' /\ StoredPromises'
      /\ SettledByReported' /\ PendingIsTracked' /\ OwnResult'
      /\ ~Unreported(p) /\ ch'[e] = p
      /\ \A x \in Easies : x # e => ch'[x] = ch[x]
  <2>1. /\ Construct(e, p)
        /\ callbackError' \in [Easies -> BOOLEAN] /\ threw' \in [Transfers -> BOOLEAN]
        /\ \A x \in Easies : callbackError'[x] => Open(x)
    BY DEF NewEasy, IInv, TypeOK
  <2>. QED
    BY <2>1, ConstructFacts
<1>2. ErrorsAreCurrent'
  BY <1>1 DEF IInv, ErrorsAreCurrent, NewEasy, Construct, Open, Unreported
<1>3. History' /\ VerdictMatchesTransfer'
  BY DEF IInv, NewEasy, Construct, History, VerdictMatchesTransfer
<1>. QED
  BY <1>1, <1>2, <1>3 DEF IInv

\* The error of a duplicate's HSTSREADFUNCTION taints the original it is kept at
\* and the transfer the original has not reported, together.
LEMMA DupHandleThrowsStep ==
  ASSUME NEW orig \in Easies, NEW e \in Easies, NEW p \in Ptrs, IInv,
         DupHandleThrows(orig, e, p)
  PROVE  IInv'
<1>. USE DEF multiVars, curlVars, loopVars, histVars
<1>. DEFINE q == ch[orig]
            t == current[q]
<1>1. /\ Construct(e, p) /\ Open(orig) /\ orig # e /\ q \in Ptrs
      /\ UNCHANGED <<curlVars, promise, settledBy, left>>
  BY DEF DupHandleThrows, Construct, IInv, TypeOK, Open
<1>2. Unreported(q) => t \in Transfers
  BY <1>1 DEF IInv, Members, Unreported
<1>3. /\ callbackError'[orig]
      /\ \A x \in Easies : x # orig => (callbackError'[x] <=> callbackError[x])
      /\ callbackError' \in [Easies -> BOOLEAN]
  BY DEF DupHandleThrows, IInv, TypeOK
<1>4. /\ threw' \in [Transfers -> BOOLEAN]
      /\ \A u \in Transfers : threw'[u] <=> threw[u] \/ (Unreported(q) /\ u = t)
  <2>1. CASE Unreported(q)
    BY <2>1, <1>2 DEF DupHandleThrows, IInv, TypeOK
  <2>2. CASE ~Unreported(q)
    BY <2>2 DEF DupHandleThrows, IInv, TypeOK
  <2>. QED
    BY <2>1, <2>2
<1>5. /\ TypeOK' /\ Addresses' /\ Stack' /\ LiveHandles' /\ Members' /\ StoredPromises'
      /\ SettledByReported' /\ PendingIsTracked' /\ OwnResult'
      /\ ~Unreported(p) /\ ch'[e] = p
      /\ \A x \in Easies : x # e => ch'[x] = ch[x]
  <2>1. \A x \in Easies : callbackError'[x] => Open(x)
    BY <1>1, <1>3 DEF IInv, TypeOK
  <2>. QED
    BY <2>1, <1>1, <1>3, <1>4, ConstructFacts
<1>6. History'
  <2>1. Unreported(q) => promise[t] # "unused"
    BY <1>1, <1>2 DEF IInv, History
  <2>. QED
    BY <2>1, <1>1, <1>4 DEF IInv, History
<1>7. ErrorsAreCurrent'
  <2>. SUFFICES ASSUME NEW x \in Easies, Open(x)', Unreported(ch[x])'
                PROVE  callbackError'[x] <=> threw'[current[ch'[x]]]
    BY <1>1 DEF ErrorsAreCurrent
  <2>1. x # e /\ ch'[x] = ch[x] /\ Open(x) /\ Unreported(ch[x])
    BY <1>1, <1>5 DEF Open, Unreported
  <2>2. ch[x] \in Ptrs /\ current[ch[x]] \in Transfers
    BY <2>1 DEF IInv, TypeOK, Members, Open, Unreported
  <2>3. CASE x = orig
    BY <2>1, <2>2, <2>3, <1>3, <1>4
  <2>4. CASE x # orig
    <3>1. current[ch[x]] # t
      BY <2>1, <2>2, <2>4, <1>1, NilIsNoValue DEF IInv, Addresses, Members
    <3>. QED
      BY <3>1, <2>1, <2>2, <2>4, <1>3, <1>4 DEF IInv, ErrorsAreCurrent
  <2>. QED
    BY <2>3, <2>4
<1>8. VerdictMatchesTransfer'
  <2>. SUFFICES ASSUME NEW u \in Transfers, promise[u] \in Settled
                PROVE  threw'[settledBy[u]] <=> threw[settledBy[u]]
    BY <1>1 DEF IInv, VerdictMatchesTransfer
  <2>1. settledBy[u] \in Transfers /\ ~(Unreported(q) /\ t = settledBy[u])
    BY <1>1 DEF IInv, TypeOK, SettledByReported
  <2>. QED
    BY <2>1, <1>4
<1>. QED
  BY <1>5, <1>6, <1>7, <1>8 DEF IInv

\* reset() forgets the error of the handle and that its transfer threw, both.
LEMMA ResetEasyStep ==
  ASSUME NEW e \in Easies, IInv, ResetEasy(e)
  PROVE  IInv'
<1>. USE DEF multiVars, curlVars, loopVars
<1>. DEFINE p == ch[e]
<1>1. /\ p \in Ptrs
      /\ ~callbackError'[e]
      /\ \A x \in Easies : x # e => (callbackError'[x] <=> callbackError[x])
      /\ UNCHANGED <<ch, isInsideMultiHandle, referenced, multiVars, curlVars,
                     loopVars, promise, settledBy, left>>
  BY DEF IInv, TypeOK, ResetEasy, ResetCallbackError, Open
<1>2. Unreported(p) => current[p] \in Transfers
  BY <1>1 DEF IInv, Members, Unreported
<1>3. /\ threw' \in [Transfers -> BOOLEAN]
      /\ \A t \in Transfers :
           threw'[t] <=> threw[t] /\ ~(Unreported(p) /\ current[p] = t)
  <2>1. CASE Unreported(p)
    BY <2>1, <1>2 DEF IInv, TypeOK, ResetEasy
  <2>2. CASE ~Unreported(p)
    BY <2>2 DEF IInv, TypeOK, ResetEasy
  <2>. QED
    BY <2>1, <2>2
<1>4. TypeOK'
  <2>1. callbackError' \in [Easies -> BOOLEAN]
    BY DEF IInv, TypeOK, ResetEasy, ResetCallbackError
  <2>. QED
    BY <2>1, <1>1, <1>3 DEF IInv, TypeOK, Open
<1>5. Addresses' /\ Stack' /\ Members' /\ StoredPromises' /\ LiveHandles'
  BY <1>1 DEF IInv, Addresses, Stack, Members, StoredPromises, LiveHandles,
              Open, Running
<1>6. History'
  BY <1>1, <1>3 DEF IInv, History
<1>7. ErrorsAreCurrent'
  <2>. SUFFICES ASSUME NEW x \in Easies, Open(x)', Unreported(ch[x])'
                PROVE  callbackError'[x] <=> threw'[current[ch[x]]]
    BY <1>1 DEF ErrorsAreCurrent
  <2>1. Open(x) /\ Unreported(ch[x]) /\ ch[x] \in Ptrs /\ current[ch[x]] \in Transfers
    BY <1>1 DEF IInv, TypeOK, Members, Open, Unreported
  <2>2. CASE x = e
    BY <2>1, <2>2, <1>1, <1>3
  <2>3. CASE x # e
    <3>1. current[ch[x]] # current[p]
      BY <2>1, <2>3, <1>1, NilIsNoValue DEF IInv, Addresses, Members
    <3>. QED
      BY <3>1, <2>1, <2>3, <1>1, <1>3 DEF IInv, ErrorsAreCurrent
  <2>. QED
    BY <2>2, <2>3
<1>8. SettledByReported' /\ PendingIsTracked' /\ OwnResult'
  BY <1>1 DEF IInv, SettledByReported, PendingIsTracked, OwnResult, Unreported
<1>9. VerdictMatchesTransfer'
  <2>. SUFFICES ASSUME NEW t \in Transfers, promise[t] \in Settled
                PROVE  threw'[settledBy[t]] <=> threw[settledBy[t]]
    BY <1>1 DEF IInv, VerdictMatchesTransfer
  <2>1. settledBy[t] \in Transfers
        /\ ~(Unreported(p) /\ current[p] = settledBy[t])
    BY <1>1 DEF IInv, TypeOK, SettledByReported
  <2>. QED
    BY <2>1, <1>3
<1>. QED
  BY <1>4, <1>5, <1>6, <1>7, <1>8, <1>9 DEF IInv

\* Disposing of an Easy takes its address out of its multi: everything the
\* invariant says of a member address has to survive for the others.
LEMMA DisposeStep ==
  ASSUME NEW e \in Easies, NEW how \in {"closed", "collected"}, IInv, Open(e),
         at = "loop" \/ (JavaScript /\ ~isInsideMultiHandle[e]),
         Dispose(e, how)
  PROVE  IInv'
<1>. USE DEF multiVars, loopVars
<1>. DEFINE p == ch[e]
<1>1. /\ p \in Ptrs /\ ch'[e] = Nil /\ ~callbackError'[e]
      /\ ch' \in [Easies -> Ptrs \cup {Nil}]
      /\ \A x \in Easies \ {e} : ch'[x] = ch[x] /\ (callbackError'[x] <=> callbackError[x])
                              /\ (isInsideMultiHandle'[x] <=> isInsideMultiHandle[x])
      /\ UNCHANGED <<multiVars, result, loopVars, promise, settledBy, threw>>
  BY DEF IInv, TypeOK, Open, Dispose, ResetCallbackError
<1>2. \A x \in Easies \ {e} : Open(x) => ch[x] # p
  BY DEF IInv, Addresses
<1>3. Detach({p}, how) /\ {p} \in SUBSET Ptrs /\ how \in Exits \ {"none"}
  BY <1>1 DEF Dispose, Exits
<1>4. /\ memberOf' \in [Ptrs -> Multis \cup {Nil}]
      /\ current' \in [Ptrs -> Transfers \cup {Nil}]
      /\ msgs' \subseteq Ptrs
      /\ left' \in [Transfers -> Exits]
      /\ Members' /\ History' /\ StoredPromises' /\ SettledByReported'
      /\ PendingIsTracked' /\ OwnResult' /\ VerdictMatchesTransfer'
  BY <1>1, <1>3, DetachKeeps
<1>5. /\ memberOf'[p] = Nil
      /\ \A q \in Ptrs \ {p} : /\ memberOf'[q] = memberOf[q] /\ current'[q] = current[q]
                               /\ q \in msgs' <=> q \in msgs
  BY <1>1, <1>3 DEF Detach
<1>6. TypeOK'
  <2>1. /\ isInsideMultiHandle' \in [Easies -> BOOLEAN]
        /\ callbackError' \in [Easies -> BOOLEAN]
        /\ referenced' \in [Easies -> BOOLEAN]
    BY DEF IInv, TypeOK, Dispose, ResetCallbackError
  <2>. QED
    BY <2>1, <1>1, <1>4 DEF IInv, TypeOK, Open
<1>7. Addresses'
  BY <1>1 DEF IInv, Addresses, Open
<1>8. Stack'
  BY <1>1, <1>2, <1>5 DEF IInv, TypeOK, Stack, Open, Running, LiveHandles, JavaScript, Addresses
<1>9. ErrorsAreCurrent'
  <2>. SUFFICES ASSUME NEW x \in Easies, Open(x)', Unreported(ch[x])'
                PROVE  callbackError'[x] <=> threw[current'[ch'[x]]]
    BY <1>1 DEF ErrorsAreCurrent
  <2>1. x # e /\ ch[x] \in Ptrs \ {p} /\ ch'[x] = ch[x] /\ Open(x)
    BY <1>1, <1>2 DEF Open, IInv, TypeOK
  <2>2. Unreported(ch[x])
    BY <2>1, <1>1, <1>5 DEF Unreported
  <2>. QED
    BY <2>1, <2>2, <1>1, <1>5 DEF IInv, ErrorsAreCurrent
<1>10. LiveHandles'
  <2>. SUFFICES ASSUME NEW q \in Ptrs, memberOf'[q] # Nil
                PROVE  /\ isOpen[memberOf'[q]] \/ at = "aborted"
                       /\ \E x \in Easies : ch'[x] = q /\ isInsideMultiHandle'[x]
    BY <1>1, <1>4 DEF LiveHandles, Members
  <2>1. PICK x \in Easies : ch[x] = q /\ isInsideMultiHandle[x]
    BY <1>5 DEF IInv, LiveHandles
  <2>2. isOpen[memberOf'[q]] \/ at = "aborted"
    BY <1>5 DEF IInv, LiveHandles
  <2>. QED
    BY <2>1, <2>2, <1>1, <1>5
<1>. QED
  BY <1>4, <1>6, <1>7, <1>8, <1>9, <1>10 DEF IInv

\* A handle that is added brings a fresh transfer: no error, no promise and no
\* reference to it is left from an earlier one.
LEMMA AddStep ==
  ASSUME NEW m \in Multis, NEW e \in Easies, NEW t \in Transfers, IInv,
         AddHandle(m, e, t) \/ Perform(m, e, t)
  PROVE  IInv'
<1>. DEFINE p == ch[e]
<1>. Add(m, e, t)
  BY DEF AddHandle, Perform
<1>1. /\ p \in Ptrs /\ p # Nil /\ t # Nil /\ memberOf[p] = Nil /\ ~Unreported(p)
      /\ ~callbackError'[e] /\ isInsideMultiHandle'[e]
      /\ \A x \in Easies \ {e} : /\ callbackError'[x] <=> callbackError[x]
                                 /\ isInsideMultiHandle'[x] <=> isInsideMultiHandle[x]
      /\ UNCHANGED <<ch, referenced, isOpen, cbOnMessage, result, msgs, at,
                     activeMulti, activeEasy, settledBy, threw, left>>
      /\ at # "aborted" /\ isOpen[m]
  BY NilIsNoValue DEF IInv, TypeOK, Add, Open, Unreported, ResetCallbackError,
                      loopVars, JavaScript
<1>2. /\ promise[t] = "unused" /\ result[t] = "none" /\ settledBy[t] = Nil
      /\ ~threw[t] /\ left[t] = "none" /\ p \notin msgs
      /\ \A q \in Ptrs : current[q] # t
  BY <1>1 DEF IInv, History, Members, Add
<1>3. /\ memberOf'[p] = m /\ current'[p] = t
      /\ \A q \in Ptrs \ {p} : memberOf'[q] = memberOf[q] /\ current'[q] = current[q]
  BY <1>1 DEF IInv, TypeOK, Add
<1>4. /\ promise'[t] \in {"none", "pending"}
      /\ \A u \in Transfers \ {t} : promise'[u] = promise[u]
  BY DEF IInv, TypeOK, AddHandle, Perform
<1>5. /\ promise'[t] = "pending" => handlePromiseMap'[m][p] = t
      /\ promise'[t] = "none" => handlePromiseMap' = handlePromiseMap
      /\ \A n \in Multis, q \in Ptrs :
           \/ handlePromiseMap'[n][q] = handlePromiseMap[n][q]
           \/ promise'[t] = "pending" /\ n = m /\ q = p
  BY <1>1, <1>2 DEF IInv, TypeOK, AddHandle, Perform
<1>6. TypeOK'
  <2>1. promise' \in [Transfers -> Promises]
    BY DEF IInv, TypeOK, AddHandle, Perform, Promises
  <2>2. handlePromiseMap' \in [Multis -> [Ptrs -> Transfers \cup {Nil}]]
    <3>1. CASE UNCHANGED handlePromiseMap
      BY <3>1 DEF IInv, TypeOK
    <3>2. CASE handlePromiseMap' = [handlePromiseMap EXCEPT ![m][p] = t]
      <4>. DEFINE row == [handlePromiseMap[m] EXCEPT ![p] = t]
      <4>1. row \in [Ptrs -> Transfers \cup {Nil}]
        BY <1>1 DEF IInv, TypeOK
      <4>2. handlePromiseMap' = [handlePromiseMap EXCEPT ![m] = row]
        BY <3>2
      <4>. QED
        BY <4>1, <4>2 DEF IInv, TypeOK
    <3>. QED
      BY <3>1, <3>2 DEF AddHandle, Perform
  <2>3. /\ isInsideMultiHandle' \in [Easies -> BOOLEAN]
        /\ callbackError' \in [Easies -> BOOLEAN]
        /\ memberOf' \in [Ptrs -> Multis \cup {Nil}]
        /\ current' \in [Ptrs -> Transfers \cup {Nil}]
        /\ amountOfHandles' \in [Multis -> Int]
    BY <1>1 DEF IInv, TypeOK, Add, ResetCallbackError
  <2>. QED
    BY <2>1, <2>2, <2>3, <1>1 DEF IInv, TypeOK, Open
<1>7. Addresses' /\ Stack'
  BY <1>1, <1>3 DEF IInv, Addresses, Stack, Open, Running, TypeOK
<1>8. Members'
  <2>1. \A q \in Ptrs : memberOf'[q] # Nil => current'[q] \in Transfers
    BY <1>1, <1>3 DEF IInv, Members
  <2>2. \A q \in Ptrs : memberOf'[q] = Nil => current'[q] = Nil /\ q \notin msgs'
    BY <1>1, <1>3, NilIsNoValue DEF IInv, Members
  <2>3. \A q, r \in Ptrs : current'[q] # Nil /\ current'[q] = current'[r] => q = r
    BY <1>2, <1>3 DEF IInv, Members
  <2>4. \A q \in msgs' : result'[current'[q]] # "none"
    BY <1>1, <1>2, <1>3 DEF IInv, Members, TypeOK
  <2>. QED
    BY <2>1, <2>2, <2>3, <2>4 DEF Members
<1>9. History'
  BY <1>1, <1>2, <1>3, <1>4 DEF IInv, History
<1>10. StoredPromises'
  <2>. SUFFICES ASSUME NEW n \in Multis, NEW q \in Ptrs, handlePromiseMap'[n][q] # Nil
                PROVE  LET u == handlePromiseMap'[n][q] IN
                       /\ promise'[u] = "pending"
                       /\ left'[u] = "none" => memberOf'[q] = n /\ current'[q] = u
                       /\ \A k \in Multis, r \in Ptrs :
                            handlePromiseMap'[k][r] = u => k = n /\ r = q
    BY DEF StoredPromises
  <2>1. \A k \in Multis, r \in Ptrs :
          handlePromiseMap[k][r] # t /\ handlePromiseMap[k][r] \in Transfers \cup {Nil}
    BY <1>1, <1>2 DEF IInv, TypeOK, StoredPromises
  <2>2. CASE handlePromiseMap'[n][q] = t
    BY <2>1, <2>2, <1>1, <1>3, <1>4, <1>5
  <2>3. CASE handlePromiseMap'[n][q] # t
    <3>1. handlePromiseMap'[n][q] = handlePromiseMap[n][q]
      BY <2>3, <1>5
    <3>2. left[handlePromiseMap[n][q]] = "none" => q # p
      BY <3>1, <2>3, <1>1, NilIsNoValue DEF IInv, StoredPromises
    <3>. QED
      BY <2>1, <2>3, <3>1, <3>2, <1>1, <1>3, <1>4, <1>5 DEF IInv, StoredPromises
  <2>. QED
    BY <2>2, <2>3
<1>11. ErrorsAreCurrent'
  <2>. SUFFICES ASSUME NEW x \in Easies, Open(x), Unreported(ch[x])'
                PROVE  callbackError'[x] <=> threw[current'[ch[x]]]
    BY <1>1 DEF ErrorsAreCurrent, Open
  <2>1. CASE x = e
    BY <2>1, <1>1, <1>2, <1>3
  <2>2. CASE x # e
    <3>1. ch[x] \in Ptrs \ {p}
      BY <2>2 DEF IInv, TypeOK, Addresses, Open
    <3>2. Unreported(ch[x])
      BY <3>1, <1>1, <1>3 DEF Unreported
    <3>. QED
      BY <2>2, <3>1, <3>2, <1>1, <1>3 DEF IInv, ErrorsAreCurrent
  <2>. QED
    BY <2>1, <2>2
<1>12. SettledByReported'
  <2>1. \A u \in Transfers : settledBy[u] # t
    BY <1>1, <1>2 DEF IInv, SettledByReported
  <2>2. \A u \in Transfers : promise'[u] \in Settled <=> promise[u] \in Settled
    BY <1>2, <1>4 DEF Settled
  <2>3. \A u \in Transfers : settledBy[u] \in Transfers \cup {Nil}
    BY DEF IInv, TypeOK
  <2>4. \A q \in Ptrs \ {p} : Unreported(q)' <=> Unreported(q)
    BY <1>1, <1>3 DEF Unreported
  <2>. QED
    BY <2>1, <2>2, <2>3, <2>4, <1>1, <1>3, <1>4 DEF IInv, SettledByReported
<1>13. LiveHandles'
  <2>1. \A q \in msgs' : memberOf'[q] # Nil
    BY <1>1, <1>2, <1>3 DEF IInv, TypeOK, LiveHandles
  <2>. SUFFICES ASSUME NEW q \in Ptrs, memberOf'[q] # Nil
                PROVE  /\ isOpen[memberOf'[q]]
                       /\ \E x \in Easies : ch[x] = q /\ isInsideMultiHandle'[x]
    BY <2>1, <1>1 DEF LiveHandles
  <2>2. CASE q = p
    BY <2>2, <1>1, <1>3
  <2>3. CASE q # p
    <3>1. isOpen[memberOf[q]] /\ \E x \in Easies : ch[x] = q /\ isInsideMultiHandle[x]
      BY <2>3, <1>1, <1>3 DEF IInv, LiveHandles
    <3>. QED
      BY <3>1, <2>3, <1>1, <1>3
  <2>. QED
    BY <2>2, <2>3
<1>14. PendingIsTracked'
  <2>. SUFFICES ASSUME NEW u \in Transfers, promise'[u] = "pending", left[u] = "none"
                PROVE  \E q \in Ptrs : /\ current'[q] = u /\ Unreported(q)'
                                       /\ handlePromiseMap'[memberOf'[q]][q] = u
    BY <1>1 DEF PendingIsTracked
  <2>1. CASE u = t
    <3>1. \A q \in Ptrs : q = p => Unreported(q)'
      BY <1>1, <1>2, <1>3, NilIsNoValue DEF Unreported
    <3>. QED
      BY <2>1, <3>1, <1>1, <1>3, <1>5
  <2>2. CASE u # t
    <3>1. PICK q \in Ptrs : /\ current[q] = u /\ Unreported(q)
                            /\ handlePromiseMap[memberOf[q]][q] = u
      BY <2>2, <1>4 DEF IInv, PendingIsTracked
    <3>2. q # p /\ memberOf[q] \in Multis
      BY <3>1, <1>1 DEF IInv, TypeOK, Unreported
    <3>3. Unreported(q)'
      BY <3>1, <3>2, <1>1, <1>3 DEF Unreported
    <3>. QED
      BY <3>1, <3>2, <3>3, <1>3, <1>5
  <2>. QED
    BY <2>1, <2>2
<1>15. OwnResult' /\ VerdictMatchesTransfer'
  BY <1>1, <1>2, <1>4 DEF IInv, OwnResult, VerdictMatchesTransfer, Settled
<1>. QED
  BY <1>6, <1>7, <1>8, <1>9, <1>10, <1>11, <1>12, <1>13, <1>14, <1>15 DEF IInv

\* A refused call drops the old error of a handle that is in no multi.
LEMMA AddRefusedStep ==
  ASSUME NEW m \in Multis, NEW e \in Easies, IInv, AddRefused(m, e)
  PROVE  IInv'
<1>. USE DEF multiVars, curlVars, loopVars, histVars
<1>1. /\ ~isInsideMultiHandle[e] /\ Open(e)
      /\ \A x \in Easies \ {e} : callbackError'[x] <=> callbackError[x]
      /\ ~callbackError'[e]
      /\ UNCHANGED <<ch, isInsideMultiHandle, referenced, multiVars, curlVars,
                     loopVars, histVars>>
  BY DEF IInv, TypeOK, AddRefused, ResetCallbackError
<1>2. ~Unreported(ch[e])
  BY <1>1 DEF IInv, TypeOK, LiveHandles, Addresses, Open, Unreported
<1>3. TypeOK'
  <2>1. callbackError' \in [Easies -> BOOLEAN]
    BY DEF IInv, TypeOK, AddRefused, ResetCallbackError
  <2>. QED
    BY <2>1, <1>1 DEF IInv, TypeOK, Open
<1>4. ErrorsAreCurrent'
  BY <1>1, <1>2 DEF IInv, ErrorsAreCurrent, Open, Unreported
<1>5. Addresses' /\ Stack' /\ Members' /\ History' /\ StoredPromises' /\ LiveHandles'
  BY <1>1 DEF IInv, Addresses, Stack, Members, History, StoredPromises, LiveHandles,
              Open, Running
<1>6. SettledByReported' /\ PendingIsTracked' /\ OwnResult' /\ VerdictMatchesTransfer'
  BY <1>1 DEF IInv, SettledByReported, PendingIsTracked, OwnResult,
              VerdictMatchesTransfer, Unreported
<1>. QED
  BY <1>3, <1>4, <1>5, <1>6 DEF IInv

\* removeHandle() detaches one address, and its Easy knows.
LEMMA RemoveHandleStep ==
  ASSUME NEW m \in Multis, NEW e \in Easies, IInv, RemoveHandle(m, e)
  PROVE  IInv'
<1>. DEFINE p == ch[e]
<1>1. /\ p \in Ptrs /\ p # Nil
      /\ isInsideMultiHandle' \in [Easies -> BOOLEAN] /\ amountOfHandles' \in [Multis -> Int]
      /\ \A x \in Easies \ {e} : isInsideMultiHandle'[x] <=> isInsideMultiHandle[x]
      /\ UNCHANGED <<ch, callbackError, referenced, isOpen, cbOnMessage,
                     handlePromiseMap, result, loopVars, promise, settledBy, threw>>
  BY DEF IInv, TypeOK, RemoveHandle, Open
<1>2. \A x \in Easies \ {e} : ch[x] # p
  BY <1>1 DEF IInv, Addresses, Open
<1>3. Detach({p}, "removed") /\ {p} \in SUBSET Ptrs
  BY <1>1 DEF RemoveHandle
<1>4. /\ memberOf' \in [Ptrs -> Multis \cup {Nil}]
      /\ current' \in [Ptrs -> Transfers \cup {Nil}]
      /\ msgs' \subseteq Ptrs
      /\ left' \in [Transfers -> Exits]
      /\ Members' /\ History' /\ StoredPromises' /\ SettledByReported'
      /\ PendingIsTracked' /\ OwnResult' /\ VerdictMatchesTransfer'
  BY <1>1, <1>3, DetachKeeps DEF Exits
<1>5. /\ memberOf'[p] = Nil
      /\ \A q \in Ptrs \ {p} : /\ memberOf'[q] = memberOf[q] /\ current'[q] = current[q]
                               /\ q \in msgs' <=> q \in msgs
  BY <1>1, <1>3 DEF Detach
<1>6. TypeOK' /\ Addresses'
  BY <1>1, <1>4 DEF IInv, TypeOK, Addresses, Open, loopVars
<1>7. Stack'
  <2>1. CASE at = "callback"
    <3>1. activeEasy # e
      BY <2>1, <1>1, NilIsNoValue DEF IInv, Stack, RemoveHandle, Recursive
    <3>2. ch[activeEasy] \in Ptrs \ {p}
      BY <3>1, <2>1, <1>2 DEF IInv, TypeOK, Stack, Open
    <3>. QED
      BY <3>2, <1>1, <1>5 DEF IInv, Stack, Open, Running, loopVars
  <2>2. CASE at # "callback"
    BY <2>2, <1>1 DEF IInv, Stack, loopVars
  <2>. QED
    BY <2>1, <2>2
<1>8. ErrorsAreCurrent'
  BY <1>1, <1>2, <1>5 DEF IInv, TypeOK, ErrorsAreCurrent, Open, Unreported
<1>9. LiveHandles'
  BY <1>1, <1>2, <1>4, <1>5 DEF IInv, LiveHandles, Members, loopVars
<1>. QED
  BY <1>4, <1>6, <1>7, <1>8, <1>9 DEF IInv

\* close() detaches every member and leaves no stack of libcurl's behind; a
\* close that fails its assertion changes nothing that is used again.
LEMMA CloseMultiStep ==
  ASSUME NEW m \in Multis, IInv, CloseMulti(m)
  PROVE  IInv'
<1>. USE DEF easyVars
<1>. DEFINE S == {p \in Ptrs : memberOf[p] = m}
<1>1. /\ UNCHANGED <<easyVars, amountOfHandles, handlePromiseMap, result,
                     activeMulti, activeEasy, promise, settledBy, threw>>
      /\ isOpen' \in [Multis -> BOOLEAN] /\ cbOnMessage' \in [Multis -> {"unset", "set", "cleared"}]
      /\ \A n \in Multis \ {m} : isOpen'[n] = isOpen[n]
      /\ at # "aborted"
  BY DEF IInv, TypeOK, CloseMulti, Cleared, JavaScript
<1>2. CASE CleanupRefused(m)
  <2>1. at' = "aborted" /\ UNCHANGED <<memberOf, current, msgs, left>>
    BY <1>2 DEF CloseMulti
  <2>2. TypeOK' /\ Addresses' /\ Stack'
    BY <1>1, <2>1 DEF IInv, TypeOK, Addresses, Stack, Open, Places
  <2>3. Members' /\ History' /\ StoredPromises' /\ ErrorsAreCurrent' /\ LiveHandles'
    BY <1>1, <2>1 DEF IInv, Members, History, StoredPromises, ErrorsAreCurrent,
                      LiveHandles, Open, Unreported
  <2>4. SettledByReported' /\ PendingIsTracked' /\ OwnResult' /\ VerdictMatchesTransfer'
    BY <1>1, <2>1 DEF IInv, SettledByReported, PendingIsTracked, OwnResult,
                      VerdictMatchesTransfer, Unreported
  <2>. QED
    BY <2>2, <2>3, <2>4 DEF IInv
<1>3. CASE ~CleanupRefused(m)
  <2>1. Detach(S, "closed") /\ at' = at /\ S \in SUBSET Ptrs
    BY <1>3 DEF CloseMulti
  <2>2. /\ memberOf' \in [Ptrs -> Multis \cup {Nil}]
        /\ current' \in [Ptrs -> Transfers \cup {Nil}]
        /\ msgs' \subseteq Ptrs
        /\ left' \in [Transfers -> Exits]
        /\ Members' /\ History' /\ StoredPromises' /\ SettledByReported'
        /\ PendingIsTracked' /\ OwnResult' /\ VerdictMatchesTransfer'
    BY <1>1, <2>1, DetachKeeps DEF Exits
  <2>3. \A q \in Ptrs :
          IF memberOf[q] = m
            THEN memberOf'[q] = Nil
            ELSE /\ memberOf'[q] = memberOf[q] /\ current'[q] = current[q]
                 /\ q \in msgs' <=> q \in msgs
    BY <2>1 DEF Detach
  <2>4. TypeOK' /\ Addresses'
    BY <1>1, <2>1, <2>2 DEF IInv, TypeOK, Addresses, Open
  <2>5. Stack'
    <3>1. at = "callback" => activeMulti # m
      BY <1>3 DEF CleanupRefused, Recursive
    <3>. QED
      BY <3>1, <1>1, <2>1, <2>3 DEF IInv, TypeOK, Stack, Open, Running
  <2>6. ErrorsAreCurrent'
    BY <1>1, <2>3 DEF IInv, TypeOK, ErrorsAreCurrent, Open, Unreported
  <2>7. LiveHandles'
    BY <1>1, <2>1, <2>2, <2>3 DEF IInv, TypeOK, LiveHandles, Members
  <2>. QED
    BY <2>2, <2>4, <2>5, <2>6, <2>7 DEF IInv
<1>. QED
  BY <1>2, <1>3

\* libcurl reports a running transfer: it was unreported before and still is.
LEMMA TransferDoneStep ==
  ASSUME NEW p \in Ptrs, NEW code \in {"ok", "failed"}, IInv, TransferDone(p, code)
  PROVE  IInv'
<1>. USE DEF easyVars, multiVars, loopVars, histVars
<1>1. /\ memberOf[p] # Nil /\ current[p] \in Transfers /\ result[current[p]] = "none"
      /\ at = "libcurl"
      /\ UNCHANGED <<easyVars, multiVars, memberOf, current, loopVars, histVars>>
  BY NilIsNoValue DEF IInv, Stack, Members, TransferDone, Running
<1>2. /\ result' \in [Transfers -> {"none", "ok", "failed"}]
      /\ result'[current[p]] = code
      /\ \A t \in Transfers : t # current[p] => result'[t] = result[t]
      /\ msgs' = msgs \cup {p}
  BY <1>1 DEF IInv, TypeOK, TransferDone
<1>3. \A q \in Ptrs : q # p /\ memberOf[q] # Nil => result'[current[q]] = result[current[q]]
  BY <1>1, <1>2, NilIsNoValue DEF IInv, Members
<1>4. \A q \in Ptrs : Unreported(q)' <=> Unreported(q)
  BY <1>1, <1>2, <1>3 DEF Unreported
<1>5. TypeOK' /\ Addresses' /\ Stack'
  BY <1>1, <1>2 DEF IInv, TypeOK, Addresses, Stack, Open
<1>6. Members'
  <2>1. \A q \in msgs' : result'[current[q]] # "none"
    BY <1>1, <1>2, <1>3 DEF IInv, TypeOK, Members
  <2>. QED
    BY <2>1, <1>1, <1>2 DEF IInv, Members
<1>7. History' /\ StoredPromises' /\ LiveHandles'
  BY <1>1, <1>2 DEF IInv, History, StoredPromises, LiveHandles
<1>8. ErrorsAreCurrent'
  BY <1>1, <1>4 DEF IInv, TypeOK, ErrorsAreCurrent, Open
<1>9. SettledByReported' /\ PendingIsTracked' /\ OwnResult'
  BY <1>1, <1>4 DEF IInv, SettledByReported, PendingIsTracked, OwnResult
<1>10. VerdictMatchesTransfer'
  <2>1. \A t \in Transfers : promise[t] \in Settled => settledBy[t] # current[p]
    BY <1>1 DEF IInv, SettledByReported, Unreported
  <2>. QED
    BY <2>1, <1>1, <1>2 DEF IInv, TypeOK, VerdictMatchesTransfer
<1>. QED
  BY <1>5, <1>6, <1>7, <1>8, <1>9, <1>10 DEF IInv

\* A callback that throws taints its handle and its transfer together.
LEMMA CallbackReturnsStep ==
  ASSUME NEW throws \in BOOLEAN, IInv, CallbackReturns(throws)
  PROVE  IInv'
<1>. USE DEF multiVars, curlVars
<1>. DEFINE e == activeEasy
            t == current[ch[e]]
<1>1. /\ e \in Easies /\ Open(e) /\ ch[e] \in Ptrs /\ t \in Transfers
      /\ memberOf[ch[e]] # Nil /\ result[t] = "none" /\ Unreported(ch[e])
      /\ activeMulti \in Multis
      /\ UNCHANGED <<ch, isInsideMultiHandle, referenced, multiVars, curlVars,
                     activeMulti, promise, settledBy, left>>
      /\ at' = "libcurl" /\ at # "aborted"
  BY NilIsNoValue DEF IInv, TypeOK, Stack, Members, CallbackReturns, Running, Open,
                      Unreported
<1>2. TypeOK' /\ Addresses' /\ Stack' /\ Members' /\ StoredPromises' /\ LiveHandles'
  <2>1. callbackError' \in [Easies -> BOOLEAN] /\ threw' \in [Transfers -> BOOLEAN]
    BY <1>1 DEF IInv, TypeOK, CallbackReturns
  <2>2. \A x \in Easies : callbackError'[x] => Open(x)
    BY <1>1 DEF IInv, TypeOK, CallbackReturns
  <2>3. activeEasy' \in Easies \cup {Nil}
    BY DEF CallbackReturns
  <2>4. TypeOK'
    BY <2>1, <2>2, <2>3, <1>1 DEF IInv, TypeOK, Places, Open
  <2>. QED
    BY <2>4, <1>1 DEF IInv, Addresses, Stack, Members, StoredPromises, LiveHandles, Open
<1>3. CASE UNCHANGED <<callbackError, threw>>
  <2>1. History' /\ ErrorsAreCurrent' /\ SettledByReported'
    BY <1>1, <1>3 DEF IInv, History, ErrorsAreCurrent, SettledByReported, Open, Unreported
  <2>2. PendingIsTracked' /\ OwnResult' /\ VerdictMatchesTransfer'
    BY <1>1, <1>3 DEF IInv, PendingIsTracked, OwnResult, VerdictMatchesTransfer, Unreported
  <2>. QED
    BY <1>2, <2>1, <2>2 DEF IInv
<1>4. CASE /\ callbackError' = [callbackError EXCEPT ![e] = TRUE]
           /\ threw' = [threw EXCEPT ![t] = TRUE]
  <2>1. /\ callbackError'[e] /\ threw'[t]
        /\ \A x \in Easies : x # e => (callbackError'[x] <=> callbackError[x])
        /\ \A u \in Transfers : u # t => (threw'[u] <=> threw[u])
    BY <1>1, <1>4 DEF IInv, TypeOK
  <2>2. History'
    BY <1>1, <2>1 DEF IInv, History
  <2>3. ErrorsAreCurrent'
    <3>. SUFFICES ASSUME NEW x \in Easies, Open(x), Unreported(ch[x])
                  PROVE  callbackError'[x] <=> threw'[current[ch[x]]]
      BY <1>1 DEF ErrorsAreCurrent, Open, Unreported
    <3>1. CASE x = e
      BY <3>1, <2>1
    <3>2. CASE x # e
      <4>1. ch[x] \in Ptrs /\ ch[x] # ch[e] /\ current[ch[x]] \in Transfers
        BY <3>2, <1>1 DEF IInv, TypeOK, Addresses, Members, Open, Unreported
      <4>2. current[ch[x]] # t
        BY <4>1, <1>1, NilIsNoValue DEF IInv, Members
      <4>. QED
        BY <4>1, <4>2, <3>2, <2>1 DEF IInv, ErrorsAreCurrent
    <3>. QED
      BY <3>1, <3>2
  <2>4. SettledByReported' /\ PendingIsTracked' /\ OwnResult'
    BY <1>1 DEF IInv, SettledByReported, PendingIsTracked, OwnResult, Unreported
  <2>5. VerdictMatchesTransfer'
    <3>1. \A u \in Transfers : promise[u] \in Settled =>
                                 settledBy[u] \in Transfers /\ settledBy[u] # t
      BY <1>1 DEF IInv, TypeOK, SettledByReported
    <3>. QED
      BY <3>1, <2>1, <1>1 DEF IInv, VerdictMatchesTransfer
  <2>. QED
    BY <1>2, <2>2, <2>3, <2>4, <2>5 DEF IInv
<1>. QED
  BY <1>3, <1>4 DEF CallbackReturns

\* The message of a finished transfer settles the promise stored under its
\* handle: its own, unless that one's handle left unreported.
LEMMA ReadMessageStep ==
  ASSUME NEW e \in Easies, IInv, ReadMessage(e)
  PROVE  IInv'
<1>. USE DEF loopVars
<1>. DEFINE p == ch[e]
            m == activeMulti
            entry == handlePromiseMap[m][p]
            t == current[p]
<1>1. /\ p \in Ptrs /\ p \in msgs /\ memberOf[p] = m /\ m \in Multis /\ m # Nil /\ Open(e)
      /\ t \in Transfers /\ result[t] \in {"ok", "failed"} /\ Unreported(p)
      /\ entry \in Transfers \cup {Nil} /\ isOpen[m]
      /\ at = "drain" /\ at' \in {"drain", "message", "aborted"}
      /\ msgs' = msgs \ {p}
      /\ UNCHANGED <<ch, isInsideMultiHandle, callbackError, isOpen, amountOfHandles,
                     cbOnMessage, memberOf, current, result, activeMulti, activeEasy,
                     threw, left>>
  BY NilIsNoValue DEF IInv, TypeOK, Stack, Members, ReadMessage, Notified, Open, Unreported
<1>2. \A q \in Ptrs : Unreported(q)' <=> Unreported(q) /\ q # p
  BY <1>1 DEF Unreported
<1>3. callbackError[e] <=> threw[t]
  BY <1>1 DEF IInv, ErrorsAreCurrent
<1>4. Addresses' /\ Members' /\ LiveHandles' /\ ErrorsAreCurrent' /\ Stack'
  <2>1. Addresses' /\ Members' /\ LiveHandles' /\ Stack'
    BY <1>1 DEF IInv, Addresses, Members, LiveHandles, Stack, Open
  <2>2. ErrorsAreCurrent'
    BY <1>1, <1>2 DEF IInv, TypeOK, ErrorsAreCurrent, Open
  <2>. QED
    BY <2>1, <2>2
<1>5. referenced' \in [Easies -> BOOLEAN]
  BY DEF IInv, TypeOK, ReadMessage
<1>6. CASE entry = Nil
  <2>1. UNCHANGED <<promise, settledBy, handlePromiseMap>>
    BY <1>6 DEF ReadMessage
  <2>2. TypeOK'
    BY <1>1, <1>5, <2>1 DEF IInv, TypeOK, Places, Open
  <2>3. History' /\ StoredPromises' /\ OwnResult' /\ VerdictMatchesTransfer'
    BY <1>1, <2>1 DEF IInv, History, StoredPromises, OwnResult, VerdictMatchesTransfer
  <2>4. SettledByReported'
    BY <1>1, <1>2, <2>1 DEF IInv, SettledByReported
  <2>5. PendingIsTracked'
    BY <1>1, <1>2, <1>6, <2>1, NilIsNoValue DEF IInv, PendingIsTracked
  <2>. QED
    BY <1>4, <2>2, <2>3, <2>4, <2>5 DEF IInv
<1>7. CASE entry # Nil
  <2>1. /\ entry \in Transfers /\ promise[entry] = "pending"
        /\ left[entry] = "none" => t = entry
    BY <1>1, <1>7 DEF IInv, StoredPromises
  <2>2. /\ promise' = [promise EXCEPT ![entry] = Verdict(e)]
        /\ settledBy' = [settledBy EXCEPT ![entry] = t]
        /\ handlePromiseMap' = [handlePromiseMap EXCEPT ![m][p] = Nil]
    BY <1>7 DEF ReadMessage, ErasePromise
  <2>3. /\ promise'[entry] = Verdict(e) /\ settledBy'[entry] = t
        /\ \A u \in Transfers : u # entry => /\ promise'[u] = promise[u]
                                             /\ settledBy'[u] = settledBy[u]
        /\ handlePromiseMap'[m][p] = Nil
        /\ \A n \in Multis, q \in Ptrs :
             n # m \/ q # p => handlePromiseMap'[n][q] = handlePromiseMap[n][q]
    BY <1>1, <2>1, <2>2 DEF IInv, TypeOK
  <2>4. /\ Verdict(e) \in Settled
        /\ Verdict(e) = "aborted" <=> threw[t]
        /\ Verdict(e) = "resolved" => result[t] = "ok"
        /\ Verdict(e) = "rejected" => result[t] = "failed"
    BY <1>1, <1>3 DEF Verdict, Settled
  <2>5. TypeOK'
    <3>1. promise' \in [Transfers -> Promises]
      BY <2>2, <2>4 DEF IInv, TypeOK, Settled, Promises
    <3>2. settledBy' \in [Transfers -> Transfers \cup {Nil}]
      BY <1>1, <2>2 DEF IInv, TypeOK
    <3>3. handlePromiseMap' \in [Multis -> [Ptrs -> Transfers \cup {Nil}]]
      <4>. DEFINE row == [handlePromiseMap[m] EXCEPT ![p] = Nil]
      <4>1. row \in [Ptrs -> Transfers \cup {Nil}]
        BY <1>1 DEF IInv, TypeOK
      <4>2. handlePromiseMap' = [handlePromiseMap EXCEPT ![m] = row]
        BY <2>2
      <4>. QED
        BY <4>1, <4>2, <1>1 DEF IInv, TypeOK
    <3>. QED
      BY <3>1, <3>2, <3>3, <1>1, <1>5 DEF IInv, TypeOK, Places, Open
  <2>6. History'
    <3>1. \A u \in Transfers : promise'[u] = "unused" => u # entry /\ promise[u] = "unused"
      BY <2>3, <2>4 DEF Settled
    <3>. QED
      BY <3>1, <1>1, <2>3 DEF IInv, History
  <2>7. StoredPromises'
    <3>. SUFFICES ASSUME NEW n \in Multis, NEW q \in Ptrs, handlePromiseMap'[n][q] # Nil
                  PROVE  LET u == handlePromiseMap'[n][q] IN
                         /\ promise'[u] = "pending"
                         /\ left[u] = "none" => memberOf[q] = n /\ current[q] = u
                         /\ \A k \in Multis, r \in Ptrs :
                              handlePromiseMap'[k][r] = u => k = n /\ r = q
      BY <1>1 DEF StoredPromises
    <3>. DEFINE u == handlePromiseMap[n][q]
    <3>1. (n # m \/ q # p) /\ handlePromiseMap'[n][q] = u /\ u # Nil
      BY <2>3
    <3>2. u # entry /\ u \in Transfers
      BY <3>1, <1>1, <1>7 DEF IInv, TypeOK, StoredPromises
    <3>3. \A k \in Multis, r \in Ptrs : handlePromiseMap'[k][r] = u => k = n /\ r = q
      BY <3>1, <2>3, <1>1 DEF IInv, StoredPromises
    <3>. QED
      BY <3>1, <3>2, <3>3, <2>3 DEF IInv, StoredPromises
  <2>8. SettledByReported'
    <3>1. \A u \in Transfers : promise'[u] \in Settled <=> settledBy'[u] # Nil
      BY <1>1, <2>3, <2>4, NilIsNoValue DEF IInv, SettledByReported
    <3>2. promise[t] # "unused"
      BY <1>1 DEF IInv, History
    <3>3. \A u \in Transfers : promise'[u] = "unused" => promise[u] = "unused"
      BY <2>3, <2>4 DEF Settled
    <3>4. \A q \in Ptrs : current[q] = t => q = p
      BY <1>1, NilIsNoValue DEF IInv, Members
    <3>5. \A u \in Transfers : settledBy'[u] = Nil \/ settledBy'[u] = t
                               \/ (settledBy'[u] = settledBy[u] /\ settledBy[u] \in Transfers)
      <4>1. \A u \in Transfers : settledBy[u] \in Transfers \cup {Nil}
        BY DEF IInv, TypeOK
      <4>. QED
        BY <4>1, <2>3
    <3>. QED
      BY <3>1, <3>2, <3>3, <3>4, <3>5, <1>1, <1>2 DEF IInv, SettledByReported
  <2>9. PendingIsTracked'
    <3>. SUFFICES ASSUME NEW u \in Transfers, promise'[u] = "pending", left[u] = "none"
                  PROVE  \E q \in Ptrs : /\ current[q] = u /\ Unreported(q)'
                                         /\ handlePromiseMap'[memberOf[q]][q] = u
      BY <1>1 DEF PendingIsTracked
    <3>1. u # entry /\ promise[u] = "pending"
      BY <2>3, <2>4 DEF Settled
    <3>2. PICK q \in Ptrs : /\ current[q] = u /\ Unreported(q)
                            /\ handlePromiseMap[memberOf[q]][q] = u
      BY <3>1 DEF IInv, PendingIsTracked
    <3>3. q # p /\ memberOf[q] \in Multis
      BY <3>1, <3>2, <1>1 DEF IInv, TypeOK, Unreported
    <3>. QED
      BY <3>2, <3>3, <2>3, <1>2
  <2>10. OwnResult'
    BY <1>1, <2>1, <2>3 DEF IInv, OwnResult
  <2>11. VerdictMatchesTransfer'
    <3>. SUFFICES ASSUME NEW u \in Transfers, promise'[u] \in Settled
                  PROVE  LET by == settledBy'[u] IN
                         /\ by # Nil
                         /\ promise'[u] = "aborted" <=> threw[by]
                         /\ promise'[u] = "resolved" => result[by] = "ok"
                         /\ promise'[u] = "rejected" => result[by] = "failed"
      BY <1>1 DEF VerdictMatchesTransfer
    <3>1. CASE u = entry
      BY <3>1, <1>1, <2>3, <2>4, NilIsNoValue
    <3>2. CASE u # entry
      BY <3>2, <2>3 DEF IInv, VerdictMatchesTransfer
    <3>. QED
      BY <3>1, <3>2
  <2>. QED
    BY <1>4, <2>5, <2>6, <2>7, <2>8, <2>9, <2>10, <2>11 DEF IInv
<1>. QED
  BY <1>6, <1>7

----------------------------------------------------------------------------
(* The theorems *)

\* Nothing is added, pending or settled at the start.
LEMMA InitIInv == Init => IInv
<1>. SUFFICES ASSUME Init PROVE IInv
  OBVIOUS
<1>1. TypeOK
  BY DEF Init, TypeOK, Places, Promises, Exits, Open
<1>2. Addresses /\ Stack /\ History /\ ErrorsAreCurrent
  BY NilIsNoValue DEF Init, Addresses, Stack, History, ErrorsAreCurrent, Open, Unreported
<1>3. Members
  BY DEF Init, Members
<1>4. StoredPromises
  BY DEF Init, StoredPromises
<1>5. SettledByReported /\ LiveHandles /\ PendingIsTracked /\ OwnResult
      /\ VerdictMatchesTransfer
  BY DEF Init, SettledByReported, LiveHandles, PendingIsTracked, OwnResult,
         VerdictMatchesTransfer, Settled
<1>. QED
  BY <1>1, <1>2, <1>3, <1>4, <1>5 DEF IInv

\* Every call of JavaScript and every step of the loop keeps the invariant.
LEMMA NextIInv == IInv /\ [Next]_vars => IInv'
<1>. SUFFICES ASSUME IInv, [Next]_vars PROVE IInv'
  OBVIOUS
<1>1. ASSUME NEW e \in Easies, EasyCall(e) PROVE IInv'
  <2>1. CASE \E p \in Ptrs : NewEasy(e, p)
    BY <2>1, NewEasyStep
  <2>2. CASE ResetEasy(e)
    BY <2>2, ResetEasyStep
  <2>3. CASE CloseEasy(e)
    BY <2>3, DisposeStep DEF CloseEasy
  <2>4. CASE DropReference(e)
    BY <2>4, QuietStep
  <2>5. CASE CollectEasy(e)
    BY <2>5, DisposeStep DEF CollectEasy
  <2>6. CASE \E orig \in Easies, p \in Ptrs : DupHandleThrows(orig, e, p)
    BY <2>6, DupHandleThrowsStep
  <2>. QED
    BY <1>1, <2>1, <2>2, <2>3, <2>4, <2>5, <2>6 DEF EasyCall
<1>2. ASSUME NEW m \in Multis, MultiCall(m) PROVE IInv'
  <2>1. CASE \E e \in Easies, t \in Transfers : AddHandle(m, e, t) \/ Perform(m, e, t)
    BY <2>1, AddStep
  <2>2. CASE \E e \in Easies : AddRefused(m, e)
    BY <2>2, AddRefusedStep
  <2>3. CASE \E e \in Easies : RemoveHandle(m, e)
    BY <2>3, RemoveHandleStep
  <2>4. CASE \E set \in BOOLEAN : OnMessage(m, set)
    BY <2>4, QuietStep
  <2>5. CASE CloseMulti(m)
    BY <2>5, CloseMultiStep
  <2>. QED
    BY <1>2, <2>1, <2>2, <2>3, <2>4, <2>5 DEF MultiCall
<1>3. ASSUME LoopStep PROVE IInv'
  <2>1. CASE \E p \in Ptrs, code \in {"ok", "failed"} : TransferDone(p, code)
    BY <2>1, TransferDoneStep
  <2>2. CASE \E throws \in BOOLEAN : CallbackReturns(throws)
    BY <2>2, CallbackReturnsStep
  <2>3. CASE \E e \in Easies : ReadMessage(e)
    BY <2>3, ReadMessageStep
  <2>4. CASE \/ \E m \in Multis : SocketAction(m)
             \/ \E e \in Easies : TransferCallback(e)
             \/ StartDrain \/ MessageReturns \/ DrainDone
    BY <2>4, QuietStep
  <2>. QED
    BY <1>3, <2>1, <2>2, <2>3, <2>4 DEF LoopStep
<1>4. ASSUME UNCHANGED vars PROVE IInv'
  <2>1. /\ UNCHANGED <<easyVars, multiVars, curlVars, loopVars, histVars>>
    BY <1>4 DEF vars
  <2>. USE DEF easyVars, multiVars, curlVars, loopVars, histVars
  <2>2. TypeOK' /\ Addresses' /\ Stack' /\ Members' /\ History' /\ StoredPromises'
    BY <2>1 DEF IInv, TypeOK, Addresses, Stack, Members, History, StoredPromises,
                Open, Running
  <2>3. ErrorsAreCurrent' /\ SettledByReported' /\ LiveHandles' /\ PendingIsTracked'
    BY <2>1 DEF IInv, ErrorsAreCurrent, SettledByReported, LiveHandles,
                PendingIsTracked, Open, Unreported
  <2>4. OwnResult' /\ VerdictMatchesTransfer'
    BY <2>1 DEF IInv, OwnResult, VerdictMatchesTransfer
  <2>. QED
    BY <2>2, <2>3, <2>4 DEF IInv
<1>. QED
  BY <1>1, <1>2, <1>3, <1>4 DEF Next

\* The inductive invariant holds in every reachable state.
THEOREM Invariance == Spec => []IInv
  BY InitIInv, NextIInv, PTL DEF Spec

\* TypeOK, for any number of multis, handles and calls.
THEOREM TypeCorrect == Spec => []TypeOK
<1>1. IInv => TypeOK
  BY DEF IInv
<1>. QED
  BY <1>1, Invariance, PTL

\* The Easy that ProcessMessages takes from CURLINFO_PRIVATE is never a freed
\* one: for any callers, any order of closes, removals and collections.
THEOREM NoDanglingHandle == Spec => []LiveHandles
<1>1. IInv => LiveHandles
  BY DEF IInv
<1>. QED
  BY <1>1, Invariance, PTL

\* The deferred of a pending perform() is found when its transfer reports.
THEOREM PendingPromisesFound == Spec => []PendingIsTracked
<1>1. IInv => PendingIsTracked
  BY DEF IInv
<1>. QED
  BY <1>1, Invariance, PTL

\* Only a handle that left its multi unreported can have its promise settled
\* by another transfer's message.
THEOREM ResultIsOwn == Spec => []OwnResult
<1>1. IInv => OwnResult
  BY DEF IInv
<1>. QED
  BY <1>1, Invariance, PTL

\* A promise is rejected with a callback's error exactly when a callback of
\* the reported transfer, or of a duplicate made meanwhile, threw, and resolved
\* only on CURLE_OK.
THEOREM VerdictCorrect == Spec => []VerdictMatchesTransfer
<1>1. IInv => VerdictMatchesTransfer
  BY DEF IInv
<1>. QED
  BY <1>1, Invariance, PTL

\* A settled promise keeps its verdict and the transfer that gave it: no entry
\* of handlePromiseMap outlives the message that used it.
THEOREM SettledForGood == Spec => PromiseFinal
<1>. DEFINE Kept == \A t \in Transfers :
                      promise[t] \in Settled =>
                        promise'[t] = promise[t] /\ settledBy'[t] = settledBy[t]
<1>1. IInv /\ [Next]_vars => [Kept]_vars
  <2>. SUFFICES ASSUME IInv, Next PROVE Kept
    OBVIOUS
  <2>. USE DEF easyVars, multiVars, curlVars, loopVars, histVars
  <2>1. CASE UNCHANGED <<promise, settledBy>>
    BY <2>1
  <2>2. ASSUME NEW m \in Multis, NEW e \in Easies, NEW t \in Transfers,
               AddHandle(m, e, t) \/ Perform(m, e, t)
        PROVE  Kept
    BY <2>2 DEF IInv, TypeOK, AddHandle, Perform, Add, Settled
  <2>3. ASSUME NEW e \in Easies, ReadMessage(e) PROVE Kept
    <3>. DEFINE entry == handlePromiseMap[activeMulti][ch[e]]
    <3>1. CASE entry = Nil
      BY <2>3, <3>1 DEF ReadMessage
    <3>2. CASE entry # Nil
      <4>1. activeMulti \in Multis /\ ch[e] \in Ptrs
        BY <2>3, NilIsNoValue DEF IInv, TypeOK, Stack, ReadMessage, Open
      <4>2. promise[entry] = "pending"
        BY <4>1, <3>2 DEF IInv, StoredPromises
      <4>. QED
        BY <4>2, <3>2, <2>3 DEF IInv, TypeOK, ReadMessage, Settled
    <3>. QED
      BY <3>1, <3>2
  <2>4. \/ UNCHANGED <<promise, settledBy>>
        \/ \E m \in Multis, e \in Easies, t \in Transfers :
             AddHandle(m, e, t) \/ Perform(m, e, t)
        \/ \E e \in Easies : ReadMessage(e)
    <3>1. ASSUME NEW e \in Easies, EasyCall(e) PROVE UNCHANGED <<promise, settledBy>>
      BY <3>1 DEF EasyCall, NewEasy, DupHandleThrows, Construct, ResetEasy, CloseEasy, DropReference, CollectEasy,
                  Dispose
    <3>2. ASSUME NEW m \in Multis, MultiCall(m)
          PROVE  \/ UNCHANGED <<promise, settledBy>>
                 \/ \E e \in Easies, t \in Transfers :
                      AddHandle(m, e, t) \/ Perform(m, e, t)
      BY <3>2 DEF MultiCall, AddRefused, RemoveHandle, OnMessage, CloseMulti
    <3>3. ASSUME LoopStep
          PROVE  UNCHANGED <<promise, settledBy>> \/ \E e \in Easies : ReadMessage(e)
      BY <3>3 DEF LoopStep, SocketAction, TransferDone, TransferCallback,
                  CallbackReturns, StartDrain, MessageReturns, DrainDone
    <3>. QED
      BY <3>1, <3>2, <3>3 DEF Next
  <2>. QED
    BY <2>1, <2>2, <2>3, <2>4
<1>. QED
  BY <1>1, Invariance, PTL DEF Spec, PromiseFinal

----------------------------------------------------------------------------
(* Unread messages *)

\* An unread message belongs to the multi whose native code is on the stack,
\* and in the loop there is none.
Unread ==
  /\ at = "loop" => activeMulti = Nil
  /\ at # "aborted" => \A p \in msgs : memberOf[p] = activeMulti

\* Every step keeps a message with the multi that is at work, although
\* callbacks may add, remove and close handles and other multis meanwhile.
LEMMA NextUnread == IInv /\ Unread /\ [Next]_vars => Unread'
<1>. SUFFICES ASSUME IInv, Unread, [Next]_vars PROVE Unread'
  OBVIOUS
<1>. USE DEF easyVars, multiVars, curlVars, loopVars, histVars
<1>1. ASSUME NEW S \in SUBSET Ptrs, NEW how, Detach(S, how), UNCHANGED loopVars
      PROVE  Unread'
  BY <1>1 DEF Unread, Detach, IInv, TypeOK
<1>2. ASSUME NEW e \in Easies, EasyCall(e) PROVE Unread'
  <2>1. CASE \/ \E p \in Ptrs : NewEasy(e, p)
             \/ \E orig \in Easies, p \in Ptrs : DupHandleThrows(orig, e, p)
             \/ ResetEasy(e) \/ DropReference(e)
    BY <2>1 DEF Unread, NewEasy, DupHandleThrows, Construct, ResetEasy, DropReference
  <2>2. CASE CloseEasy(e) \/ CollectEasy(e)
    <3>1. {ch[e]} \in SUBSET Ptrs
      BY <2>2 DEF IInv, TypeOK, CloseEasy, CollectEasy, Open
    <3>. QED
      BY <3>1, <2>2, <1>1 DEF CloseEasy, CollectEasy, Dispose
  <2>. QED
    BY <1>2, <2>1, <2>2 DEF EasyCall
<1>3. ASSUME NEW m \in Multis, MultiCall(m) PROVE Unread'
  <2>1. CASE \E e \in Easies, t \in Transfers : AddHandle(m, e, t) \/ Perform(m, e, t)
    <3>1. PICK e \in Easies, t \in Transfers : Add(m, e, t)
      BY <2>1 DEF AddHandle, Perform
    <3>2. ch[e] \notin msgs
      BY <3>1 DEF IInv, LiveHandles, Add
    <3>. QED
      BY <3>1, <3>2 DEF Unread, Add, IInv, TypeOK
  <2>2. CASE \E e \in Easies : AddRefused(m, e)
    BY <2>2 DEF Unread, AddRefused
  <2>3. CASE \E e \in Easies : RemoveHandle(m, e)
    <3>1. PICK e \in Easies : RemoveHandle(m, e)
      BY <2>3
    <3>2. {ch[e]} \in SUBSET Ptrs
      BY <3>1 DEF IInv, TypeOK, RemoveHandle, Open
    <3>. QED
      BY <3>1, <3>2, <1>1 DEF RemoveHandle
  <2>4. CASE \E set \in BOOLEAN : OnMessage(m, set)
    BY <2>4 DEF Unread, OnMessage
  <2>5. CASE CloseMulti(m)
    <3>1. CASE CleanupRefused(m)
      BY <2>5, <3>1 DEF Unread, CloseMulti
    <3>2. CASE ~CleanupRefused(m)
      <4>. DEFINE S == {p \in Ptrs : memberOf[p] = m}
      <4>1. S \in SUBSET Ptrs /\ Detach(S, "closed") /\ UNCHANGED loopVars
        BY <2>5, <3>2 DEF CloseMulti
      <4>. QED
        BY <4>1, <1>1
    <3>. QED
      BY <3>1, <3>2
  <2>. QED
    BY <1>3, <2>1, <2>2, <2>3, <2>4, <2>5 DEF MultiCall
<1>4. ASSUME LoopStep PROVE Unread'
  <2>1. CASE \E m \in Multis : SocketAction(m)
    BY <2>1 DEF IInv, TypeOK, LiveHandles, Unread, SocketAction
  <2>2. CASE \E p \in Ptrs, code \in {"ok", "failed"} : TransferDone(p, code)
    BY <2>2 DEF Unread, TransferDone
  <2>3. CASE \/ \E e \in Easies : TransferCallback(e)
             \/ \E throws \in BOOLEAN : CallbackReturns(throws)
             \/ StartDrain \/ MessageReturns
    BY <2>3 DEF Unread, TransferCallback, CallbackReturns, StartDrain, MessageReturns
  <2>4. CASE \E e \in Easies : ReadMessage(e)
    <3>1. PICK e \in Easies : ReadMessage(e)
      BY <2>4
    <3>2. /\ at = "drain" /\ at' # "loop"
          /\ msgs' \subseteq msgs /\ UNCHANGED <<memberOf, activeMulti>>
      <4>1. activeMulti \in Multis
        BY <3>1 DEF IInv, Stack, ReadMessage
      <4>. QED
        BY <3>1, <4>1 DEF ReadMessage, Notified, IInv, TypeOK
    <3>. QED
      BY <3>2 DEF Unread
  <2>5. CASE DrainDone
    <3>1. \A p \in msgs : memberOf[p] = activeMulti /\ memberOf[p] # Nil /\ p \in Ptrs
      BY <2>5 DEF IInv, TypeOK, LiveHandles, Unread, DrainDone
    <3>2. msgs = {}
      BY <3>1, <2>5 DEF IInv, LiveHandles, DrainDone
    <3>. QED
      BY <3>2, <2>5 DEF Unread, DrainDone
  <2>. QED
    BY <1>4, <2>1, <2>2, <2>3, <2>4, <2>5 DEF LoopStep
<1>5. ASSUME UNCHANGED vars PROVE Unread'
  BY <1>5 DEF Unread, vars
<1>. QED
  BY <1>2, <1>3, <1>4, <1>5 DEF Next

\* When the loop regains control no message waits unread.
THEOREM NoMessageLeft == Spec => []MessagesDrained
<1>1. Init => Unread
  BY DEF Init, Unread
<1>2. IInv /\ Unread => MessagesDrained
  BY DEF IInv, TypeOK, LiveHandles, Unread, MessagesDrained
<1>. QED
  BY <1>1, <1>2, Invariance, NextUnread, PTL DEF Spec

----------------------------------------------------------------------------
(* The count of a Multi *)

Inside(m) == {p \in Ptrs : memberOf[p] = m}

\* Disciplined callers keep the handles they gave to a Multi, so none of those
\* is ever collected.
Kept == \A e \in Easies : isInsideMultiHandle[e] => Open(e) /\ referenced[e]

\* A member's Easy is referenced: neither a close nor a collection meets one.
LEMMA LeaverIsNoMember ==
  ASSUME IInv, Kept, NEW e \in Easies, CloseEasy(e) \/ CollectEasy(e)
  PROVE  ch[e] \in Ptrs /\ memberOf[ch[e]] = Nil
<1>1. ch[e] \in Ptrs /\ Open(e) /\ ~isInsideMultiHandle[e]
  BY DEF IInv, TypeOK, Kept, CloseEasy, CollectEasy, Open
<1>. QED
  BY <1>1 DEF IInv, LiveHandles, Addresses, Open

\* Disciplined callers stay so.
LEMMA NextKept == ASSUME Disciplined PROVE IInv /\ Kept /\ [Next]_vars => Kept'
<1>. SUFFICES ASSUME IInv, Kept, [Next]_vars PROVE Kept'
  OBVIOUS
<1>. USE DEF easyVars, multiVars, curlVars, loopVars, histVars
<1>1. ASSUME NEW e \in Easies, EasyCall(e) PROVE Kept'
  <2>1. CASE \/ \E p \in Ptrs : NewEasy(e, p)
             \/ \E orig \in Easies, p \in Ptrs : DupHandleThrows(orig, e, p)
    <3>1. PICK p \in Ptrs : Construct(e, p)
      BY <2>1 DEF NewEasy, DupHandleThrows
    <3>. QED
      BY <3>1, NilIsNoValue DEF Kept, Construct, Open, IInv, TypeOK
  <2>2. CASE ResetEasy(e) \/ DropReference(e)
    BY <2>2 DEF Kept, ResetEasy, DropReference, Open, IInv, TypeOK
  <2>3. CASE CloseEasy(e) \/ CollectEasy(e)
    BY <2>3 DEF Kept, CloseEasy, CollectEasy, Dispose, Open, IInv, TypeOK
  <2>. QED
    BY <1>1, <2>1, <2>2, <2>3 DEF EasyCall
<1>2. ASSUME NEW m \in Multis, MultiCall(m) PROVE Kept'
  <2>1. CASE \E e \in Easies, t \in Transfers : AddHandle(m, e, t) \/ Perform(m, e, t)
    <3>1. PICK e \in Easies, t \in Transfers : Add(m, e, t)
      BY <2>1 DEF AddHandle, Perform
    <3>2. /\ ch[e] # Nil /\ referenced[e] /\ UNCHANGED <<ch, referenced>>
          /\ \A x \in Easies \ {e} : isInsideMultiHandle'[x] = isInsideMultiHandle[x]
      BY <3>1 DEF Add, Open, IInv, TypeOK
    <3>. QED
      BY <3>2 DEF Kept, Open
  <2>2. CASE \E e \in Easies : RemoveHandle(m, e)
    BY <2>2 DEF Kept, RemoveHandle, Open, IInv, TypeOK
  <2>3. CASE \/ \E e \in Easies : AddRefused(m, e)
             \/ \E set \in BOOLEAN : OnMessage(m, set)
             \/ CloseMulti(m)
    BY <2>3 DEF Kept, AddRefused, OnMessage, CloseMulti, Open
  <2>. QED
    BY <1>2, <2>1, <2>2, <2>3 DEF MultiCall
<1>3. ASSUME LoopStep PROVE Kept'
  <2>1. /\ UNCHANGED <<ch, isInsideMultiHandle>>
        /\ \/ UNCHANGED referenced
           \/ \E e \in Easies : referenced' = [referenced EXCEPT ![e] = TRUE]
    BY <1>3 DEF LoopStep, SocketAction, TransferDone, TransferCallback, CallbackReturns,
                StartDrain, ReadMessage, MessageReturns, DrainDone
  <2>2. \A e \in Easies : referenced[e] => referenced'[e]
    BY <2>1 DEF IInv, TypeOK
  <2>. QED
    BY <2>1, <2>2 DEF Kept, Open
<1>4. ASSUME UNCHANGED vars PROVE Kept'
  BY <1>4 DEF Kept, vars, Open
<1>. QED
  BY <1>1, <1>2, <1>3, <1>4 DEF Next

\* Adding counts one more, removing one less, and nothing else changes who is
\* inside an open Multi.
LEMMA NextCount ==
  ASSUME Disciplined
  PROVE  IInv /\ Kept /\ CountExact /\ [Next]_vars => CountExact'
<1>. SUFFICES ASSUME IInv, Kept, CountExact, [Next]_vars PROVE CountExact'
  OBVIOUS
<1>. USE DEF easyVars, multiVars, curlVars, loopVars, histVars
<1>1. \A m \in Multis : IsFiniteSet(Inside(m)) /\ Cardinality(Inside(m)) \in Nat
  BY InstancesAreFinite, FS_Subset, FS_CardinalityType DEF Inside
<1>2. ASSUME UNCHANGED <<isOpen, amountOfHandles>>,
             \A m \in Multis : isOpen[m] => Inside(m)' = Inside(m)
      PROVE  CountExact'
  BY <1>2 DEF CountExact, Inside
<1>3. ASSUME NEW e \in Easies, EasyCall(e) PROVE CountExact'
  <2>1. CASE \/ \E p \in Ptrs : NewEasy(e, p)
             \/ \E orig \in Easies, p \in Ptrs : DupHandleThrows(orig, e, p)
             \/ ResetEasy(e) \/ DropReference(e)
    BY <2>1, <1>2 DEF NewEasy, DupHandleThrows, Construct, ResetEasy, DropReference, Inside
  <2>2. CASE CloseEasy(e) \/ CollectEasy(e)
    <3>1. ch[e] \in Ptrs /\ memberOf[ch[e]] = Nil
      BY <2>2, LeaverIsNoMember
    <3>2. memberOf' = memberOf /\ UNCHANGED <<isOpen, amountOfHandles>>
      BY <3>1, <2>2 DEF CloseEasy, CollectEasy, Dispose, Detach, IInv, TypeOK
    <3>. QED
      BY <3>2, <1>2 DEF Inside
  <2>. QED
    BY <1>3, <2>1, <2>2 DEF EasyCall
<1>4. ASSUME NEW m \in Multis, MultiCall(m) PROVE CountExact'
  <2>1. CASE \E e \in Easies, t \in Transfers : AddHandle(m, e, t) \/ Perform(m, e, t)
    <3>1. PICK e \in Easies, t \in Transfers : Add(m, e, t)
      BY <2>1 DEF AddHandle, Perform
    <3>. DEFINE p == ch[e]
    <3>2. p \in Ptrs /\ p \notin Inside(m) /\ m # Nil
      BY <3>1, NilIsNoValue DEF Add, Open, IInv, TypeOK, Inside
    <3>3. Inside(m)' = Inside(m) \cup {p}
      BY <3>1, <3>2 DEF Add, Inside, IInv, TypeOK
    <3>4. \A n \in Multis \ {m} : Inside(n)' = Inside(n)
      BY <3>1, <3>2, NilIsNoValue DEF Add, Inside, IInv, TypeOK
    <3>5. Cardinality(Inside(m)') = Cardinality(Inside(m)) + 1
      BY <3>2, <3>3, <1>1, FS_AddElement
    <3>6. /\ isOpen' = isOpen /\ amountOfHandles'[m] = amountOfHandles[m] + 1
          /\ \A n \in Multis \ {m} : amountOfHandles'[n] = amountOfHandles[n]
      BY <3>1 DEF Add, IInv, TypeOK
    <3>. QED
      BY <3>4, <3>5, <3>6 DEF CountExact, Inside
  <2>2. CASE \E e \in Easies : RemoveHandle(m, e)
    <3>1. PICK e \in Easies : RemoveHandle(m, e)
      BY <2>2
    <3>. DEFINE p == ch[e]
    <3>2. p \in Inside(m) /\ m # Nil /\ isOpen[m]
      BY <3>1, NilIsNoValue DEF RemoveHandle, Open, IInv, TypeOK, Inside
    <3>3. Inside(m)' = Inside(m) \ {p}
      BY <3>1, <3>2 DEF RemoveHandle, Detach, Inside, IInv, TypeOK
    <3>4. \A n \in Multis \ {m} : Inside(n)' = Inside(n)
      BY <3>1, <3>2, NilIsNoValue DEF RemoveHandle, Detach, Inside, IInv, TypeOK
    <3>5. Cardinality(Inside(m)') = Cardinality(Inside(m)) - 1
      <4>0. IsFiniteSet(Inside(m)) /\ p \in Inside(m)
        BY <3>2, <1>1
      <4>. HIDE DEF p
      <4>1. Cardinality(Inside(m) \ {p}) = Cardinality(Inside(m)) - 1
        BY <4>0, FS_RemoveElement
      <4>2. Cardinality(Inside(m)') = Cardinality(Inside(m) \ {p})
        BY <3>3, Zenon
      <4>. QED
        BY <4>1, <4>2
    <3>6. /\ isOpen' = isOpen /\ amountOfHandles'[m] = amountOfHandles[m] - 1
          /\ \A n \in Multis \ {m} : amountOfHandles'[n] = amountOfHandles[n]
      BY <3>1 DEF RemoveHandle, IInv, TypeOK
    <3>. QED
      BY <3>4, <3>5, <3>6 DEF CountExact, Inside
  <2>3. CASE (\E e \in Easies : AddRefused(m, e)) \/ \E set \in BOOLEAN : OnMessage(m, set)
    BY <2>3, <1>2 DEF AddRefused, OnMessage, Inside
  <2>4. CASE CloseMulti(m)
    <3>1. /\ UNCHANGED amountOfHandles /\ ~isOpen'[m]
          /\ \A n \in Multis \ {m} : isOpen'[n] = isOpen[n]
      BY <2>4 DEF CloseMulti, IInv, TypeOK
    <3>2. \A n \in Multis \ {m} : Inside(n)' = Inside(n)
      BY <2>4, NilIsNoValue DEF CloseMulti, Detach, Inside, IInv, TypeOK
    <3>. QED
      BY <3>1, <3>2 DEF CountExact, Inside
  <2>. QED
    BY <1>4, <2>1, <2>2, <2>3, <2>4 DEF MultiCall
<1>5. ASSUME LoopStep PROVE CountExact'
  <2>1. UNCHANGED <<isOpen, amountOfHandles, memberOf>>
    BY <1>5 DEF LoopStep, SocketAction, TransferDone, TransferCallback, CallbackReturns,
                StartDrain, ReadMessage, MessageReturns, DrainDone
  <2>. QED
    BY <2>1, <1>2 DEF Inside
<1>6. ASSUME UNCHANGED vars PROVE CountExact'
  BY <1>6, <1>2 DEF vars, Inside
<1>. QED
  BY <1>3, <1>4, <1>5, <1>6 DEF Next

\* For disciplined callers getCount() is the number of handles inside.
THEOREM CountCorrect == ASSUME Disciplined PROVE Spec => []CountExact
<1>1. Init => Kept /\ CountExact
  <2>. SUFFICES ASSUME Init PROVE Kept /\ CountExact
    OBVIOUS
  <2>1. \A m \in Multis : Inside(m) = {}
    BY NilIsNoValue DEF Init, Inside
  <2>. QED
    BY <2>1, FS_EmptySet DEF Init, Kept, CountExact, Inside
<1>. QED
  BY <1>1, Invariance, NextKept, NextCount, PTL DEF Spec

----------------------------------------------------------------------------
(* The contract of perform(), step by step *)

\* A deferred stored in an open Multi waits for a transfer that is still there:
\* disciplined callers remove no handle that has not reported.
EntriesWait ==
  \A m \in Multis, p \in Ptrs :
    isOpen[m] /\ handlePromiseMap[m][p] # Nil => left[handlePromiseMap[m][p]] = "none"

\* Of the calls of disciplined callers only close() of a Multi makes a transfer
\* leave unreported.
LEMMA OnlyCloseAbandons ==
  ASSUME Disciplined, IInv, Kept, Next
  PROVE  left' = left \/ \E m \in Multis : CloseMulti(m) /\ ~CleanupRefused(m)
<1>. USE DEF easyVars, multiVars, curlVars, loopVars, histVars
<1>0. ASSUME NEW p \in Ptrs, NEW how, ~Unreported(p), Detach({p}, how) PROVE left' = left
  BY <1>0 DEF Detach, IInv, TypeOK
<1>1. ASSUME NEW e \in Easies, EasyCall(e) PROVE left' = left
  <2>1. CASE CloseEasy(e) \/ CollectEasy(e)
    <3>1. ch[e] \in Ptrs /\ ~Unreported(ch[e])
      BY <2>1, LeaverIsNoMember DEF Unreported
    <3>. QED
      BY <3>1, <2>1, <1>0 DEF CloseEasy, CollectEasy, Dispose
  <2>. QED
    BY <1>1, <2>1 DEF EasyCall, NewEasy, DupHandleThrows, Construct, ResetEasy, DropReference
<1>2. ASSUME NEW m \in Multis, MultiCall(m)
      PROVE  left' = left \/ (CloseMulti(m) /\ ~CleanupRefused(m))
  <2>1. ASSUME NEW e \in Easies, RemoveHandle(m, e) PROVE left' = left
    <3>1. ch[e] \in Ptrs /\ ~Unreported(ch[e])
      BY <2>1 DEF RemoveHandle, Open, IInv, TypeOK
    <3>. QED
      BY <3>1, <2>1, <1>0 DEF RemoveHandle
  <2>2. CASE CloseMulti(m)
    BY <2>2 DEF CloseMulti
  <2>. QED
    BY <1>2, <2>1, <2>2 DEF MultiCall, AddHandle, Perform, Add, AddRefused, OnMessage
<1>3. ASSUME LoopStep PROVE left' = left
  BY <1>3 DEF LoopStep, SocketAction, TransferDone, TransferCallback, CallbackReturns,
              StartDrain, ReadMessage, MessageReturns, DrainDone
<1>. QED
  BY <1>1, <1>2, <1>3 DEF Next

\* A close abandons the transfers of its own multi only.
LEMMA NextEntriesWait ==
  ASSUME Disciplined
  PROVE  IInv /\ Kept /\ EntriesWait /\ [Next]_vars => EntriesWait'
<1>. SUFFICES ASSUME IInv, Kept, EntriesWait, [Next]_vars PROVE EntriesWait'
  OBVIOUS
<1>. USE DEF easyVars, multiVars, curlVars, loopVars, histVars
<1>1. ASSUME UNCHANGED <<isOpen, handlePromiseMap, left>> PROVE EntriesWait'
  BY <1>1 DEF EntriesWait
<1>2. ASSUME NEW m \in Multis, CloseMulti(m), ~CleanupRefused(m) PROVE EntriesWait'
  <2>1. /\ Detach({p \in Ptrs : memberOf[p] = m}, "closed") /\ UNCHANGED handlePromiseMap
        /\ ~isOpen'[m] /\ \A n \in Multis \ {m} : isOpen'[n] = isOpen[n]
    BY <1>2 DEF CloseMulti, IInv, TypeOK
  <2>. SUFFICES ASSUME NEW n \in Multis \ {m}, NEW p \in Ptrs, isOpen[n],
                       handlePromiseMap[n][p] # Nil
                PROVE  left'[handlePromiseMap[n][p]] = "none"
    BY <2>1 DEF EntriesWait
  <2>. DEFINE t == handlePromiseMap[n][p]
  <2>2. t \in Transfers /\ t # Nil /\ left[t] = "none" /\ memberOf[p] = n /\ current[p] = t
    BY NilIsNoValue DEF EntriesWait, IInv, TypeOK, StoredPromises
  <2>3. \A q \in Ptrs : memberOf[q] = m => current[q] # t
    BY <2>2 DEF IInv, Members
  <2>. QED
    BY <2>1, <2>2, <2>3 DEF Detach
<1>3. ASSUME NEW m \in Multis, MultiCall(m), left' = left PROVE EntriesWait'
  <2>1. CASE \E e \in Easies, t \in Transfers : Perform(m, e, t)
    <3>1. PICK e \in Easies, t \in Transfers : Perform(m, e, t)
      BY <2>1
    <3>2. left[t] = "none" /\ isOpen' = isOpen
      BY <3>1 DEF Perform, Add, IInv, History
    <3>3. \A n \in Multis, p \in Ptrs :
            handlePromiseMap'[n][p] = t \/ handlePromiseMap'[n][p] = handlePromiseMap[n][p]
      BY <3>1 DEF Perform, IInv, TypeOK
    <3>. QED
      BY <3>2, <3>3, <1>3 DEF EntriesWait
  <2>2. CASE CloseMulti(m)
    BY <2>2, <1>3 DEF EntriesWait, CloseMulti, IInv, TypeOK
  <2>3. CASE \/ \E e \in Easies, t \in Transfers : AddHandle(m, e, t)
             \/ \E e \in Easies : AddRefused(m, e) \/ RemoveHandle(m, e)
             \/ \E set \in BOOLEAN : OnMessage(m, set)
    BY <2>3, <1>1, <1>3 DEF AddHandle, Add, AddRefused, RemoveHandle, OnMessage
  <2>. QED
    BY <1>3, <2>1, <2>2, <2>3 DEF MultiCall
<1>4. ASSUME LoopStep, left' = left PROVE EntriesWait'
  <2>1. CASE \E e \in Easies : ReadMessage(e)
    <3>1. PICK e \in Easies : ReadMessage(e)
      BY <2>1
    <3>2. activeMulti \in Multis /\ ch[e] \in Ptrs
      BY <3>1 DEF ReadMessage, Open, IInv, TypeOK, Stack
    <3>3. \A n \in Multis, p \in Ptrs :
            \/ handlePromiseMap'[n][p] = Nil
            \/ handlePromiseMap'[n][p] = handlePromiseMap[n][p]
      <4>1. CASE UNCHANGED handlePromiseMap
        BY <4>1
      <4>2. CASE handlePromiseMap' = [handlePromiseMap EXCEPT ![activeMulti][ch[e]] = Nil]
        BY <3>2, <4>2 DEF IInv, TypeOK
      <4>. QED
        BY <3>1, <4>1, <4>2 DEF ReadMessage, ErasePromise
    <3>. QED
      BY <3>1, <3>3, <1>4 DEF EntriesWait, ReadMessage
  <2>. QED
    BY <1>4, <2>1, <1>1 DEF LoopStep, SocketAction, TransferDone, TransferCallback,
                            CallbackReturns, StartDrain, MessageReturns, DrainDone
<1>5. ASSUME NEW e \in Easies, EasyCall(e), left' = left PROVE EntriesWait'
  BY <1>5, <1>1 DEF EasyCall, NewEasy, DupHandleThrows, Construct, ResetEasy, CloseEasy,
                    CollectEasy, DropReference, Dispose
<1>6. ASSUME UNCHANGED vars PROVE EntriesWait'
  BY <1>6, <1>1 DEF vars
<1>7. ASSUME Next, left' = left PROVE EntriesWait'
  BY <1>7, <1>3, <1>4, <1>5 DEF Next
<1>. QED
  BY <1>2, <1>6, <1>7, OnlyCloseAbandons

\* While a transfer has not reported, the promise of its perform() is pending.
LEMMA UnreportedIsWaiting ==
  ASSUME IInv, NEW p \in Ptrs, Unreported(p)
  PROVE  /\ current[p] \in Transfers /\ left[current[p]] = "none"
         /\ promise[current[p]] \in {"none", "pending"}
<1>. DEFINE t == current[p]
<1>1. t \in Transfers /\ t # Nil
  BY NilIsNoValue DEF IInv, Members, Unreported
<1>2. left[t] = "none" /\ promise[t] # "unused"
  BY <1>1 DEF IInv, History
<1>3. settledBy[t] = Nil
  BY <1>1, <1>2 DEF IInv, OwnResult, SettledByReported
<1>. QED
  BY <1>1, <1>2, <1>3 DEF IInv, TypeOK, SettledByReported, Promises, Settled

\* What the contract can see.
Seen == <<promise, left, result, threw>>

LEMMA UnseenIsStutter == UNCHANGED Seen => UNCHANGED Contract!vars
  BY DEF Seen, Contract!vars, ByPerform

\* A call to perform() starts its promise; addHandle() starts nothing the
\* contract knows of.
LEMMA PerformStarts ==
  ASSUME IInv, NEW m \in Multis, NEW e \in Easies, NEW t \in Transfers,
         AddHandle(m, e, t) \/ Perform(m, e, t)
  PROVE  Contract!Start(t) \/ UNCHANGED Contract!vars
<1>1. /\ promise[t] = "unused" /\ result[t] = "none" /\ ~threw[t] /\ left[t] = "none"
      /\ UNCHANGED <<result, threw, left>>
      /\ promise' = [promise EXCEPT ![t] = promise'[t]] /\ promise'[t] \in {"none", "pending"}
      /\ \A u \in Transfers : threw[u] \in BOOLEAN
  BY DEF IInv, TypeOK, History, AddHandle, Perform, Add
<1>2. \A u \in Transfers \ {t} : promise'[u] = promise[u]
  BY <1>1 DEF IInv, TypeOK
<1>3. CASE promise'[t] = "none"
  BY <1>1, <1>2, <1>3 DEF Contract!vars, ByPerform
<1>4. CASE promise'[t] = "pending"
  BY <1>1, <1>2, <1>4 DEF Contract!Start, ByPerform
<1>. QED
  BY <1>1, <1>3, <1>4

\* libcurl's code is the answer to the call, unless it was no perform().
LEMMA DoneAnswers ==
  ASSUME IInv, NEW p \in Ptrs, NEW code \in {"ok", "failed"}, TransferDone(p, code)
  PROVE  (\E t \in Transfers : Contract!Answer(t, code)) \/ UNCHANGED Contract!vars
<1>. USE DEF multiVars, easyVars, loopVars, histVars
<1>1. Unreported(p) /\ Running(p)
  BY NilIsNoValue DEF IInv, Stack, TransferDone, Running, Unreported
<1>2. PICK t \in Transfers : t = current[p]
  BY <1>1, UnreportedIsWaiting
<1>3. left[t] = "none" /\ promise[t] \in {"none", "pending"} /\ result[t] = "none"
  BY <1>1, <1>2, UnreportedIsWaiting DEF Running
<1>4. /\ UNCHANGED <<promise, left, threw>>
      /\ result'[t] = code /\ \A u \in Transfers \ {t} : result'[u] = result[u]
  BY <1>2 DEF TransferDone, IInv, TypeOK
<1>5. CASE promise[t] = "none"
  BY <1>3, <1>4, <1>5 DEF Contract!vars, ByPerform
<1>6. CASE promise[t] = "pending"
  BY <1>3, <1>4, <1>6 DEF Contract!Answer, ByPerform
<1>. QED
  BY <1>3, <1>5, <1>6

\* A callback that throws is one of a call that still waits for its answer.
LEMMA CallbackThrows ==
  ASSUME IInv, NEW throws \in BOOLEAN, CallbackReturns(throws)
  PROVE  (\E t \in Transfers : Contract!Throw(t)) \/ UNCHANGED Contract!vars
<1>. USE DEF multiVars, curlVars
<1>. DEFINE p == ch[activeEasy]
<1>1. p \in Ptrs /\ Running(p) /\ Unreported(p)
  BY DEF IInv, TypeOK, Stack, CallbackReturns, Open, Running, Unreported
<1>2. PICK t \in Transfers : t = current[p]
  BY <1>1, UnreportedIsWaiting
<1>3. left[t] = "none" /\ promise[t] \in {"none", "pending"} /\ result[t] = "none"
  BY <1>1, <1>2, UnreportedIsWaiting DEF Running
<1>4. /\ UNCHANGED <<promise, left, result>>
      /\ threw' = threw \/ threw' = [threw EXCEPT ![t] = TRUE]
  BY <1>2 DEF CallbackReturns
<1>5. CASE threw' = threw
  BY <1>4, <1>5, UnseenIsStutter DEF Seen
<1>6. CASE threw' = [threw EXCEPT ![t] = TRUE]
  <2>1. threw'[t] = TRUE /\ \A u \in Transfers \ {t} : threw'[u] = threw[u]
    BY <1>6 DEF IInv, TypeOK
  <2>2. CASE promise[t] = "none"
    BY <1>3, <1>4, <2>1, <2>2 DEF Contract!vars, ByPerform
  <2>3. CASE promise[t] = "pending"
    BY <1>3, <1>4, <2>1, <2>3 DEF Contract!Throw, ByPerform
  <2>. QED
    BY <1>3, <2>2, <2>3
<1>. QED
  BY <1>4, <1>5, <1>6

\* So is, of a duplicate's callback that throws, the call of the busy original,
\* if that one has any.
LEMMA DuplicateThrows ==
  ASSUME IInv, NEW orig \in Easies, NEW e \in Easies, NEW p \in Ptrs,
         DupHandleThrows(orig, e, p)
  PROVE  (\E t \in Transfers : Contract!Throw(t)) \/ UNCHANGED Contract!vars
<1>. USE DEF multiVars, curlVars
<1>. DEFINE q == ch[orig]
<1>1. q \in Ptrs /\ UNCHANGED <<promise, left, result>>
  BY DEF DupHandleThrows, Construct, IInv, TypeOK, Open
<1>2. CASE ~Unreported(q)
  BY <1>1, <1>2, UnseenIsStutter DEF DupHandleThrows, Seen
<1>3. CASE Unreported(q)
  <2>1. PICK t \in Transfers : t = current[q]
    BY <1>1, <1>3, UnreportedIsWaiting
  <2>2. left[t] = "none" /\ promise[t] \in {"none", "pending"}
    BY <1>1, <1>3, <2>1, UnreportedIsWaiting
  <2>3. threw'[t] = TRUE /\ \A u \in Transfers \ {t} : threw'[u] = threw[u]
    BY <1>3, <2>1 DEF DupHandleThrows, IInv, TypeOK
  <2>4. CASE promise[t] = "none"
    BY <1>1, <2>2, <2>3, <2>4 DEF Contract!vars, ByPerform
  <2>5. CASE promise[t] = "pending"
    BY <1>1, <2>2, <2>3, <2>5 DEF Contract!Throw, ByPerform
  <2>. QED
    BY <2>2, <2>4, <2>5
<1>. QED
  BY <1>2, <1>3

\* The message of a transfer settles the call that started it, by its outcome.
LEMMA MessageSettles ==
  ASSUME IInv, EntriesWait, NEW e \in Easies, ReadMessage(e)
  PROVE  (\E t \in Transfers : Contract!Settle(t)) \/ UNCHANGED Contract!vars
<1>. DEFINE p == ch[e]
            m == activeMulti
            entry == handlePromiseMap[m][p]
<1>1. /\ p \in Ptrs /\ m \in Multis /\ isOpen[m] /\ Open(e) /\ Unreported(p)
      /\ p \in msgs /\ entry \in Transfers \cup {Nil}
      /\ UNCHANGED <<result, threw, left>>
  BY NilIsNoValue DEF IInv, TypeOK, Stack, ReadMessage, Open, Unreported
<1>2. CASE entry = Nil
  BY <1>1, <1>2, UnseenIsStutter DEF ReadMessage, Seen
<1>3. CASE entry # Nil
  <2>1. PICK t \in Transfers : t = entry
    BY <1>1, <1>3
  <2>2. promise[t] = "pending" /\ left[t] = "none" /\ current[p] = t
    BY <1>1, <1>3, <2>1 DEF EntriesWait, IInv, StoredPromises
  <2>3. result[t] \in {"ok", "failed"} /\ (callbackError[e] <=> threw[t])
    BY <1>1, <2>2 DEF IInv, TypeOK, Members, ErrorsAreCurrent
  <2>4. Verdict(e) = IF threw[t] THEN "aborted"
                     ELSE IF result[t] = "ok" THEN "resolved" ELSE "rejected"
    BY <2>2, <2>3 DEF Verdict
  <2>5. /\ promise'[t] = Verdict(e)
        /\ \A u \in Transfers \ {t} : promise'[u] = promise[u]
    BY <1>3, <2>1 DEF ReadMessage, IInv, TypeOK
  <2>6. /\ ByPerform(t) /\ ByPerform(t)' /\ promise'[t] # "pending"
        /\ \A u \in Transfers \ {t} : ByPerform(u)' <=> ByPerform(u)
    BY <2>2, <2>4, <2>5 DEF ByPerform
  <2>7. Contract!Settle(t)
    <3>1. \A u \in Transfers \ {t} : promise'[u] = promise[u] /\ left'[u] = left[u]
      BY <1>1, <2>5
    <3>2. /\ left[t] = "none" /\ left'[t] = "none" /\ promise[t] = "pending"
          /\ promise'[t] = Verdict(e) /\ result' = result /\ threw' = threw
      BY <1>1, <2>2, <2>5
    <3>. QED
      BY <3>1, <3>2, <2>3, <2>4, <2>6 DEF Contract!Settle, Contract!Verdict
  <2>. QED
    BY <2>7
<1>. QED
  BY <1>2, <1>3

\* Closing a Multi abandons the calls that wait in it.
LEMMA CloseAbandons ==
  ASSUME IInv, NEW m \in Multis, CloseMulti(m), ~CleanupRefused(m)
  PROVE  \E S \in SUBSET Transfers : Contract!Abandon(S)
<1>. USE DEF easyVars
<1>0. PICK S \in SUBSET Transfers :
        S = {t \in Transfers : /\ ByPerform(t)
                               /\ \E p \in Ptrs : /\ memberOf[p] = m /\ current[p] = t
                                                  /\ Unreported(p)}
  OBVIOUS
<1>1. /\ \A t \in S : ByPerform(t) /\ left[t] = "none" /\ promise[t] = "pending"
      /\ UNCHANGED <<promise, result, threw>>
  BY <1>0, UnreportedIsWaiting DEF CloseMulti, ByPerform
<1>2. \A t \in Transfers : ByPerform(t) => left'[t] = IF t \in S THEN "closed" ELSE left[t]
  BY <1>0 DEF CloseMulti, Detach
<1>3. \A t \in Transfers : ByPerform(t)' <=> ByPerform(t)
  BY <1>1 DEF ByPerform
<1>4. Contract!Abandon(S)
  BY <1>1, <1>2, <1>3 DEF Contract!Abandon
<1>. QED
  BY <1>4

\* Every step is a step of the contract or invisible to it.
LEMMA NextMeetsContract ==
  ASSUME Disciplined
  PROVE  IInv /\ Kept /\ EntriesWait /\ [Next]_vars => [Contract!Next]_(Contract!vars)
<1>. SUFFICES ASSUME IInv, Kept, EntriesWait, [Next]_vars
              PROVE  Contract!Next \/ UNCHANGED Contract!vars
  OBVIOUS
<1>. USE DEF easyVars, multiVars, curlVars, loopVars, histVars
<1>1. ASSUME NEW m \in Multis, CloseMulti(m), ~CleanupRefused(m) PROVE Contract!Next
  BY <1>1, CloseAbandons DEF Contract!Next
<1>2. ASSUME NEW e \in Easies, EasyCall(e), left' = left
      PROVE  Contract!Next \/ UNCHANGED Contract!vars
  <2>1. ASSUME ResetEasy(e) PROVE UNCHANGED Seen
    <3>1. ~Unreported(ch[e])
      BY <2>1 DEF ResetEasy, IInv, TypeOK, LiveHandles, Addresses, Open, Unreported
    <3>. QED
      BY <2>1, <3>1 DEF ResetEasy, Seen
  <2>2. ASSUME \/ \E p \in Ptrs : NewEasy(e, p)
               \/ CloseEasy(e) \/ CollectEasy(e) \/ DropReference(e)
        PROVE  UNCHANGED Seen
    BY <1>2, <2>2 DEF NewEasy, Construct, CloseEasy, CollectEasy, DropReference, Dispose, Seen
  <2>3. ASSUME NEW orig \in Easies, NEW p \in Ptrs, DupHandleThrows(orig, e, p)
        PROVE  Contract!Next \/ UNCHANGED Contract!vars
    BY <2>3, DuplicateThrows DEF Contract!Next
  <2>. QED
    BY <1>2, <2>1, <2>2, <2>3, UnseenIsStutter DEF EasyCall
<1>3. ASSUME NEW m \in Multis, MultiCall(m), left' = left
      PROVE  Contract!Next \/ UNCHANGED Contract!vars
  <2>1. ASSUME NEW e \in Easies, NEW t \in Transfers, AddHandle(m, e, t) \/ Perform(m, e, t)
        PROVE  Contract!Next \/ UNCHANGED Contract!vars
    BY <2>1, PerformStarts DEF Contract!Next
  <2>2. CASE \/ \E e \in Easies : AddRefused(m, e) \/ RemoveHandle(m, e)
             \/ \E set \in BOOLEAN : OnMessage(m, set)
             \/ CloseMulti(m)
    <3>1. UNCHANGED Seen
      BY <2>2, <1>3 DEF AddRefused, RemoveHandle, OnMessage, CloseMulti, Seen
    <3>. QED
      BY <3>1, UnseenIsStutter
  <2>. QED
    BY <1>3, <2>1, <2>2 DEF MultiCall
<1>4. ASSUME LoopStep PROVE Contract!Next \/ UNCHANGED Contract!vars
  <2>1. ASSUME NEW p \in Ptrs, NEW code \in {"ok", "failed"}, TransferDone(p, code)
        PROVE  Contract!Next \/ UNCHANGED Contract!vars
    BY <2>1, DoneAnswers DEF Contract!Next
  <2>2. ASSUME NEW throws \in BOOLEAN, CallbackReturns(throws)
        PROVE  Contract!Next \/ UNCHANGED Contract!vars
    BY <2>2, CallbackThrows DEF Contract!Next
  <2>3. ASSUME NEW e \in Easies, ReadMessage(e)
        PROVE  Contract!Next \/ UNCHANGED Contract!vars
    BY <2>3, MessageSettles DEF Contract!Next
  <2>4. CASE \/ \E m \in Multis : SocketAction(m)
             \/ \E e \in Easies : TransferCallback(e)
             \/ StartDrain \/ MessageReturns \/ DrainDone
    <3>1. UNCHANGED Seen
      BY <2>4 DEF SocketAction, TransferCallback, StartDrain, MessageReturns, DrainDone, Seen
    <3>. QED
      BY <3>1, UnseenIsStutter
  <2>. QED
    BY <1>4, <2>1, <2>2, <2>3, <2>4 DEF LoopStep
<1>5. ASSUME UNCHANGED vars PROVE UNCHANGED Seen
  BY <1>5 DEF vars, Seen
<1>6. ASSUME Next, left' = left PROVE Contract!Next \/ UNCHANGED Contract!vars
  BY <1>6, <1>2, <1>3, <1>4, UnseenIsStutter DEF Next
<1>. QED
  BY <1>1, <1>5, <1>6, OnlyCloseAbandons, UnseenIsStutter

\* For disciplined callers perform() keeps its contract (the safety part of
\* ImplementsContract): one promise for each call, settled once, by the outcome
\* of that call's own request; only closing the Multi abandons a call.
THEOREM PerformKeepsContract ==
  ASSUME Disciplined PROVE Spec => Contract!Init /\ [][Contract!Next]_(Contract!vars)
<1>1. Init => Contract!Init
  BY DEF Init, Contract!Init, ByPerform
<1>2. Init => Kept /\ EntriesWait
  BY DEF Init, Kept, EntriesWait
<1>. QED
  BY <1>1, <1>2, Invariance, NextKept, NextEntriesWait, NextMeetsContract, PTL DEF Spec

=============================================================================
