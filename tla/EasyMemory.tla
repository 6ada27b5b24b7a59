----------------------------- MODULE EasyMemory -----------------------------
(***************************************************************************)
(* Who frees what libcurl does not copy: the lists and MIME structures     *)
(* that setOpt() hands to a CURL* (src/Easy.cc, src/CurlMime.cc) and the   *)
(* shares (src/Share.cc).                                                  *)
(*                                                                         *)
(* An Easy keeps what it handed over in a ToFree.  dupHandle() copies the  *)
(* pointers inside the CURL*, so the copy shares the ToFree, and reset()   *)
(* leaves it for a new one; the last Easy to leave frees what is in it.  A *)
(* MIME structure has a parent in libcurl, a part of another structure or  *)
(* the MIMEPOST option of one CURL*, and frees what is below.              *)
(***************************************************************************)
EXTENDS Integers, FiniteSets

CONSTANTS
  Easies,      \* Easy objects
  ToFrees,     \* ToFree objects
  Lists,       \* curl_slist, one per setOpt() of a list option
  Mimes,       \* CurlMime objects with their curl_mime
  Shares,      \* Share objects
  Nil,         \* no object
  Disciplined  \* the caller keeps to what the comments at the guards say

ASSUME KindsDiffer ==
  /\ Easies \cap (Lists \cup Mimes) = {} /\ Lists \cap Mimes = {}
  /\ Nil \notin Easies \cup ToFrees \cup Lists \cup Mimes \cup Shares
ASSUME DisciplineIsAChoice == Disciplined \in BOOLEAN

Data == Lists \cup Mimes

VARIABLES
  easy,       \* "new", "open", "closed"
  toFree,     \* the ToFree an Easy shares
  held,       \* how often an item is in a ToFree
  freed,      \* items that were freed
  twice,      \* items that were freed again
  slist, mimepost, share,  \* what the options of a CURL* point to
  mime,       \* the CurlMime objects, and the parent libcurl knows
  shareState, \* "new", "open", "closed"
  easyCount, shareCount,   \* activeHandleCount
  aborted     \* an assertion ended the process

memory  == <<toFree, held, freed, twice>>
options == <<slist, mimepost, share>>
vars == <<easy, memory, options, mime, shareState, easyCount, shareCount, aborted>>

Empty == [d \in Data |-> 0]

Init ==
  /\ easy = [e \in Easies |-> "new"] /\ toFree = [e \in Easies |-> Nil]
  /\ held = [p \in ToFrees |-> Empty] /\ freed = {} /\ twice = {}
  /\ slist = [e \in Easies |-> Nil] /\ mimepost = [e \in Easies |-> Nil]
  /\ share = [e \in Easies |-> Nil]
  /\ mime = [m \in Mimes |-> [state |-> "new", parent |-> Nil]]
  /\ shareState = [s \in Shares |-> "new"]
  /\ easyCount = 0 /\ shareCount = 0 /\ aborted = FALSE

Running == ~aborted
Open(e) == easy[e] = "open"

\* m and all structures below it: the smallest such set.
Below(m) ==
  {x \in Mimes : \A S \in SUBSET Mimes :
     (m \in S /\ \A y \in Mimes : mime[y].parent \in S => y \in S) => x \in S}

Family(d) == IF d \in Mimes THEN Below(d) ELSE {d}

----------------------------------------------------------------------------
(* ToFree *)

Unused(p) == \A e \in Easies : toFree[e] # p

\* ~ToFree: curl_slist_free_all and curl_mime_free for every entry.  A freed
\* structure leaves its parent first and takes what is below with it.
Dispose(p) ==
  LET entries == {d \in Data : held[p][d] > 0}
      gone    == UNION {Family(d) : d \in entries}
  IN
  /\ freed' = freed \cup gone
  /\ twice' = twice \cup (gone \cap freed) \cup {d \in entries : held[p][d] > 1}
  /\ held' = [held EXCEPT ![p] = Empty]
  /\ mime' = [m \in Mimes |-> IF m \in gone THEN [mime[m] EXCEPT !.parent = Nil] ELSE mime[m]]

\* libcurl lets go of the MIME structure m that an option pointed to.
Unbind(m) == [x \in Mimes |-> IF x = m THEN [mime[x] EXCEPT !.parent = Nil] ELSE mime[x]]

\* [mutant] nobody frees what an abandoned ToFree holds.
LeaveOnly(e, next) ==
  /\ toFree' = [toFree EXCEPT ![e] = next]
  /\ mime' = Unbind(mimepost[e])
  /\ UNCHANGED <<held, freed, twice>>

\* toFree.reset() after libcurl let go of the options of e: the last Easy that
\* shares it frees what it holds.
Leave(e, next) ==
  /\ toFree' = [toFree EXCEPT ![e] = next]
  /\ \/ /\ \A x \in Easies \ {e} : toFree[x] # toFree[e]
        /\ Dispose(toFree[e])
     \/ /\ \E x \in Easies \ {e} : toFree[x] = toFree[e]
        /\ mime' = Unbind(mimepost[e])
        /\ UNCHANGED <<held, freed, twice>>

----------------------------------------------------------------------------
(* Easy *)

NewEasy(e, p) ==
  /\ Running /\ easy[e] = "new" /\ Unused(p)
  /\ easy' = [easy EXCEPT ![e] = "open"]
  /\ toFree' = [toFree EXCEPT ![e] = p]
  /\ easyCount' = easyCount + 1
  /\ UNCHANGED <<held, freed, twice, options, mime, shareState, shareCount, aborted>>

\* What curl_easy_duphandle copies: the pointer to the list, a copy of the MIME
\* structure that is its own, no share.
Duplicate(e, d) == slist' = [slist EXCEPT ![d] = slist[e]] /\ UNCHANGED <<mimepost, share>>

\* [mutant] the duplicate starts with a ToFree of its own.
OwnToFree(e, d) ==
  \E p \in ToFrees : Unused(p) /\ toFree' = [toFree EXCEPT ![d] = p] /\ UNCHANGED held

\* [mutant] the duplicate copies the entries of the ToFree.
CopyToFree(e, d) ==
  \E p \in ToFrees :
    /\ Unused(p) /\ toFree' = [toFree EXCEPT ![d] = p]
    /\ held' = [held EXCEPT ![p] = held[toFree[e]]]

CopyOtherData(e, d) == toFree' = [toFree EXCEPT ![d] = toFree[e]] /\ UNCHANGED held

\* The copy constructor.
CopyEasy(e, d) ==
  /\ easy' = [easy EXCEPT ![d] = "open"]
  /\ Duplicate(e, d) /\ CopyOtherData(e, d)
  /\ easyCount' = easyCount + 1
  /\ UNCHANGED <<freed, twice, mime>>

\* dupHandle()
DupHandle(e, d) ==
  /\ Running /\ Open(e) /\ easy[d] = "new"
  /\ CopyEasy(e, d)
  /\ UNCHANGED <<shareState, shareCount, aborted>>

\* curl_easy_reset keeps the share.
Reset(e, p) ==
  /\ Running /\ Open(e)
  /\ Unused(p) \/ (toFree[e] = p /\ \A x \in Easies \ {e} : toFree[x] # p)
  /\ slist' = [slist EXCEPT ![e] = Nil]
  /\ mimepost' = [mimepost EXCEPT ![e] = Nil]
  /\ Leave(e, p)
  /\ UNCHANGED <<easy, share, shareState, easyCount, shareCount, aborted>>

\* close(), or the destructor of an Easy nobody references.
Close(e) ==
  /\ Running /\ Open(e)
  /\ easy' = [easy EXCEPT ![e] = "closed"]
  /\ slist' = [slist EXCEPT ![e] = Nil]
  /\ mimepost' = [mimepost EXCEPT ![e] = Nil]
  /\ share' = [share EXCEPT ![e] = Nil]
  /\ Leave(e, Nil)
  /\ easyCount' = easyCount - 1
  /\ UNCHANGED <<shareState, shareCount, aborted>>

----------------------------------------------------------------------------
(* setOpt *)

Push(e, d) == held' = [held EXCEPT ![toFree[e]][d] = @ + 1]

\* A list option; l is the list made from the array.
SetList(e, l) ==
  /\ Running /\ Open(e) /\ l \notin freed /\ \A p \in ToFrees : held[p][l] = 0
  /\ slist' = [slist EXCEPT ![e] = l]
  /\ Push(e, l)
  /\ UNCHANGED <<easy, toFree, freed, twice, mimepost, share, mime, shareState,
                 easyCount, shareCount, aborted>>

\* setOpt(option, null): the list stays in the ToFree.
UnsetList(e) ==
  /\ Running /\ Open(e) /\ slist[e] # Nil
  /\ slist' = [slist EXCEPT ![e] = Nil]
  /\ UNCHANGED <<easy, memory, mimepost, share, mime, shareState, easyCount,
                 shareCount, aborted>>

Given(m) == m \in freed \/ mime[m].parent # Nil \/ \E p \in ToFrees : held[p][m] > 0

\* Binding a structure: the one bound before is let go, and libcurl refuses
\* one that has a parent, unless it is the one bound already.  CurlMime keeps
\* its pointer, also when the structure is freed; a disciplined caller does not
\* use it again.
SetMimePost(e, m) ==
  LET accepted == mimepost[e] = m \/ mime[m].parent = Nil IN
  /\ Running /\ Open(e) /\ mime[m].state = "open"
  /\ Disciplined => ~Given(m)
  /\ \A p \in ToFrees : held[p][m] < 2
  /\ mimepost' = [mimepost EXCEPT ![e] = IF accepted THEN m ELSE Nil]
  /\ mime' = [x \in Mimes |->
       [mime[x] EXCEPT !.parent = IF x = m /\ accepted THEN e
                                  ELSE IF x = mimepost[e] THEN Nil ELSE @]]
  /\ IF accepted THEN Push(e, m) ELSE UNCHANGED held
  /\ UNCHANGED <<easy, toFree, freed, twice, slist, share, shareState, easyCount, shareCount,
                 aborted>>

UnsetMimePost(e) ==
  /\ Running /\ Open(e) /\ mimepost[e] # Nil
  /\ mime' = [mime EXCEPT ![mimepost[e]].parent = Nil]
  /\ mimepost' = [mimepost EXCEPT ![e] = Nil]
  /\ UNCHANGED <<easy, memory, slist, share, shareState, easyCount, shareCount,
                 aborted>>

SetShare(e, s) ==
  /\ Running /\ Open(e) /\ shareState[s] = "open"
  /\ share' = [share EXCEPT ![e] = s]
  /\ UNCHANGED <<easy, memory, slist, mimepost, mime, shareState, easyCount,
                 shareCount, aborted>>

UnsetShare(e) ==
  /\ Running /\ Open(e) /\ share[e] # Nil
  /\ share' = [share EXCEPT ![e] = Nil]
  /\ UNCHANGED <<easy, memory, slist, mimepost, mime, shareState, easyCount,
                 shareCount, aborted>>

----------------------------------------------------------------------------
(* CurlMime and Share *)

NewMime(m, e) ==
  /\ Running /\ Open(e) /\ mime[m].state = "new"
  /\ mime' = [mime EXCEPT ![m].state = "open"]
  /\ UNCHANGED <<easy, memory, options, shareState, easyCount, shareCount, aborted>>

\* setSubparts(): libcurl refuses a structure that has a parent or is the root
\* of the part; of what it takes the CurlMime forgets its pointer.  A part has a
\* pointer, too, that outlives its structure; a disciplined caller leaves it then.
SetSubparts(m, x) ==
  /\ Running /\ mime[m].state # "new"
  /\ mime[x].state = "open" /\ mime[x].parent = Nil
  /\ Disciplined => m \notin freed /\ ~Given(x)
  /\ m \notin Below(x)
  /\ mime' = [mime EXCEPT ![x].parent = m, ![x].state = "given"]
  /\ UNCHANGED <<easy, memory, options, shareState, easyCount, shareCount, aborted>>

\* setSubparts(null): libcurl frees what the part owned.
UnsetSubparts(m, x) ==
  /\ Running /\ mime[x].parent = m
  /\ Disciplined => m \notin freed
  /\ freed' = freed \cup Below(x) /\ twice' = twice \cup (Below(x) \cap freed)
  /\ mime' = [y \in Mimes |-> IF y \in Below(x) THEN [mime[y] EXCEPT !.parent = Nil] ELSE mime[y]]
  /\ UNCHANGED <<easy, toFree, held, options, shareState, easyCount, shareCount, aborted>>

NewShare(s) ==
  /\ Running /\ shareState[s] = "new"
  /\ shareState' = [shareState EXCEPT ![s] = "open"]
  /\ shareCount' = shareCount + 1
  /\ UNCHANGED <<easy, memory, options, mime, easyCount, aborted>>

InUse(s) == \E e \in Easies : share[e] = s

\* close() or the destructor: curl_share_cleanup refuses a share in use, and
\* the assertion after it ends the process.
CloseShare(s) ==
  /\ Running /\ shareState[s] = "open"
  /\ shareState' = [shareState EXCEPT ![s] = IF InUse(s) THEN @ ELSE "closed"]
  /\ aborted' = InUse(s)
  /\ shareCount' = IF InUse(s) THEN shareCount ELSE shareCount - 1
  /\ UNCHANGED <<easy, memory, options, mime, easyCount>>

----------------------------------------------------------------------------
EasyStep(e) ==
  \/ \E p \in ToFrees : NewEasy(e, p) \/ Reset(e, p)
  \/ \E d \in Easies : DupHandle(e, d)
  \/ Close(e)

SetOpt(e) ==
  \/ \E l \in Lists : SetList(e, l)
  \/ \E m \in Mimes : SetMimePost(e, m)
  \/ \E s \in Shares : SetShare(e, s)
  \/ UnsetList(e)
  \/ UnsetMimePost(e)
  \/ UnsetShare(e)

MimeStep(m) ==
  \/ \E e \in Easies : NewMime(m, e)
  \/ \E x \in Mimes : SetSubparts(m, x) \/ UnsetSubparts(m, x)

Next ==
  \/ \E e \in Easies : EasyStep(e) \/ SetOpt(e)
  \/ \E m \in Mimes : MimeStep(m)
  \/ \E s \in Shares : NewShare(s) \/ CloseShare(s)

Spec == Init /\ [][Next]_vars

----------------------------------------------------------------------------
(* Properties *)

\* Values stay in their ranges, and exactly the open Easies have a ToFree.
TypeOK ==
  /\ easy \in [Easies -> {"new", "open", "closed"}]
  /\ toFree \in [Easies -> ToFrees \cup {Nil}]
  /\ held \in [ToFrees -> [Data -> Nat]]
  /\ freed \subseteq Data /\ twice \subseteq Data
  /\ slist \in [Easies -> Lists \cup {Nil}] /\ mimepost \in [Easies -> Mimes \cup {Nil}]
  /\ share \in [Easies -> Shares \cup {Nil}]
  /\ mime \in [Mimes -> [state : {"new", "open", "given"},
                         parent : Easies \cup Mimes \cup {Nil}]]
  /\ shareState \in [Shares -> {"new", "open", "closed"}]
  /\ easyCount \in Int /\ shareCount \in Int /\ aborted \in BOOLEAN
  /\ \A e \in Easies : Open(e) <=> toFree[e] # Nil

\* What the options of an open handle point to is not freed: lists and MIME
\* structures through any sequence of duplicates, resets and closes (Easy.cc:244,
\* 1147), and shares.
OptionsAlive ==
  /\ TypeOK
  /\ \A e \in Easies : Open(e) =>
       /\ slist[e] \notin freed
       /\ mimepost[e] # Nil => Family(mimepost[e]) \cap freed = {}
       /\ share[e] # Nil => shareState[share[e]] = "open"

\* No list and no MIME structure is freed a second time, whether it was handed
\* over by setOpt() or as the subparts of another one (Easy.cc:51-58, CurlMime.cc:490).
FreedOnce == twice = {}

\* getCount() of Easy and Share: every way to make one is counted, every way to
\* lose one is counted back.
CountsOpen ==
  /\ easyCount = Cardinality({e \in Easies : Open(e)})
  /\ shareCount = Cardinality({s \in Shares : shareState[s] = "open"})

\* What setOpt() and setSubparts() took over is freed, or has an owner: a ToFree
\* that an open Easy shares, or the structure whose part it is; and an option of
\* an open Easy points only to what its own ToFree holds or shares (Easy.cc:635, 655).
\* The counts behind getCount() tell the same.
NothingLeaks ==
  /\ CountsOpen
  /\ \A p \in ToFrees, d \in Data : held[p][d] > 0 => \E e \in Easies : Open(e) /\ toFree[e] = p
  /\ \A m \in Mimes : mime[m].state = "given" => m \in freed \/ mime[m].parent \in Mimes
  /\ \A e \in Easies : Open(e) =>
       /\ slist[e] # Nil => held[toFree[e]][slist[e]] > 0
       /\ mimepost[e] # Nil => held[toFree[e]][mimepost[e]] > 0
=============================================================================
