--------------------------- MODULE EasyCallbacks ---------------------------
(***************************************************************************)
(* What one Easy keeps between the calls of its callbacks (src/Easy.cc):   *)
(* the entries a HSTSREADFUNCTION returned as an array and has not handed  *)
(* to libcurl yet, whether a progress callback asked to abort, and the     *)
(* file of READDATA with the place to read from.                           *)
(*                                                                         *)
(* libcurl fills its HSTS cache whenever a request starts, and when the    *)
(* handle is duplicated: it calls CbHstsRead until the answer is not OK.   *)
(* The array survives the end of a load, of a request, and, half of it,    *)
(* reset(); this is the module of what one request finds of another one.   *)
(***************************************************************************)
EXTENDS Integers, SequencesExt

CONSTANTS
  MaxLength,   \* bound of the model: entries of one array
  MaxAnswers,  \* bound of the model: calls of the HSTSREADFUNCTION
  MaxOffset    \* bound of the model: places in the file

\* What a callback can return for an entry: one that libcurl takes, an object
\* with a wrong host, expire or includeSubDomains, or no object.
Kinds == {"good", "bad", "other"}
Arrays == UNION {[1 .. n -> Kinds] : n \in 0 .. MaxLength}

VARIABLES
  hasCallback,         \* HSTSREADFUNCTION is set
  hstsReadCache,       \* entries of an array, the next one at the back
  wasHstsReadCacheSet,
  progressAborted,     \* isCbProgressAlreadyAborted
  hasFile,             \* readDataFileDescriptor is not -1
  readDataOffset,      \* where to read next; -1: where the descriptor is
  phase,               \* "idle", "load", "dupLoad", "transfer"
  result,              \* what CbHstsRead, or the progress callback, returned last;
                       \* "OK" when a request starts
  \* history
  answers,             \* calls of the HSTSREADFUNCTION
  asked,               \* and those of this load
  arrays,              \* arrays with entries it returned in this load
  given,               \* the entry libcurl took last
  lastReset,           \* answers when reset() was called last
  leftover,            \* an earlier load or a reset() left an array in the middle
  wantsAbort,          \* the progress callback asked to abort since the last reset()
  sought,              \* libcurl sought in the file since the last reset()
  fileGiven            \* setOpt() gave a file since the last reset()

file == <<hasFile, readDataOffset, sought, fileGiven>>
progress == <<progressAborted, wantsAbort>>
hsts == <<hasCallback, hstsReadCache, wasHstsReadCacheSet>>
history == <<answers, asked, arrays, given, lastReset, leftover>>
vars == <<hsts, file, progress, phase, result, history>>

NoEntry == [answer |-> 0, index |-> 0, kind |-> "good"]

Init ==
  /\ hasCallback = FALSE /\ hstsReadCache = <<>> /\ wasHstsReadCacheSet = FALSE
  /\ progressAborted = FALSE /\ phase = "idle" /\ result = "OK"
  /\ answers = 0 /\ asked = 0 /\ arrays = 0 /\ given = NoEntry /\ lastReset = 0
  /\ hasFile = FALSE /\ readDataOffset = -1
  /\ leftover = FALSE /\ wantsAbort = FALSE /\ sought = FALSE /\ fileGiven = FALSE

----------------------------------------------------------------------------
(* CbHstsRead *)

\* The end of a load: libcurl stops at the first answer that is not OK, fails
\* the request when it is FAIL, and ignores it when it duplicates a handle.
Answer(r) ==
  /\ result' = r
  /\ phase' = IF r = "OK" THEN phase
              ELSE IF r = "DONE" /\ phase = "load" THEN "transfer" ELSE "idle"
  /\ leftover' = (leftover \/ (r = "FAIL" /\ (hstsReadCache' # <<>> \/ wasHstsReadCacheSet')))

\* An object is checked and copied for libcurl; anything else fails.
HandOut(entry) ==
  /\ Answer(IF entry.kind = "good" THEN "OK" ELSE "FAIL")
  /\ given' = IF entry.kind = "good" THEN entry ELSE given

\* The array is pushed from its end up to the first element that is no object:
\* the next entry to hand out is at the back.
Pushed(array) ==
  LET entry(i) == [answer |-> answers + 1, index |-> i, kind |-> array[i]]
      others   == {i \in DOMAIN array : array[i] = "other"}
      first    == 1 + (CHOOSE i \in others \cup {0} : \A j \in others : j <= i)
  IN [k \in 1 .. Len(array) + 1 - first |-> entry(Len(array) + 1 - k)]

\* [mutant] the array is pushed from its start.
TakeForward(array) ==
  LET cache == Reverse(Pushed(array))
  IN /\ "other" \notin {array[i] : i \in DOMAIN array}
     /\ hstsReadCache' = Front(cache) /\ wasHstsReadCacheSet' = TRUE /\ HandOut(Last(cache))

TakeArray(array) ==
  LET cache == Pushed(array) IN
  \/ /\ "other" \in {array[i] : i \in DOMAIN array}
     /\ hstsReadCache' = cache /\ UNCHANGED <<wasHstsReadCacheSet, given>>
     /\ Answer("FAIL")
  \/ /\ "other" \notin {array[i] : i \in DOMAIN array}
     /\ hstsReadCache' = Front(cache) /\ wasHstsReadCacheSet' = TRUE
     /\ HandOut(Last(cache))

Loading == phase \in {"load", "dupLoad"}

ReadCached ==
  /\ Loading /\ hstsReadCache # <<>>
  /\ hstsReadCache' = Front(hstsReadCache)
  /\ UNCHANGED wasHstsReadCacheSet
  /\ HandOut(Last(hstsReadCache))
  /\ UNCHANGED <<hasCallback, file, progress, answers, asked, arrays, lastReset>>

\* [mutant] the flag of a used up array stays.
ReadUsedUpAgain ==
  /\ Loading /\ hstsReadCache = <<>> /\ wasHstsReadCacheSet
  /\ Answer("DONE")
  /\ UNCHANGED <<hsts, file, progress, answers, asked, arrays, given, lastReset>>

ReadUsedUp ==
  /\ Loading /\ hstsReadCache = <<>> /\ wasHstsReadCacheSet
  /\ wasHstsReadCacheSet' = FALSE
  /\ Answer("DONE")
  /\ UNCHANGED <<hasCallback, hstsReadCache, file, progress, answers, asked, arrays, given,
                 lastReset>>

Asking ==
  /\ Loading /\ hstsReadCache = <<>> /\ ~wasHstsReadCacheSet
  /\ answers < MaxAnswers
  /\ answers' = answers + 1 /\ asked' = asked + 1

\* null, or an empty array.
AskNothing ==
  /\ Asking /\ Answer("DONE")
  /\ UNCHANGED <<hsts, file, progress, arrays, given, lastReset>>

\* A single entry; what is neither object, array nor null; and an exception.
AskEntry(kind) ==
  /\ Asking /\ UNCHANGED <<hstsReadCache, wasHstsReadCacheSet>>
  /\ HandOut([answer |-> answers + 1, index |-> 1, kind |-> kind])
  /\ UNCHANGED <<hasCallback, file, progress, arrays, lastReset>>

AskArray(array) ==
  /\ Asking /\ array # <<>>
  /\ TakeArray(array)
  /\ arrays' = arrays + 1
  /\ UNCHANGED <<hasCallback, file, progress, lastReset>>

----------------------------------------------------------------------------
(* The requests of the handle *)

\* setOpt('HSTSREADFUNCTION', function or null), at any time but from that function:
\* libcurl, which goes on with the load, would call what is no longer there.
SetCallback(set) ==
  /\ ~Loading /\ hasCallback # set
  /\ hasCallback' = set
  /\ UNCHANGED <<hstsReadCache, wasHstsReadCacheSet, file, progress, phase, result, history>>

\* A request starts, or the handle is duplicated; that a busy handle is duplicated
\* makes no difference to its own transfer, nor that transfer to the load.
Load(kind) ==
  /\ phase = "idle" /\ hasCallback
  /\ phase' = kind /\ result' = "OK"
  /\ asked' = 0 /\ arrays' = 0
  /\ leftover' = (leftover /\ (hstsReadCache # <<>> \/ wasHstsReadCacheSet))
  /\ UNCHANGED <<hsts, file, progress, answers, given, lastReset>>

StartWithoutCallback ==
  /\ phase = "idle" /\ ~hasCallback
  /\ phase' = "transfer" /\ result' = "OK"
  /\ UNCHANGED <<hsts, file, progress, history>>

\* CbProgress and CbXferinfo: the callback is asked until it wants to abort.
Progress(wants) ==
  /\ phase = "transfer"
  /\ wants => ~progressAborted
  /\ LET abort == wants \/ progressAborted IN
     /\ progressAborted' = abort
     /\ wantsAbort' = (wantsAbort \/ wants)
     /\ result' = IF abort THEN "ABORT" ELSE result
     /\ phase' = IF abort THEN "idle" ELSE phase
  /\ UNCHANGED <<hsts, file, history>>

Completes ==
  /\ phase = "transfer" /\ phase' = "idle"
  /\ UNCHANGED <<hsts, file, progress, result, history>>

\* setOpt('READDATA', descriptor or -1), at any time: the place to read from stays.
SetReadData(set) ==
  /\ hasFile # set
  /\ hasFile' = set /\ fileGiven' = (fileGiven \/ set)
  /\ UNCHANGED <<hsts, readDataOffset, sought, progress, phase, result, history>>

\* SeekFunction without a READFUNCTION: an upload resumes or has to be sent again.
Seek(place) ==
  /\ phase = "transfer"
  /\ readDataOffset' = place /\ sought' = TRUE
  /\ UNCHANGED <<hsts, hasFile, fileGiven, progress, phase, result, history>>

\* ReadFunction without a READFUNCTION; libcurl takes what it asked for, and aborts
\* when there is no file.
ReadFile ==
  /\ phase = "transfer"
  /\ IF hasFile
     THEN /\ readDataOffset < MaxOffset
          /\ readDataOffset' = IF readDataOffset >= 0 THEN readDataOffset + 1 ELSE readDataOffset
          /\ UNCHANGED <<phase, result>>
     ELSE phase' = "idle" /\ result' = "ABORT" /\ UNCHANGED readDataOffset
  /\ UNCHANGED <<hsts, hasFile, sought, fileGiven, progress, history>>

\* [mutant] a new file, but from the place of the last one.
DisposeButOffset ==
  /\ hstsReadCache' = <<>> /\ progressAborted' = FALSE
  /\ hasFile' = FALSE /\ UNCHANGED readDataOffset

DisposeInternalData ==
  /\ hstsReadCache' = <<>> /\ progressAborted' = FALSE
  /\ hasFile' = FALSE /\ readDataOffset' = -1

\* reset(), at any time but from the HSTSREADFUNCTION: callbacks and cache go,
\* wasHstsReadCacheSet stays.
Reset ==
  /\ ~Loading
  /\ DisposeInternalData
  /\ hasCallback' = FALSE
  /\ lastReset' = answers /\ wantsAbort' = FALSE /\ sought' = FALSE /\ fileGiven' = FALSE
  /\ leftover' = (leftover \/ wasHstsReadCacheSet)
  /\ UNCHANGED <<wasHstsReadCacheSet, phase, result, answers, asked, arrays, given>>

Next ==
  \/ ReadCached \/ ReadUsedUp \/ AskNothing
  \/ \E kind \in Kinds : AskEntry(kind)
  \/ \E array \in Arrays : AskArray(array)
  \/ \E set \in BOOLEAN : SetCallback(set)
  \/ \E kind \in {"load", "dupLoad"} : Load(kind)
  \/ StartWithoutCallback \/ Completes \/ Reset
  \/ \E wants \in BOOLEAN : Progress(wants)
  \/ \E set \in BOOLEAN : SetReadData(set)
  \/ \E place \in 0 .. MaxOffset : Seek(place)
  \/ ReadFile

Spec == Init /\ [][Next]_vars

----------------------------------------------------------------------------
(* Properties *)

\* Values stay in their ranges.
TypeOK ==
  /\ hasCallback \in BOOLEAN /\ wasHstsReadCacheSet \in BOOLEAN /\ progressAborted \in BOOLEAN
  /\ \A k \in DOMAIN hstsReadCache :
       hstsReadCache[k] \in [answer : 1 .. MaxAnswers, index : 1 .. MaxLength, kind : {"good", "bad"}]
  /\ hasFile \in BOOLEAN /\ readDataOffset \in -1 .. MaxOffset
  /\ phase \in {"idle", "load", "dupLoad", "transfer"}
  /\ result \in {"OK", "DONE", "FAIL", "ABORT"}
  /\ answers \in 0 .. MaxAnswers /\ leftover \in BOOLEAN
  /\ wantsAbort \in BOOLEAN /\ sought \in BOOLEAN /\ fileGiven \in BOOLEAN

Later(x, y) == x.answer > y.answer \/ (x.answer = y.answer /\ x.index > y.index)

\* Across loads that fail in the middle of an array and the loads that find the
\* rest of it: libcurl takes each entry at most once and in the order in which
\* the callback returned them (the array is kept in reverse, Easy.cc:2164), and
\* none that was returned before a reset() (Easy.cc:164).
EntriesInOrder ==
  [][given' # given => Later(given', given) /\ given'.answer > lastReset]_vars

\* A callback that returns an array is not asked again in that load, even when
\* an earlier load left some of its own array behind (Easy.cc:2118): one that
\* always returns the array would be asked for ever.
ArrayAskedOnce == arrays <= 1 /\ (arrays = 1 /\ Loading => result = "OK")

\* "If this is true, we got all entries in cache provided by user" (Easy.cc:2117):
\* a request that goes on after DONE asked its callback and took all it returned,
\* unless an earlier load or a reset() left an array in the middle; and the
\* callback is not asked for its array twice.
DoneMeansAll ==
  /\ TypeOK /\ ArrayAskedOnce
  /\ result = "DONE" /\ phase = "transfer" /\ ~leftover =>
       asked > 0 /\ hstsReadCache = <<>> /\ ~wasHstsReadCacheSet

\* What one request leaves to the next ends with reset() (Easy.cc:162): an abort
\* that was not asked for since then, a file that was not given or a place that
\* libcurl did not seek would end, or cut, a request that has nothing to do with it.
ResetForgets ==
  /\ progressAborted => wantsAbort
  /\ hasFile => fileGiven
  /\ readDataOffset >= 0 => sought
=============================================================================
