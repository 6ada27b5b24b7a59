---------------------------- MODULE EasyOptions ----------------------------
(***************************************************************************)
(* The functions an Easy has set and what libcurl knows of them            *)
(* (src/Easy.cc).                                                          *)
(*                                                                         *)
(* For each function option libcurl holds a C function of the addon and a  *)
(* pointer to the Easy; the Easy holds the JavaScript function in          *)
(* `callbacks`.  The C function asserts that it finds both (Easy.cc:1764). *)
(* The three are changed one by one by setOpt(), dupHandle(), reset() and  *)
(* close(); two pairs of options share one pointer; and libcurl calls back *)
(* from curl_easy_duphandle and curl_easy_cleanup too.  A function that    *)
(* throws changes none of the three; where its error goes is part of       *)
(* MultiHandle.                                                            *)
(***************************************************************************)
EXTENDS Naturals, FiniteSets

CONSTANTS
  Easies,
  Nil,
  MaxSet,       \* bound of the model: functions that one Easy has set at a time
  Disciplined   \* callers keep to what the code does not check, see the README

ASSUME NilIsNoEasy == Nil \notin Easies
ASSUME BoundIsNat == MaxSet \in Nat

\* WRITE stands for the four options whose C function is always installed
\* (WRITE, HEADER, READ, SEEK), DEBUG for those with a pointer of their own that
\* are called in transfers (DEBUG, FNMATCH, INTERLEAVE, PREREQ, TRAILER, SSH_HOSTKEY).
Options == {"WRITE", "DEBUG", "CHUNK_BGN", "CHUNK_END", "PROGRESS", "XFERINFO",
            "HSTSREAD", "HSTSWRITE"}

\* The pointer of an option; CURLOPT_XFERINFODATA is CURLOPT_PROGRESSDATA.
Data(o) == IF o \in {"CHUNK_BGN", "CHUNK_END"} THEN "CHUNK"
           ELSE IF o = "XFERINFO" THEN "PROGRESS" ELSE o
Pointers == {"WRITE", "DEBUG", "CHUNK", "PROGRESS", "HSTSREAD", "HSTSWRITE"}

VARIABLES
  status,         \* "none", "open", "closed"
  inside,         \* isInsideMultiHandle
  callbacks,      \* options for which the Easy has a function
  installed,      \* libcurl: options for which it calls the addon
  userdata,       \* libcurl: the Easy each pointer leads to
  aborted         \* an assertion failed, or a function was called with a dead Easy

handle == <<installed, userdata>>
vars == <<status, inside, callbacks, handle, aborted>>

NewHandle(e) == [p \in Pointers |-> IF p = "WRITE" THEN e ELSE Nil]

Init ==
  /\ status = [e \in Easies |-> "none"] /\ inside = [e \in Easies |-> FALSE]
  /\ callbacks = [e \in Easies |-> {}] /\ installed = [e \in Easies |-> {}]
  /\ userdata = [e \in Easies |-> [p \in Pointers |-> Nil]]
  /\ aborted = FALSE

----------------------------------------------------------------------------
(* What libcurl calls *)

\* The C function of option o, called for handle e, gets to its Easy and finds the
\* function there; WRITE and PROGRESS do without one.
Finds(e, o) ==
  LET obj == userdata[e][Data(o)] IN
  /\ obj # Nil
  /\ status[obj] = "open"
  /\ o \in callbacks[obj] \cup {"WRITE", "PROGRESS"}

\* In a transfer of e, in a Multi or in perform().
Call(e, o) ==
  /\ status[e] = "open" /\ o \in installed[e] /\ o # "HSTSWRITE"
  /\ aborted' = ~Finds(e, o)
  /\ UNCHANGED <<status, inside, callbacks, handle>>

----------------------------------------------------------------------------
(* setOpt() *)

Set(e, o) ==
  /\ callbacks' = [callbacks EXCEPT ![e] = @ \cup {o}]
  /\ IF o = "WRITE" THEN UNCHANGED handle
     ELSE /\ userdata' = [userdata EXCEPT ![e][Data(o)] = e]
          /\ installed' = [installed EXCEPT ![e] = @ \cup {o}]

\* The other option that still uses the pointer; only looked for in the CHUNK pair.
StillUsed(e, o) ==
  \/ o = "CHUNK_BGN" /\ "CHUNK_END" \in callbacks[e]
  \/ o = "CHUNK_END" /\ "CHUNK_BGN" \in callbacks[e]

\* [mutant] the pointer goes with each function.
UnsetAlone(e, o) ==
  /\ callbacks' = [callbacks EXCEPT ![e] = @ \ {o}]
  /\ IF o = "WRITE" THEN UNCHANGED handle
     ELSE /\ userdata' = [userdata EXCEPT ![e][Data(o)] = Nil]
          /\ installed' = [installed EXCEPT ![e] = @ \ {o}]

Unset(e, o) ==
  /\ callbacks' = [callbacks EXCEPT ![e] = @ \ {o}]
  /\ IF o = "WRITE" THEN UNCHANGED handle
     ELSE /\ userdata' = IF StillUsed(e, o) THEN userdata
                         ELSE [userdata EXCEPT ![e][Data(o)] = Nil]
          /\ installed' = [installed EXCEPT ![e] = @ \ {o}]

SetOpt(e, o) ==
  /\ status[e] = "open" /\ Cardinality(callbacks[e] \cup {o}) <= MaxSet
  /\ Set(e, o)
  /\ UNCHANGED <<status, inside, aborted>>

SetOptNull(e, o) ==
  /\ status[e] = "open"
  /\ Disciplined => ~(\E p \in callbacks[e] \ {o} : {o, p} = {"PROGRESS", "XFERINFO"})
  /\ Unset(e, o)
  /\ UNCHANGED <<status, inside, aborted>>

----------------------------------------------------------------------------
(* Lives of an Easy *)

New(e) ==
  /\ status[e] = "none"
  /\ status' = [status EXCEPT ![e] = "open"]
  /\ installed' = [installed EXCEPT ![e] = {"WRITE"}]
  /\ userdata' = [userdata EXCEPT ![e] = NewHandle(e)]
  /\ UNCHANGED <<inside, callbacks, aborted>>

\* ResetRequiredHandleOptions(true): every pointer of the copied handle is
\* turned to the duplicate.
Duplicated(e) == [p \in Pointers |-> e]

\* curl_easy_duphandle fills the HSTS cache of the copy while all its pointers
\* still lead to the original, busy or not: it is the original's function.
DupHandle(orig, e) ==
  /\ status[orig] = "open" /\ status[e] = "none"
  /\ aborted' = ("HSTSREAD" \in installed[orig] /\ ~Finds(orig, "HSTSREAD"))
  /\ status' = [status EXCEPT ![e] = "open"]
  /\ callbacks' = [callbacks EXCEPT ![e] = callbacks[orig]]
  /\ installed' = [installed EXCEPT ![e] = installed[orig]]
  /\ userdata' = [userdata EXCEPT ![e] = Duplicated(e)]
  /\ UNCHANGED inside

Reset(e) ==
  /\ status[e] = "open"
  /\ callbacks' = [callbacks EXCEPT ![e] = {}]
  /\ installed' = [installed EXCEPT ![e] = {"WRITE"}]
  /\ userdata' = [userdata EXCEPT ![e] = NewHandle(e)]
  /\ UNCHANGED <<status, inside, aborted>>

\* curl_easy_cleanup hands the HSTS cache to the HSTSWRITEFUNCTION, which needs the
\* Easy to be as it was and its object to be there (it is not when it was collected).
Dispose(e, collected) ==
  /\ aborted' = ("HSTSWRITE" \in installed[e] /\ (collected \/ ~Finds(e, "HSTSWRITE")))
  /\ status' = [status EXCEPT ![e] = "closed"]
  /\ callbacks' = [callbacks EXCEPT ![e] = {}]
  /\ installed' = [installed EXCEPT ![e] = {}]
  /\ userdata' = [userdata EXCEPT ![e] = [p \in Pointers |-> Nil]]
  /\ UNCHANGED inside

Close(e) == status[e] = "open" /\ ~inside[e] /\ Dispose(e, FALSE)

\* Nobody refers to the Easy any more.
Collect(e) ==
  /\ status[e] = "open"
  /\ Disciplined => ~inside[e] /\ "HSTSWRITE" \notin callbacks[e]
  /\ Dispose(e, TRUE)

\* addHandle() or perform() of a Multi, and the end of the transfer.
Enter(e) ==
  /\ status[e] = "open" /\ ~inside[e]
  /\ inside' = [inside EXCEPT ![e] = TRUE]
  /\ UNCHANGED <<status, callbacks, handle, aborted>>

Leave(e) ==
  /\ inside[e] /\ inside' = [inside EXCEPT ![e] = FALSE]
  /\ UNCHANGED <<status, callbacks, handle, aborted>>

Next ==
  /\ ~aborted
  /\ \E e \in Easies :
       \/ New(e) \/ Reset(e) \/ Close(e) \/ Collect(e) \/ Enter(e) \/ Leave(e)
       \/ \E o \in Options : SetOpt(e, o) \/ SetOptNull(e, o) \/ Call(e, o)
       \/ \E orig \in Easies : DupHandle(orig, e)

Spec == Init /\ [][Next]_vars

----------------------------------------------------------------------------
(* Properties *)

\* Values stay in their ranges.
TypeOK ==
  /\ status \in [Easies -> {"none", "open", "closed"}]
  /\ inside \in [Easies -> BOOLEAN]
  /\ callbacks \in [Easies -> SUBSET Options] /\ installed \in [Easies -> SUBSET Options]
  /\ userdata \in [Easies -> [Pointers -> Easies \cup {Nil}]]
  /\ aborted \in BOOLEAN

\* Whatever was set, cleared, duplicated and reset before, in callbacks or between
\* requests: libcurl calls exactly the functions the Easy has, each through a
\* pointer to the Easy itself, so that no assertion of a callback fails
\* (Easy.cc:1764), also while libcurl duplicates or cleans up the handle.
CallbacksFindTheirEasy ==
  /\ TypeOK
  /\ ~aborted
  /\ \A e \in Easies : status[e] = "open" =>
       /\ installed[e] = callbacks[e] \cup {"WRITE"}
       /\ \A o \in installed[e] : userdata[e][Data(o)] = e
=============================================================================
