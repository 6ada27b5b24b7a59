------------------------ MODULE EasyCallbacksProofs ------------------------
(***************************************************************************)
(* Proofs about the callbacks of Easies, as MCEasyCallbacks puts them      *)
(* together.                                                               *)
(*                                                                         *)
(* EasyOptions: CallbacksFindTheirEasy, for any number of Easies and       *)
(* functions, by callers that respect what Disciplined stands for.  It     *)
(* needs that an Easy that is not open has no functions.                   *)
(*                                                                         *)
(* EasyCallbacks: DoneMeansAll, ResetForgets and EntriesInOrder, for       *)
(* arrays of any length, any number of answers and any file.               *)
(***************************************************************************)
EXTENDS MCEasyCallbacks, SequenceTheorems, WellFoundedInduction, TLAPS

----------------------------------------------------------------------------
(* Which functions an Easy has (EasyOptions) *)

\* What holds of one Easy.
Good(x) ==
  /\ status[x] # "open" => callbacks[x] = {}
  /\ status[x] = "open" => /\ installed[x] = callbacks[x] \cup {"WRITE"}
                           /\ \A o \in installed[x] : userdata[x][Data(o)] = x

IInv == TypeOK /\ ~aborted /\ \A x \in Easies : Good(x)

\* Every option has a pointer; only the WRITE option has that of WRITE.
LEMMA DataIsPointer == \A o \in Options : Data(o) \in Pointers
BY DEF Options, Data, Pointers

\* A function that an open Easy has installed is found, at the Easy itself.
LEMMA InstalledIsFound ==
  ASSUME IInv, NEW e \in Easies, status[e] = "open", NEW o \in installed[e]
  PROVE  Finds(e, o)
BY NilIsNoEasy DEF IInv, Good, Finds

\* A step that changes no other Easy than e has to show only that e is good.
LEMMA OthersStayGood ==
  ASSUME IInv, NEW e \in Easies, TypeOK', aborted' = FALSE, Good(e)',
         \A x \in Easies \ {e} :
           /\ status'[x] = status[x] /\ callbacks'[x] = callbacks[x]
           /\ installed'[x] = installed[x] /\ userdata'[x] = userdata[x]
  PROVE  IInv'
<1>1. ASSUME NEW x \in Easies, x # e PROVE Good(x)'
  <2>1. /\ status'[x] = status[x] /\ callbacks'[x] = callbacks[x]
        /\ installed'[x] = installed[x] /\ userdata'[x] = userdata[x]
    BY <1>1
  <2>2. Good(x)  BY DEF IInv
  <2> QED  BY <2>1, <2>2 DEF Good
<1> QED  BY <1>1 DEF IInv

\* The initial states satisfy the invariant.
LEMMA InitIInv == Init => IInv
<1> SUFFICES ASSUME Init PROVE IInv  OBVIOUS
<1>1. TypeOK /\ ~aborted  BY DEF Init, TypeOK
<1>2. \A x \in Easies : Good(x)  BY DEF Init, Good
<1> QED  BY <1>1, <1>2 DEF IInv

\* Every step keeps the invariant; one step of the proof per action.
LEMMA NextIInv == ASSUME Disciplined, IInv, Next PROVE IInv'
<1> USE NilIsNoEasy DEF handle
<1>0. TypeOK /\ aborted = FALSE /\ \A x \in Easies : Good(x)  BY DEF IInv, TypeOK
<1>1. ASSUME NEW e \in Easies, New(e) PROVE IInv'
  <2>1. NewHandle(e) \in [Pointers -> Easies \cup {Nil}]  BY DEF NewHandle
  <2>2. TypeOK' /\ aborted' = FALSE  BY <1>0, <1>1, <2>1 DEF New, TypeOK, Options
  <2>3. Good(e)'
    <3>1. status[e] # "open" /\ Good(e)  BY <1>0, <1>1 DEF New
    <3>2. /\ status'[e] = "open" /\ callbacks'[e] = {} /\ installed'[e] = {"WRITE"}
          /\ userdata'[e] = NewHandle(e)
      BY <1>0, <1>1, <3>1 DEF New, TypeOK, Good
    <3>3. NewHandle(e)[Data("WRITE")] = e  BY DEF NewHandle, Data, Pointers
    <3> QED  BY <3>2, <3>3 DEF Good
  <2> QED  BY <1>0, <1>1, <2>2, <2>3, OthersStayGood DEF IInv, New, TypeOK
<1>2. ASSUME NEW e \in Easies, Reset(e) PROVE IInv'
  <2>1. NewHandle(e) \in [Pointers -> Easies \cup {Nil}]  BY DEF NewHandle
  <2>2. TypeOK' /\ aborted' = FALSE  BY <1>0, <1>2, <2>1 DEF Reset, TypeOK, Options
  <2>3. Good(e)'
    <3>1. /\ callbacks'[e] = {} /\ installed'[e] = {"WRITE"}
          /\ userdata'[e] = NewHandle(e)
      BY <1>0, <1>2 DEF Reset, TypeOK
    <3>2. NewHandle(e)[Data("WRITE")] = e  BY DEF NewHandle, Data, Pointers
    <3> QED  BY <3>1, <3>2 DEF Good
  <2> QED  BY <1>0, <1>2, <2>2, <2>3, OthersStayGood DEF IInv, Reset, TypeOK
<1>3. ASSUME NEW e \in Easies, Close(e) \/ Collect(e) PROVE IInv'
  <2>1. PICK collected \in BOOLEAN :
          /\ status[e] = "open" /\ Dispose(e, collected)
          /\ collected => "HSTSWRITE" \notin callbacks[e]
    BY <1>3 DEF Close, Collect
  <2>2. "HSTSWRITE" \in installed[e] => "HSTSWRITE" \in callbacks[e]
    BY <1>0, <2>1 DEF Good
  <2>3. aborted' = FALSE  BY <2>1, <2>2, InstalledIsFound DEF Dispose
  <2>4. TypeOK'  BY <1>0, <2>1, <2>3 DEF Dispose, TypeOK
  <2>5. Good(e)'
    <3>1. status'[e] = "closed" /\ callbacks'[e] = {}
      BY <1>0, <2>1 DEF Dispose, TypeOK
    <3> QED  BY <3>1 DEF Good
  <2> QED  BY <1>0, <2>1, <2>3, <2>4, <2>5, OthersStayGood DEF Dispose, TypeOK
<1>4. ASSUME NEW e \in Easies, Enter(e) PROVE IInv'
  <2>1. TypeOK' /\ aborted' = FALSE  BY <1>0, <1>4 DEF Enter, TypeOK
  <2>2. Good(e)'  BY <1>0, <1>4 DEF Enter, TypeOK, Good
  <2> QED  BY <1>0, <1>4, <2>1, <2>2, OthersStayGood DEF Enter, TypeOK
<1>5. ASSUME NEW e \in Easies, Leave(e) PROVE IInv'
  <2>1. TypeOK' /\ aborted' = FALSE  BY <1>0, <1>5 DEF Leave, TypeOK
  <2>2. Good(e)'  BY <1>0, <1>5 DEF Leave, Good
  <2> QED  BY <1>5, <2>1, <2>2, OthersStayGood DEF Leave
<1>6. ASSUME NEW e \in Easies, NEW o \in Options, SetOpt(e, o) PROVE IInv'
  <2>1. status[e] = "open" /\ Good(e) /\ Data(o) \in Pointers
    BY <1>0, <1>6, DataIsPointer DEF SetOpt
  <2>2. CASE o = "WRITE"
    <3>1. TypeOK' /\ aborted' = FALSE  BY <1>0, <1>6, <2>2 DEF SetOpt, Set, TypeOK
    <3>2. Good(e)'  BY <1>0, <1>6, <2>1, <2>2 DEF SetOpt, Set, TypeOK, Good
    <3> QED  BY <1>0, <1>6, <2>2, <3>1, <3>2, OthersStayGood DEF SetOpt, Set, TypeOK
  <2>3. CASE o # "WRITE"
    <3>1. TypeOK' /\ aborted' = FALSE
      <4>1. userdata' \in [Easies -> [Pointers -> Easies \cup {Nil}]]
        <5>1. userdata' = [userdata EXCEPT ![e][Data(o)] = e]
          BY <1>6, <2>3 DEF SetOpt, Set
        <5>2. userdata \in [Easies -> [Pointers -> Easies \cup {Nil}]]  BY <1>0 DEF TypeOK
        <5>3. [userdata[e] EXCEPT ![Data(o)] = e] \in [Pointers -> Easies \cup {Nil}]
          BY <2>1, <5>2
        <5> QED  BY <5>1, <5>2, <5>3
      <4> QED  BY <1>0, <1>6, <2>3, <4>1 DEF SetOpt, Set, TypeOK
    <3>2. Good(e)'
      <4>1. /\ status' = status
            /\ callbacks'[e] = callbacks[e] \cup {o}
            /\ installed'[e] = installed[e] \cup {o}
            /\ userdata'[e] = [userdata[e] EXCEPT ![Data(o)] = e]
        BY <1>0, <1>6, <2>3 DEF SetOpt, Set, TypeOK
      <4>2. \A p \in installed'[e] : p \in Options /\ Data(p) \in Pointers
        BY <1>0, <4>1, DataIsPointer DEF TypeOK
      <4>3. userdata[e] \in [Pointers -> Easies \cup {Nil}]  BY <1>0 DEF TypeOK
      <4>4. \A p \in installed'[e] : userdata'[e][Data(p)] = e
        BY <2>1, <4>1, <4>2, <4>3 DEF Good
      <4> QED  BY <2>1, <4>1, <4>4 DEF Good
    <3> QED  BY <1>0, <1>6, <2>3, <3>1, <3>2, OthersStayGood DEF SetOpt, Set, TypeOK
  <2> QED  BY <2>2, <2>3
<1>7. ASSUME Disciplined, NEW e \in Easies, NEW o \in Options, SetOptNull(e, o)
      PROVE IInv'
  <2>1. status[e] = "open" /\ Good(e) /\ Data(o) \in Pointers
    BY <1>0, <1>7, DataIsPointer DEF SetOptNull
  <2>2. CASE o = "WRITE"
    <3>1. TypeOK' /\ aborted' = FALSE  BY <1>0, <1>7, <2>2 DEF SetOptNull, Unset, TypeOK
    <3>2. Good(e)'  BY <1>0, <1>7, <2>1, <2>2 DEF SetOptNull, Unset, TypeOK, Good
    <3> QED  BY <1>0, <1>7, <2>2, <3>1, <3>2, OthersStayGood DEF SetOptNull, Unset, TypeOK
  <2>3. CASE o # "WRITE"
    <3>1. TypeOK' /\ aborted' = FALSE
      <4>1. userdata' \in [Easies -> [Pointers -> Easies \cup {Nil}]]
        <5>1. userdata' = userdata \/ userdata' = [userdata EXCEPT ![e][Data(o)] = Nil]
          BY <1>7, <2>3 DEF SetOptNull, Unset
        <5>2. userdata \in [Easies -> [Pointers -> Easies \cup {Nil}]]  BY <1>0 DEF TypeOK
        <5>3. [userdata[e] EXCEPT ![Data(o)] = Nil] \in [Pointers -> Easies \cup {Nil}]
          BY <2>1, <5>2
        <5> QED  BY <5>1, <5>2, <5>3
      <4>2. callbacks' \in [Easies -> SUBSET Options] /\ installed' \in [Easies -> SUBSET Options]
        <5>1. /\ callbacks' = [callbacks EXCEPT ![e] = @ \ {o}]
              /\ installed' = [installed EXCEPT ![e] = @ \ {o}]
          BY <1>7, <2>3 DEF SetOptNull, Unset
        <5>2. /\ callbacks \in [Easies -> SUBSET Options]
              /\ installed \in [Easies -> SUBSET Options]
          BY <1>0 DEF TypeOK
        <5> QED  BY <5>1, <5>2
      <4> QED  BY <1>0, <1>7, <4>1, <4>2 DEF SetOptNull, TypeOK
    <3>2. Good(e)'
      <4>1. /\ status' = status
            /\ callbacks'[e] = callbacks[e] \ {o}
            /\ installed'[e] = installed[e] \ {o}
            /\ \/ userdata'[e] = userdata[e]
               \/ /\ ~StillUsed(e, o)
                  /\ userdata'[e] = [userdata[e] EXCEPT ![Data(o)] = Nil]
        BY <1>0, <1>7, <2>3 DEF SetOptNull, Unset, TypeOK
      <4>2. \A p \in installed'[e] : p \in Options /\ p \in callbacks[e] \cup {"WRITE"}
        BY <1>0, <2>1, <4>1 DEF TypeOK, Good
      <4>3. ASSUME ~StillUsed(e, o), NEW p \in installed'[e] PROVE Data(p) # Data(o)
        BY <1>7, <2>3, <4>1, <4>2, <4>3 DEF StillUsed, SetOptNull, Data, Options
      <4>4. userdata[e] \in [Pointers -> Easies \cup {Nil}]  BY <1>0 DEF TypeOK
      <4>5. \A p \in installed'[e] : userdata'[e][Data(p)] = e
        BY <2>1, <4>1, <4>2, <4>3, <4>4, DataIsPointer DEF Good
      <4> QED  BY <2>1, <2>3, <4>1, <4>5 DEF Good
    <3> QED  BY <1>0, <1>7, <2>3, <3>1, <3>2, OthersStayGood DEF SetOptNull, Unset, TypeOK
  <2> QED  BY <2>2, <2>3
<1>8. ASSUME NEW e \in Easies, NEW o \in Options, Call(e, o) PROVE IInv'
  <2>1. aborted' = FALSE  BY <1>8, InstalledIsFound DEF Call
  <2>2. TypeOK'  BY <1>0, <1>8, <2>1 DEF Call, TypeOK
  <2>3. Good(e)'  BY <1>0, <1>8 DEF Call, Good
  <2> QED  BY <1>8, <2>1, <2>2, <2>3, OthersStayGood DEF Call
<1>9. ASSUME NEW orig \in Easies, NEW e \in Easies, DupHandle(orig, e) PROVE IInv'
  <2>1. aborted' = FALSE  BY <1>9, InstalledIsFound DEF DupHandle
  <2>2. Duplicated(e) \in [Pointers -> Easies \cup {Nil}]  BY DEF Duplicated
  <2>3. TypeOK'  BY <1>0, <1>9, <2>1, <2>2 DEF DupHandle, TypeOK
  <2>4. Good(e)'
    <3>1. /\ status'[e] = "open" /\ callbacks'[e] = callbacks[orig]
          /\ installed'[e] = installed[orig] /\ userdata'[e] = Duplicated(e)
          /\ status[orig] = "open" /\ Good(orig) /\ Good(e)
          /\ installed[orig] \subseteq Options
      BY <1>0, <1>9 DEF DupHandle, TypeOK
    <3>2. \A o \in Options : Duplicated(e)[Data(o)] = e
      BY DataIsPointer DEF Duplicated
    <3> QED  BY <2>1, <3>1, <3>2 DEF Good
  <2> QED  BY <1>0, <1>9, <2>1, <2>3, <2>4, OthersStayGood DEF DupHandle, TypeOK
<1> QED  BY <1>1, <1>2, <1>3, <1>4, <1>5, <1>6, <1>7, <1>8, <1>9 DEF Next

\* For any number of Easies, functions and steps the invariant holds.
THEOREM Invariance == ASSUME Disciplined PROVE Spec => []IInv
<1>1. ASSUME IInv, UNCHANGED vars PROVE IInv'
  BY <1>1 DEF IInv, Good, TypeOK, vars, handle
<1>2. IInv /\ [Next]_vars => IInv'  BY <1>1, NextIInv
<1> QED  BY <1>2, InitIInv, PTL DEF Spec

\* libcurl calls exactly the functions an Easy has and each finds its Easy
\* (Easy.cc:1764).
THEOREM CallbacksFound == ASSUME Disciplined PROVE Spec => []CallbacksFindTheirEasy
<1>1. IInv => CallbacksFindTheirEasy  BY DEF IInv, Good, CallbacksFindTheirEasy
<1> QED  BY <1>1, Invariance, PTL

----------------------------------------------------------------------------
(* What an Easy keeps (EasyCallbacks): the inductive invariant *)

Entry == [answer : 1 .. MaxAnswers, index : 1 .. MaxLength, kind : {"good", "bad"}]

\* The file of READDATA and the progress callback.
FileKept ==
  /\ hasFile \in BOOLEAN /\ readDataOffset \in -1 .. MaxOffset
  /\ sought \in BOOLEAN /\ fileGiven \in BOOLEAN
  /\ progressAborted \in BOOLEAN /\ wantsAbort \in BOOLEAN
  /\ Kept!ResetForgets

Counted ==
  /\ answers \in 0 .. MaxAnswers /\ asked \in Nat /\ arrays \in {0, 1}
  /\ lastReset \in 0 .. answers /\ given.answer \in 0 .. answers /\ given.index \in Nat

\* What is cached was returned after the last reset() and after what libcurl took,
\* and the entry at the back is the first one.
Cached ==
  /\ hstsReadCache \in Seq(Entry)
  /\ \A k \in 1 .. Len(hstsReadCache) :
       /\ lastReset < hstsReadCache[k].answer /\ hstsReadCache[k].answer <= answers
       /\ Kept!Later(hstsReadCache[k], given)
  /\ \A k, l \in 1 .. Len(hstsReadCache) :
       k < l => Kept!Later(hstsReadCache[k], hstsReadCache[l])

\* An array in the cache, or a used up one, that nobody has seen the end of.
Rest == hstsReadCache # << >> \/ wasHstsReadCacheSet

\* A load goes on as long as the answer is OK; a rest that is found outside of one is
\* a leftover, and in one its callback was asked, if there was no leftover.
Loaded ==
  /\ hasCallback \in BOOLEAN /\ wasHstsReadCacheSet \in BOOLEAN /\ leftover \in BOOLEAN
  /\ phase \in {"idle", "load", "dupLoad", "transfer"}
  /\ result \in {"OK", "DONE", "FAIL", "ABORT"}
  /\ Kept!Loading => result = "OK" /\ (arrays = 1 => wasHstsReadCacheSet)
  /\ ~Kept!Loading /\ Rest => leftover
  /\ Kept!Loading /\ ~leftover /\ Rest => asked > 0
  /\ result = "DONE" /\ phase = "transfer" /\ ~leftover => asked > 0 /\ ~Rest

KeptInv == FileKept /\ Counted /\ Cached /\ Loaded

----------------------------------------------------------------------------
(* Lemmas about the cache *)

\* A set of places has a last one.
LEMMA LastPlace ==
  ASSUME NEW n \in Nat, NEW S \in SUBSET (0 .. n), S # {}
  PROVE  \E m \in S : \A i \in S : i <= m
<1> DEFINE T == {n - i : i \in S}
           R == OpToRel(<, Nat)
<1>1. IsWellFoundedOn(R, Nat)
  BY NatLessThanWellFounded
<1>2. \A x, y \in Nat : x < y => <<x, y>> \in R
  BY DEF OpToRel
<1> HIDE DEF R
<1>3. T \subseteq Nat /\ T # {}
  <2>1. PICK i : i \in S
    OBVIOUS
  <2>2. \A j \in S : n - j \in Nat
    OBVIOUS
  <2>3. n - i \in T
    BY <2>1
  <2>4. T \subseteq Nat
    BY <2>2
  <2> QED BY <2>3, <2>4
<1>4. PICK t \in T : \A y \in T : ~(<<y, t>> \in R)
  <2> HIDE DEF T
  <2> QED BY <1>1, <1>3, WFMin
<1>5. PICK m \in S : t = n - m
  BY <1>4
<1>6. \A i \in S : ~(n - i < n - m)
  BY <1>2, <1>3, <1>4, <1>5
<1> QED BY <1>6

\* The back of a cache, and what is before it.
LEMMA FrontFacts ==
  ASSUME NEW T, NEW s \in Seq(T), s # << >>
  PROVE  /\ Kept!Last(s) = s[Len(s)] /\ Len(s) \in 1 .. Len(s)
         /\ Kept!Front(s) \in Seq(T) /\ Len(Kept!Front(s)) = Len(s) - 1
         /\ \A k \in 1 .. Len(s) - 1 : Kept!Front(s)[k] = s[k]
<1> DEFINE n == Len(s)
           f == SubSeq(s, 1, n - 1)
<1>1. n \in Nat /\ n > 0 /\ \A k \in 1 .. n : s[k] \in T
  OBVIOUS
<1>2. Kept!Last(s) = s[n] /\ Kept!Front(s) = f
  BY DEF Kept!Last, Kept!Front
<1> HIDE DEF n
<1>3. /\ f \in Seq(T) /\ Len(f) = IF 1 <= n - 1 THEN (n - 1) - 1 + 1 ELSE 0
      /\ \A k \in 1 .. (n - 1) - 1 + 1 : f[k] = s[1 + k - 1]
  <2>1. 1 \in Int /\ n - 1 \in Int /\ \A k \in 1 .. n - 1 : s[k] \in T
    BY <1>1
  <2> QED BY <2>1, SubSeqProperties
<1>4. Len(f) = n - 1 /\ \A k \in 1 .. n - 1 : f[k] = s[k]
  BY <1>1, <1>3
<1> HIDE DEF f
<1>5. n \in 1 .. n
  BY <1>1
<1> QED BY <1>2, <1>3, <1>4, <1>5 DEF n

\* The rest of a cache is later than its back.
LEMMA BackFacts ==
  ASSUME NEW s \in Seq(Entry), s # << >>,
         \A k, l \in 1 .. Len(s) : k < l => Kept!Later(s[k], s[l])
  PROVE  /\ Kept!Last(s) = s[Len(s)] /\ Len(s) \in 1 .. Len(s) /\ Kept!Last(s) \in Entry
         /\ Kept!Front(s) \in Seq(Entry)
         /\ \A k \in 1 .. Len(Kept!Front(s)) :
              /\ Kept!Later(Kept!Front(s)[k], Kept!Last(s))
              /\ Kept!Front(s)[k] = s[k] /\ k \in 1 .. Len(s)
<1> DEFINE n == Len(s)
           f == Kept!Front(s)
           b == Kept!Last(s)
<1>1. /\ n \in Nat /\ n > 0 /\ b = s[n] /\ n \in 1 .. n
      /\ f \in Seq(Entry) /\ Len(f) = n - 1 /\ \A k \in 1 .. n - 1 : f[k] = s[k]
  BY FrontFacts
<1>2. /\ \A k \in 1 .. n : s[k] \in Entry
      /\ \A k, l \in 1 .. n : k < l => Kept!Later(s[k], s[l])
  OBVIOUS
<1> HIDE DEF n, f, b
<1>3. \A k \in 1 .. n - 1 : k \in 1 .. n /\ k < n
  BY <1>1
<1> QED BY <1>1, <1>2, <1>3 DEF n, f, b

\* What the addon keeps of an array: entries of this answer from the end of the array up
\* to the last element that is no object; all of them, if every element is an object.
LEMMA PushedFacts ==
  ASSUME NEW array \in Kept!Arrays, array # << >>, answers \in Nat, answers < MaxAnswers
  PROVE  LET p == Kept!Pushed(array) IN
         /\ p \in Seq(Entry)
         /\ \A k \in 1 .. Len(p) : p[k].answer = answers + 1
         /\ \A k, l \in 1 .. Len(p) : k < l => Kept!Later(p[k], p[l])
         /\ "other" \notin {array[i] : i \in DOMAIN array} => p # << >>
<1> DEFINE n == Len(array)
           others == {i \in DOMAIN array : array[i] = "other"}
           m == CHOOSE i \in others \cup {0} : \A j \in others : j <= i
           entry(i) == [answer |-> answers + 1, index |-> i, kind |-> array[i]]
           p == Kept!Pushed(array)
<1>1. /\ array \in [1 .. n -> {"good", "bad", "other"}] /\ n \in 1 .. MaxLength
      /\ MaxLength \in Nat /\ MaxAnswers \in Nat
  <2>1. PICK j \in 0 .. MaxLength : array \in [1 .. j -> {"good", "bad", "other"}]
    BY DEF Kept!Arrays, Kept!Kinds
  <2>2. MaxLength \in Nat /\ MaxAnswers \in Nat
    BY BoundsAreNatural
  <2>3. n = j /\ j # 0
    BY <2>1, <2>2
  <2> QED BY <2>1, <2>2, <2>3
<1>2. p = [k \in 1 .. n + 1 - (1 + m) |-> entry(n + 1 - k)]
  BY DEF Kept!Pushed
<1>3. m \in 0 .. n /\ \A j \in others : j <= m
  <2> DEFINE S == others \cup {0}
  <2>1. S \in SUBSET (0 .. n) /\ S # {}
    BY <1>1
  <2>2. \E i \in S : \A j \in S : j <= i
    <3>1. n \in Nat
      BY <1>1
    <3> HIDE DEF S, n
    <3> QED BY <2>1, <3>1, LastPlace
  <2>3. m \in S /\ \A j \in others : j <= m
    BY <2>2
  <2> QED BY <2>1, <2>3
<1>4. others = {} => m = 0
  OBVIOUS
<1> HIDE DEF m, n
<1>5. \A i \in 1 .. n : i > m => array[i] \in {"good", "bad"}
  <2>1. \A i \in 1 .. n : i > m => ~(i <= m)
    BY <1>3
  <2>2. \A i \in 1 .. n : array[i] = "other" => i \in others
    BY <1>1
  <2> QED BY <1>1, <1>3, <2>1, <2>2
<1>6. n - m \in Nat /\ \A k \in 1 .. n - m : n + 1 - k \in 1 .. n /\ n + 1 - k > m
  BY <1>1, <1>3
<1>7. n + 1 - (1 + m) = n - m
  BY <1>1, <1>3
<1>8. /\ Len(p) = n - m /\ p \in Seq(Entry)
      /\ \A k \in 1 .. n - m : p[k] = entry(n + 1 - k)
  <2>1. \A k \in 1 .. n - m : entry(n + 1 - k) \in Entry
    BY <1>1, <1>5, <1>6 DEF Entry
  <2> QED BY <2>1, <1>2, <1>6, <1>7
<1>9. \A k, l \in 1 .. n - m : k < l => Kept!Later(p[k], p[l])
  BY <1>1, <1>6, <1>8 DEF Kept!Later
<1>10. others = {} => p # << >>
  BY <1>1, <1>4, <1>8
<1>11. "other" \notin {array[i] : i \in DOMAIN array} => others = {}
  OBVIOUS
<1> HIDE DEF others, p
<1> QED BY <1>8, <1>9, <1>10, <1>11 DEF p

----------------------------------------------------------------------------
(* What the actions keep *)

\* Nothing but the file and the progress callback changes what is kept of them.
LEMMA FileKeeps ==
  ASSUME KeptInv, Kept!Next
  PROVE  FileKept'
<1>1. FileKept
  BY DEF KeptInv
<1>2. MaxOffset \in Nat
  BY BoundsAreNatural
<1>3. ASSUME NEW wants \in BOOLEAN, Kept!Progress(wants)
      PROVE  FileKept'
  <2>1. UNCHANGED <<hasFile, readDataOffset, sought, fileGiven>>
    BY <1>3 DEF Kept!Progress, Kept!file
  <2>2. progressAborted' \in BOOLEAN
    BY <1>3 DEF Kept!Progress
  <2>3. wantsAbort' \in BOOLEAN
    BY <1>3 DEF Kept!Progress
  <2>4. progressAborted' => wantsAbort'
    BY <1>1, <1>3 DEF Kept!Progress, FileKept, Kept!ResetForgets
  <2> QED BY <1>1, <2>1, <2>2, <2>3, <2>4 DEF FileKept, Kept!ResetForgets
<1>4. ASSUME NEW set \in BOOLEAN, Kept!SetReadData(set)
      PROVE  FileKept'
  <2>1. UNCHANGED <<readDataOffset, sought, progressAborted, wantsAbort>> /\ hasFile' = set
    BY <1>4 DEF Kept!SetReadData, Kept!progress
  <2>2. fileGiven' \in BOOLEAN
    BY <1>4 DEF Kept!SetReadData
  <2>3. hasFile' => fileGiven'
    BY <1>4 DEF Kept!SetReadData
  <2> QED BY <1>1, <2>1, <2>2, <2>3 DEF FileKept, Kept!ResetForgets
<1>5. ASSUME NEW place \in 0 .. MaxOffset, Kept!Seek(place)
      PROVE  FileKept'
  BY <1>1, <1>2, <1>5 DEF Kept!Seek, Kept!progress, FileKept, Kept!ResetForgets
<1>6. CASE Kept!ReadFile
  <2>1. /\ UNCHANGED <<hasFile, sought, fileGiven, progressAborted, wantsAbort>>
        /\ readDataOffset' \in -1 .. MaxOffset
        /\ readDataOffset' >= 0 => readDataOffset >= 0
    BY <1>1, <1>2, <1>6 DEF Kept!ReadFile, Kept!progress, FileKept
  <2> QED BY <1>1, <2>1 DEF FileKept, Kept!ResetForgets
<1>7. CASE Kept!Reset
  <2>1. /\ hasFile' = FALSE /\ readDataOffset' = -1 /\ sought' = FALSE /\ fileGiven' = FALSE
        /\ progressAborted' = FALSE /\ wantsAbort' = FALSE
    BY <1>7 DEF Kept!Reset, Kept!DisposeInternalData
  <2>2. -1 \in -1 .. MaxOffset /\ ~(-1 >= 0)
    BY <1>2
  <2>3. hasFile' \in BOOLEAN /\ sought' \in BOOLEAN /\ fileGiven' \in BOOLEAN
        /\ progressAborted' \in BOOLEAN /\ wantsAbort' \in BOOLEAN
    BY <2>1
  <2>4. Kept!ResetForgets'
    BY <2>1, <2>2 DEF Kept!ResetForgets
  <2> QED BY <2>1, <2>2, <2>3, <2>4 DEF FileKept
<1>8. CASE UNCHANGED <<Kept!file, Kept!progress>>
  BY <1>1, <1>8 DEF Kept!file, Kept!progress, FileKept, Kept!ResetForgets
<1> QED BY <1>3, <1>4, <1>5, <1>6, <1>7, <1>8
  DEF Kept!Next, Kept!ReadCached, Kept!ReadUsedUp, Kept!AskNothing, Kept!AskEntry, Kept!AskArray,
      Kept!SetCallback, Kept!Load, Kept!StartWithoutCallback, Kept!Completes

\* libcurl takes an entry that the callback returned, or fails: what is cached after
\* that is still later.
LEMMA HandOutKeeps ==
  ASSUME Counted', Loaded, Kept!Loading, hasCallback' = hasCallback,
         NEW entry, entry.answer \in Nat, entry.index \in Nat,
         Kept!HandOut(entry), lastReset' = lastReset,
         hstsReadCache' \in Seq(Entry), wasHstsReadCacheSet' \in BOOLEAN,
         \A k \in 1 .. Len(hstsReadCache') :
           /\ lastReset < hstsReadCache'[k].answer /\ hstsReadCache'[k].answer <= answers'
           /\ Kept!Later(hstsReadCache'[k], given)
           /\ Kept!Later(hstsReadCache'[k], entry),
         \A k, l \in 1 .. Len(hstsReadCache') :
           k < l => Kept!Later(hstsReadCache'[k], hstsReadCache'[l]),
         arrays' = 1 => wasHstsReadCacheSet',
         ~leftover /\ Rest' => asked' > 0
  PROVE  Cached' /\ Loaded'
<1>1. given' \in {given, entry}
  BY DEF Kept!HandOut
<1>2. Cached'
  BY <1>1 DEF Cached, Kept!Later
<1>3. leftover \in BOOLEAN
  BY DEF Loaded
<1>4. \/ result' = "OK" /\ phase' = phase
      \/ result' = "FAIL" /\ phase' = "idle"
  BY DEF Kept!HandOut, Kept!Answer
<1>5. leftover' \in BOOLEAN
  BY DEF Kept!HandOut, Kept!Answer
<1>6. leftover' <=> (leftover \/ (result' = "FAIL" /\ Rest'))
  BY <1>3 DEF Kept!HandOut, Kept!Answer, Rest
<1>7. hasCallback \in BOOLEAN /\ phase \in {"load", "dupLoad"}
  BY DEF Loaded, Kept!Loading
<1>8. Loaded'
  BY <1>4, <1>5, <1>6, <1>7 DEF Loaded, Kept!Loading
<1> QED BY <1>2, <1>8

\* The next entry of the cache.
LEMMA ReadCachedKeeps ==
  ASSUME KeptInv, Kept!ReadCached
  PROVE  /\ Counted' /\ Cached' /\ Loaded'
         /\ given' # given => Kept!Later(given', given) /\ given'.answer > lastReset
<1>1. Counted /\ Cached /\ Loaded
  BY DEF KeptInv
<1> DEFINE back == Kept!Last(hstsReadCache)
<1>2. /\ Kept!Loading /\ hstsReadCache # << >> /\ Kept!HandOut(back)
      /\ hstsReadCache' = Kept!Front(hstsReadCache)
      /\ UNCHANGED <<wasHstsReadCacheSet, hasCallback, answers, asked, arrays, lastReset>>
  BY DEF Kept!ReadCached
<1>3. /\ lastReset \in Nat /\ answers \in Nat /\ answers \in 0 .. MaxAnswers
  BY <1>1, BoundsAreNatural DEF Counted
<1>4. /\ back \in Entry /\ lastReset < back.answer /\ back.answer <= answers
      /\ hstsReadCache' \in Seq(Entry)
      /\ \A k \in 1 .. Len(hstsReadCache') :
           /\ lastReset < hstsReadCache'[k].answer /\ hstsReadCache'[k].answer <= answers
           /\ hstsReadCache'[k] = hstsReadCache[k]
           /\ k \in 1 .. Len(hstsReadCache)
           /\ Kept!Later(hstsReadCache'[k], back)
      /\ \A k, l \in 1 .. Len(hstsReadCache') :
           k < l => Kept!Later(hstsReadCache'[k], hstsReadCache'[l])
  <2>1. /\ hstsReadCache \in Seq(Entry)
        /\ \A k \in 1 .. Len(hstsReadCache) :
             lastReset < hstsReadCache[k].answer /\ hstsReadCache[k].answer <= answers
        /\ \A k, l \in 1 .. Len(hstsReadCache) :
             k < l => Kept!Later(hstsReadCache[k], hstsReadCache[l])
    BY <1>1 DEF Cached
  <2>2. /\ back = hstsReadCache[Len(hstsReadCache)]
        /\ Len(hstsReadCache) \in 1 .. Len(hstsReadCache)
        /\ back \in Entry /\ Kept!Front(hstsReadCache) \in Seq(Entry)
        /\ \A k \in 1 .. Len(Kept!Front(hstsReadCache)) :
             /\ Kept!Later(Kept!Front(hstsReadCache)[k], back)
             /\ Kept!Front(hstsReadCache)[k] = hstsReadCache[k]
             /\ k \in 1 .. Len(hstsReadCache)
    BY <2>1, <1>2, BackFacts
  <2> DEFINE f == hstsReadCache'
  <2>3. f = Kept!Front(hstsReadCache)
    BY <1>2
  <2> HIDE DEF back, f
  <2>4. \A k \in 1 .. Len(f) :
          /\ f[k] = hstsReadCache[k] /\ k \in 1 .. Len(hstsReadCache)
          /\ Kept!Later(f[k], back)
    BY <2>2, <2>3
  <2>5. \A k, l \in 1 .. Len(f) : k < l => Kept!Later(f[k], f[l])
    BY <2>1, <2>4
  <2> QED BY <2>1, <2>2, <2>3, <2>4, <2>5 DEF f
<1>5. Kept!Later(back, given)
  <2>1. back = hstsReadCache[Len(hstsReadCache)] /\ Len(hstsReadCache) \in 1 .. Len(hstsReadCache)
    BY <1>1, <1>2, FrontFacts DEF Cached
  <2> QED BY <2>1, <1>1 DEF Cached
<1>6. given' = back \/ given' = given
  BY <1>2 DEF Kept!HandOut
<1>7. back.answer \in Nat /\ back.index \in Nat
  BY <1>4, BoundsAreNatural DEF Entry
<1>8. Counted'
  BY <1>1, <1>2, <1>3, <1>4, <1>6, <1>7 DEF Counted
<1>9. \A k \in 1 .. Len(hstsReadCache') : Kept!Later(hstsReadCache'[k], given)
  BY <1>1, <1>4 DEF Cached
<1>10. /\ wasHstsReadCacheSet' \in BOOLEAN
       /\ arrays' = 1 => wasHstsReadCacheSet'
       /\ ~leftover /\ Rest' => asked' > 0
  BY <1>1, <1>2 DEF Loaded, Rest
<1>11. Cached' /\ Loaded'
  BY <1>1, <1>2, <1>4, <1>7, <1>8, <1>9, <1>10, HandOutKeeps
<1> QED BY <1>4, <1>5, <1>6, <1>8, <1>11

\* When the callback is asked nothing is cached, and it has returned no array in this load.
LEMMA AskingFacts ==
  ASSUME KeptInv, Kept!Asking
  PROVE  /\ Kept!Loading /\ hstsReadCache = << >> /\ wasHstsReadCacheSet = FALSE
         /\ answers \in Nat /\ answers < MaxAnswers /\ answers' = answers + 1
         /\ answers' \in 0 .. MaxAnswers
         /\ asked' = asked + 1 /\ asked' \in Nat /\ asked' > 0 /\ arrays = 0
<1>1. Counted /\ Loaded /\ MaxAnswers \in Nat
  BY BoundsAreNatural DEF KeptInv
<1>2. /\ Kept!Loading /\ hstsReadCache = << >> /\ ~wasHstsReadCacheSet
      /\ answers < MaxAnswers /\ answers' = answers + 1 /\ asked' = asked + 1
  BY DEF Kept!Asking
<1> QED BY <1>1, <1>2 DEF Counted, Loaded

\* A single entry.
LEMMA AskEntryKeeps ==
  ASSUME KeptInv, NEW kind, Kept!AskEntry(kind)
  PROVE  /\ Counted' /\ Cached' /\ Loaded'
         /\ given' # given => Kept!Later(given', given) /\ given'.answer > lastReset
<1>1. Counted /\ Cached /\ Loaded
  BY DEF KeptInv
<1> DEFINE entry == [answer |-> answers + 1, index |-> 1, kind |-> kind]
<1>2. /\ Kept!Asking /\ Kept!HandOut(entry)
      /\ UNCHANGED <<hstsReadCache, wasHstsReadCacheSet, hasCallback, arrays, lastReset>>
  BY DEF Kept!AskEntry
<1>3. /\ Kept!Loading /\ hstsReadCache = << >> /\ wasHstsReadCacheSet = FALSE
      /\ answers \in Nat /\ answers' = answers + 1 /\ answers' \in 0 .. MaxAnswers
      /\ asked' \in Nat /\ asked' > 0 /\ arrays = 0
  BY <1>2, AskingFacts
<1>4. entry.answer = answers + 1 /\ entry.answer \in Nat /\ entry.index = 1 /\ entry.index \in Nat
  BY <1>3
<1> HIDE DEF entry
<1>5. given' = entry \/ given' = given
  BY <1>2 DEF Kept!HandOut
<1>6. Counted'
  BY <1>1, <1>2, <1>3, <1>4, <1>5 DEF Counted
<1>7. hstsReadCache' = << >> /\ Len(hstsReadCache') = 0 /\ hstsReadCache' \in Seq(Entry)
  BY <1>2, <1>3
<1>8. Cached' /\ Loaded'
  <2>1. \A k \in 1 .. Len(hstsReadCache') : FALSE
    BY <1>7
  <2>2. wasHstsReadCacheSet' \in BOOLEAN /\ (arrays' = 1 => wasHstsReadCacheSet')
    <3>1. wasHstsReadCacheSet' = FALSE
      BY <1>2, <1>3
    <3>2. arrays' # 1
      BY <1>2, <1>3
    <3> QED BY <3>1, <3>2
  <2>3. /\ hasCallback' = hasCallback /\ lastReset' = lastReset
        /\ entry.answer \in Nat /\ entry.index \in Nat /\ Kept!HandOut(entry)
    BY <1>2, <1>4
  <2>4. /\ \A k \in 1 .. Len(hstsReadCache') :
             /\ lastReset < hstsReadCache'[k].answer /\ hstsReadCache'[k].answer <= answers'
             /\ Kept!Later(hstsReadCache'[k], given)
             /\ Kept!Later(hstsReadCache'[k], entry)
        /\ \A k, l \in 1 .. Len(hstsReadCache') :
             k < l => Kept!Later(hstsReadCache'[k], hstsReadCache'[l])
    BY <2>1
  <2> QED BY <1>1, <1>3, <1>6, <1>7, <2>2, <2>3, <2>4, HandOutKeeps
<1>9. given' # given => Kept!Later(given', given) /\ given'.answer > lastReset
  BY <1>1, <1>3, <1>4, <1>5 DEF Counted, Kept!Later
<1> QED BY <1>6, <1>8, <1>9

\* An array.
LEMMA AskArrayKeeps ==
  ASSUME KeptInv, NEW array \in Kept!Arrays, Kept!AskArray(array)
  PROVE  /\ Counted' /\ Cached' /\ Loaded'
         /\ given' # given => Kept!Later(given', given) /\ given'.answer > lastReset
<1>1. Counted /\ Cached /\ Loaded
  BY DEF KeptInv
<1> DEFINE p == Kept!Pushed(array)
<1>2. /\ Kept!Asking /\ array # << >> /\ Kept!TakeArray(array) /\ arrays' = arrays + 1
      /\ UNCHANGED <<hasCallback, lastReset>>
  BY DEF Kept!AskArray
<1>3. /\ Kept!Loading /\ hstsReadCache = << >> /\ wasHstsReadCacheSet = FALSE
      /\ answers \in Nat /\ answers < MaxAnswers /\ answers' = answers + 1
      /\ answers' \in 0 .. MaxAnswers
      /\ asked' \in Nat /\ asked' > 0 /\ arrays = 0
  BY <1>2, AskingFacts
<1>4. /\ p \in Seq(Entry)
      /\ \A k \in 1 .. Len(p) : p[k].answer = answers + 1
      /\ \A k, l \in 1 .. Len(p) : k < l => Kept!Later(p[k], p[l])
      /\ "other" \notin {array[i] : i \in DOMAIN array} => p # << >>
  BY <1>2, <1>3, PushedFacts
<1>5. \A x : x.answer = answers + 1 => /\ Kept!Later(x, given) /\ lastReset < x.answer
                                       /\ x.answer <= answers'
  BY <1>1, <1>3 DEF Counted, Kept!Later
<1>6. arrays' = 1 /\ arrays' \in {0, 1}
  BY <1>2, <1>3
<1>7. CASE /\ hstsReadCache' = p /\ UNCHANGED <<wasHstsReadCacheSet, given>>
           /\ Kept!Answer("FAIL")
  <2> HIDE DEF p
  <2>1. Counted'
    BY <1>1, <1>2, <1>3, <1>6, <1>7 DEF Counted
  <2>2. Cached'
    BY <1>2, <1>4, <1>5, <1>7 DEF Cached, Kept!Later
  <2>3. result' = "FAIL" /\ phase' = "idle"
    BY <1>7 DEF Kept!Answer
  <2>4. leftover' \in BOOLEAN
    BY <1>7 DEF Kept!Answer
  <2>5. Rest' => leftover'
    BY <1>7 DEF Kept!Answer, Rest
  <2>6. Loaded'
    BY <1>1, <1>2, <1>7, <2>3, <2>4, <2>5 DEF Loaded, Kept!Loading
  <2> QED BY <1>7, <2>1, <2>2, <2>6
<1>8. CASE /\ "other" \notin {array[i] : i \in DOMAIN array}
           /\ hstsReadCache' = Kept!Front(p) /\ wasHstsReadCacheSet' = TRUE
           /\ Kept!HandOut(Kept!Last(p))
  <2> DEFINE back == Kept!Last(p)
             f == Kept!Front(p)
  <2> HIDE DEF p
  <2>1. /\ back = p[Len(p)] /\ Len(p) \in 1 .. Len(p) /\ back \in Entry /\ f \in Seq(Entry)
        /\ \A k \in 1 .. Len(f) : /\ Kept!Later(f[k], back)
                                  /\ f[k] = p[k] /\ k \in 1 .. Len(p)
    BY <1>4, <1>8, BackFacts
  <2> HIDE DEF back, f
  <2>2. back.answer = answers + 1 /\ back.answer \in Nat /\ back.index \in Nat
    <3>1. p[Len(p)].answer = answers + 1
      BY <1>4, <2>1
    <3>2. back.answer \in 1 .. MaxAnswers /\ back.index \in 1 .. MaxLength
      BY <2>1 DEF Entry
    <3> QED BY <3>1, <3>2, <2>1, BoundsAreNatural
  <2>3. \A k \in 1 .. Len(f) : /\ lastReset < f[k].answer /\ f[k].answer <= answers'
                               /\ Kept!Later(f[k], given)
    BY <1>4, <1>5, <2>1
  <2>4. \A k, l \in 1 .. Len(f) : k < l => Kept!Later(f[k], f[l])
    BY <1>4, <2>1
  <2>5. hstsReadCache' = f /\ wasHstsReadCacheSet' = TRUE /\ Kept!HandOut(back)
    BY <1>8 DEF back, f
  <2>6. given' = back \/ given' = given
    BY <2>5 DEF Kept!HandOut
  <2>7. Counted'
    BY <1>1, <1>2, <1>3, <1>6, <2>2, <2>6 DEF Counted
  <2>8. Cached' /\ Loaded'
    BY <1>1, <1>2, <1>3, <2>1, <2>2, <2>3, <2>4, <2>5, <2>7, HandOutKeeps
  <2> QED BY <1>5, <2>2, <2>6, <2>7, <2>8
<1> QED BY <1>2, <1>7, <1>8 DEF Kept!TakeArray

\* The answer that ends a load: the array is used up, or there is nothing.
LEMMA DoneKeeps ==
  ASSUME KeptInv, Kept!ReadUsedUp \/ Kept!AskNothing
  PROVE  Counted' /\ Cached' /\ Loaded' /\ given' = given
<1>1. Counted /\ Cached /\ Loaded
  BY DEF KeptInv
<1>2. /\ Kept!Loading /\ hstsReadCache = << >> /\ Kept!Answer("DONE")
      /\ UNCHANGED <<hasCallback, hstsReadCache, given, lastReset, arrays>>
      /\ wasHstsReadCacheSet' = FALSE
      /\ \/ UNCHANGED <<answers, asked>> /\ wasHstsReadCacheSet
         \/ Kept!Asking
  <2>1. CASE Kept!ReadUsedUp
    BY <2>1 DEF Kept!ReadUsedUp
  <2>2. CASE Kept!AskNothing
    BY <2>2, AskingFacts DEF Kept!AskNothing, Kept!hsts
  <2> QED BY <2>1, <2>2
<1>3. Counted' /\ answers <= answers'
  <2>1. CASE UNCHANGED <<answers, asked>>
    BY <1>1, <1>2, <2>1, BoundsAreNatural DEF Counted
  <2>2. CASE Kept!Asking
    BY <1>1, <1>2, <2>2, AskingFacts DEF Counted
  <2> QED BY <1>2, <2>1, <2>2
<1>4. Cached'
  BY <1>2 DEF Cached
<1>5. ~leftover => asked' > 0
  <2>1. CASE UNCHANGED <<answers, asked>> /\ wasHstsReadCacheSet
    BY <1>1, <1>2, <2>1 DEF Loaded, Rest
  <2>2. CASE Kept!Asking
    BY <2>2, AskingFacts
  <2> QED BY <1>2, <2>1, <2>2
<1>6. /\ result' = "DONE" /\ phase' \in {"transfer", "idle"} /\ leftover' = leftover /\ ~Rest'
  <2>1. leftover \in BOOLEAN
    BY <1>1 DEF Loaded
  <2> QED BY <2>1, <1>2 DEF Kept!Answer, Kept!Loading, Rest
<1>7. Loaded'
  BY <1>1, <1>2, <1>5, <1>6 DEF Loaded, Kept!Loading
<1> QED BY <1>2, <1>3, <1>4, <1>7

\* Steps that neither ask the callback nor empty the cache: what is found in it stays.
LEMMA OutsideKeeps ==
  ASSUME KeptInv, lastReset' = lastReset, UNCHANGED <<answers, given, hstsReadCache>>,
         asked' \in Nat, arrays' \in {0, 1}
  PROVE  Counted' /\ Cached'
<1>1. Counted /\ Cached
  BY DEF KeptInv
<1> QED BY <1>1 DEF Counted, Cached

\* Requests, loads and what else happens between calls of the HSTSREADFUNCTION.
LEMMA RequestKeeps ==
  ASSUME KeptInv,
         \/ \E set \in BOOLEAN : Kept!SetCallback(set) \/ Kept!SetReadData(set)
         \/ \E kind \in {"load", "dupLoad"} : Kept!Load(kind)
         \/ Kept!StartWithoutCallback \/ Kept!Completes \/ Kept!ReadFile
         \/ \E wants \in BOOLEAN : Kept!Progress(wants)
         \/ \E place \in 0 .. MaxOffset : Kept!Seek(place)
  PROVE  Counted' /\ Cached' /\ Loaded' /\ given' = given
<1>1. Counted /\ Cached /\ Loaded /\ asked \in Nat /\ arrays \in {0, 1}
  BY DEF KeptInv, Counted
<1>2. ASSUME NEW set \in BOOLEAN, Kept!SetCallback(set)
      PROVE  Counted' /\ Cached' /\ Loaded' /\ given' = given
  <2>1. /\ ~Kept!Loading /\ hasCallback' = set
        /\ UNCHANGED <<hstsReadCache, wasHstsReadCacheSet, phase, result, answers, asked, arrays,
                       given, lastReset, leftover>>
    BY <1>2 DEF Kept!SetCallback, Kept!history
  <2>2. Loaded'
    BY <1>1, <2>1 DEF Loaded, Kept!Loading, Rest
  <2> QED BY <1>1, <2>1, <2>2, OutsideKeeps
<1>3. ASSUME NEW kind \in {"load", "dupLoad"}, Kept!Load(kind)
      PROVE  Counted' /\ Cached' /\ Loaded' /\ given' = given
  <2>1. /\ phase = "idle" /\ phase' = kind /\ result' = "OK" /\ asked' = 0 /\ arrays' = 0
        /\ UNCHANGED <<hasCallback, hstsReadCache, wasHstsReadCacheSet, answers, given, lastReset>>
    BY <1>3 DEF Kept!Load, Kept!hsts
  <2>2. leftover' \in BOOLEAN
    BY <1>3 DEF Kept!Load
  <2>3. leftover' <=> leftover /\ Rest
    BY <1>1, <1>3 DEF Kept!Load, Loaded, Rest
  <2>4. Loaded'
    BY <1>1, <2>1, <2>2, <2>3 DEF Loaded, Kept!Loading, Rest
  <2> QED BY <1>1, <2>1, <2>4, OutsideKeeps
<1>4. CASE Kept!StartWithoutCallback
  <2>1. /\ phase = "idle" /\ hasCallback = FALSE /\ phase' = "transfer" /\ result' = "OK"
        /\ UNCHANGED <<hasCallback, hstsReadCache, wasHstsReadCacheSet, answers, asked, arrays,
                       given, lastReset, leftover>>
    BY <1>1, <1>4 DEF Kept!StartWithoutCallback, Kept!hsts, Kept!history, Loaded
  <2>2. Loaded'
    BY <1>1, <2>1 DEF Loaded, Kept!Loading, Rest
  <2> QED BY <1>1, <2>1, <2>2, OutsideKeeps
<1>5. CASE /\ UNCHANGED <<hasCallback, hstsReadCache, wasHstsReadCacheSet, answers, asked, arrays,
                          given, lastReset, leftover>>
           /\ \/ phase' = "idle" /\ result' \in {result, "ABORT"} /\ phase = "transfer"
              \/ UNCHANGED <<phase, result>>
  <2>1. Loaded'
    BY <1>1, <1>5 DEF Loaded, Kept!Loading, Rest
  <2> QED BY <1>1, <1>5, <2>1, OutsideKeeps
<1> QED BY <1>2, <1>3, <1>4, <1>5
  DEF Kept!SetReadData, Kept!Completes, Kept!ReadFile, Kept!Progress, Kept!Seek, Kept!hsts,
      Kept!history

\* reset() empties the cache; the flag of an array is a leftover.
LEMMA ResetKeeps ==
  ASSUME KeptInv, Kept!Reset
  PROVE  Counted' /\ Cached' /\ Loaded' /\ given' = given
<1>1. Counted /\ Cached /\ Loaded
  BY DEF KeptInv
<1>2. /\ ~Kept!Loading /\ hstsReadCache' = << >> /\ hasCallback' = FALSE /\ lastReset' = answers
      /\ leftover' = (leftover \/ wasHstsReadCacheSet)
      /\ UNCHANGED <<wasHstsReadCacheSet, phase, result, answers, asked, arrays, given>>
  BY DEF Kept!Reset, Kept!DisposeInternalData
<1>3. Counted'
  BY <1>1, <1>2, BoundsAreNatural DEF Counted
<1>4. Cached'
  BY <1>2 DEF Cached
<1>5. Loaded'
  BY <1>1, <1>2 DEF Loaded, Kept!Loading, Rest
<1> QED BY <1>2, <1>3, <1>4, <1>5

----------------------------------------------------------------------------
(* The invariant *)

\* The initial states satisfy the invariant.
LEMMA KeptInitially == Kept!Init => KeptInv
<1> SUFFICES ASSUME Kept!Init
             PROVE  KeptInv
  OBVIOUS
<1>1. /\ hasCallback = FALSE /\ hstsReadCache = << >> /\ wasHstsReadCacheSet = FALSE
      /\ progressAborted = FALSE /\ phase = "idle" /\ result = "OK"
      /\ answers = 0 /\ asked = 0 /\ arrays = 0 /\ given = Kept!NoEntry /\ lastReset = 0
      /\ hasFile = FALSE /\ readDataOffset = -1
      /\ leftover = FALSE /\ wantsAbort = FALSE /\ sought = FALSE /\ fileGiven = FALSE
  BY DEF Kept!Init
<1>2. MaxAnswers \in Nat /\ MaxOffset \in Nat
  BY BoundsAreNatural
<1>3. Kept!NoEntry.answer = 0 /\ Kept!NoEntry.index = 0
  BY DEF Kept!NoEntry
<1>4. FileKept
  <2>1. -1 \in -1 .. MaxOffset /\ ~(-1 >= 0)
    BY <1>2
  <2>2. Kept!ResetForgets
    BY <1>1, <2>1 DEF Kept!ResetForgets
  <2> QED BY <1>1, <2>1, <2>2 DEF FileKept
<1>5. Counted
  BY <1>1, <1>2, <1>3 DEF Counted
<1>6. Cached
  BY <1>1 DEF Cached
<1>7. Loaded
  BY <1>1 DEF Loaded, Kept!Loading, Rest
<1> QED BY <1>4, <1>5, <1>6, <1>7 DEF KeptInv

\* Every step keeps the invariant, and libcurl takes a later entry or none.
LEMMA KeptNext ==
  ASSUME KeptInv, Kept!Next
  PROVE  /\ KeptInv'
         /\ given' # given => Kept!Later(given', given) /\ given'.answer > lastReset
<1>1. FileKept'
  BY FileKeeps
<1> DEFINE Moves == given' # given => Kept!Later(given', given) /\ given'.answer > lastReset
           Keeps == Counted' /\ Cached' /\ Loaded' /\ Moves
<1>2. Keeps
  <2>1. CASE Kept!ReadCached
    BY <2>1, ReadCachedKeeps
  <2>2. CASE Kept!ReadUsedUp \/ Kept!AskNothing
    BY <2>2, DoneKeeps
  <2>3. ASSUME NEW kind, Kept!AskEntry(kind)
        PROVE  Keeps
    BY <2>3, AskEntryKeeps
  <2>4. ASSUME NEW array \in Kept!Arrays, Kept!AskArray(array)
        PROVE  Keeps
    BY <2>4, AskArrayKeeps
  <2>5. CASE Kept!Reset
    BY <2>5, ResetKeeps
  <2> QED BY <2>1, <2>2, <2>3, <2>4, <2>5, RequestKeeps DEF Kept!Next
<1> QED BY <1>1, <1>2 DEF KeptInv

\* The invariant holds of every behavior.
THEOREM KeptInvariance == Kept!Spec => []KeptInv
<1>1. ASSUME KeptInv, UNCHANGED Kept!vars
      PROVE  KeptInv'
  <2>1. UNCHANGED <<hasCallback, hstsReadCache, wasHstsReadCacheSet, progressAborted, hasFile,
                    readDataOffset, phase, result, answers, asked, arrays, given, lastReset,
                    leftover, wantsAbort, sought, fileGiven>>
    BY <1>1 DEF Kept!vars, Kept!hsts, Kept!file, Kept!progress, Kept!history
  <2> QED BY <1>1, <2>1
    DEF KeptInv, FileKept, Kept!ResetForgets, Counted, Cached, Loaded, Kept!Loading, Rest
<1>2. KeptInv /\ [Kept!Next]_(Kept!vars) => KeptInv'
  BY <1>1, KeptNext
<1> QED BY <1>2, KeptInitially, PTL DEF Kept!Spec

----------------------------------------------------------------------------
(* What it shows *)

\* A request that goes on after DONE asked its callback and took all it returned, if
\* nothing was left over, and the callback is asked for its array once (Easy.cc:2117).
THEOREM DoneIsAll == Kept!Spec => []DoneMeansAll
<1>1. KeptInv => DoneMeansAll
  <2> SUFFICES ASSUME KeptInv
               PROVE  DoneMeansAll
    OBVIOUS
  <2>1. FileKept /\ Counted /\ Cached /\ Loaded
    BY DEF KeptInv
  <2>2. \A k \in DOMAIN hstsReadCache : hstsReadCache[k] \in Entry
    BY <2>1 DEF Cached
  <2>3. answers \in 0 .. MaxAnswers
    BY <2>1 DEF Counted
  <2>4. Kept!TypeOK
    BY <2>1, <2>2, <2>3 DEF Kept!TypeOK, FileKept, Loaded, Entry
  <2>5. Kept!ArrayAskedOnce
    BY <2>1 DEF Counted, Loaded, Kept!ArrayAskedOnce
  <2> QED BY <2>1, <2>4, <2>5 DEF DoneMeansAll, Kept!DoneMeansAll, Loaded, Rest
<1> QED BY <1>1, KeptInvariance, PTL

\* What one request leaves to the next ends with reset() (Easy.cc:162).
THEOREM ResetEndsIt == Kept!Spec => []ResetForgets
<1>1. KeptInv => ResetForgets
  BY DEF KeptInv, FileKept, ResetForgets
<1> QED BY <1>1, KeptInvariance, PTL

\* libcurl takes each entry at most once, in the order they were returned in, and none
\* that was returned before a reset() (Easy.cc:2164).
THEOREM EntriesFollow == Kept!Spec => EntriesInOrder
<1>1. KeptInv /\ [Kept!Next]_(Kept!vars) =>
        [given' # given => Kept!Later(given', given) /\ given'.answer > lastReset]_(Kept!vars)
  BY KeptNext
<1> QED BY <1>1, KeptInvariance, PTL DEF Kept!Spec, EntriesInOrder, Kept!EntriesInOrder

=============================================================================
