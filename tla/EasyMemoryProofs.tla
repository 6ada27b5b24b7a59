-------------------------- MODULE EasyMemoryProofs --------------------------
(***************************************************************************)
(* Proofs about EasyMemory, for every number of handles, lists, MIME       *)
(* structures and shares, and callers that give a structure away once.     *)
(***************************************************************************)
EXTENDS EasyMemory, FiniteSetTheorems, TLAPS

----------------------------------------------------------------------------
(* The inductive invariant *)

\* What a ToFree holds is there once and in no other, not freed, and an open
\* handle shares the ToFree.
Owned(d) ==
  \A p \in ToFrees : held[p][d] > 0 =>
    /\ held[p][d] = 1 /\ d \notin freed
    /\ \E e \in Easies : Open(e) /\ toFree[e] = p
    /\ \A q \in ToFrees \ {p} : held[q][d] = 0

\* A MIME structure below another one is freed with it, and by nobody else.
Placed(m) ==
  /\ mime[m].parent \in Mimes =>
       /\ m \notin freed /\ mime[m].parent \notin freed
       /\ \A p \in ToFrees : held[p][m] = 0
  /\ mime[m].parent \in Easies => mimepost[mime[m].parent] = m
  /\ mime[m].state = "given" => m \in freed \/ mime[m].parent \in Mimes

\* The options of a handle point to what its ToFree holds, and to a MIME
\* structure that is bound to this handle.
Pointing(e) ==
  /\ ~Open(e) => slist[e] = Nil /\ mimepost[e] = Nil /\ share[e] = Nil
  /\ slist[e] # Nil => held[toFree[e]][slist[e]] > 0
  /\ mimepost[e] # Nil => held[toFree[e]][mimepost[e]] > 0 /\ mime[mimepost[e]].parent = e
  /\ share[e] # Nil => shareState[share[e]] = "open"

OpenEasies == {e \in Easies : Open(e)}
OpenShares == {s \in Shares : shareState[s] = "open"}

Counted == IsFiniteSet(OpenEasies) /\ IsFiniteSet(OpenShares) /\ CountsOpen

Ownership ==
  /\ \A d \in Data : Owned(d)
  /\ \A m \in Mimes : Placed(m)
  /\ \A e \in Easies : Pointing(e)
  /\ twice = {}

IInv == TypeOK /\ Ownership /\ Counted

----------------------------------------------------------------------------
(* Lemmas about the operators of EasyMemory *)

\* A structure is below itself, so is what is below it, and everything else
\* below it has a parent that is a structure.
LEMMA BelowFacts ==
  ASSUME TypeOK, NEW m \in Mimes
  PROVE  /\ m \in Below(m) /\ Below(m) \subseteq Mimes
         /\ \A x \in Below(m) : x = m \/ mime[x].parent \in Mimes
         /\ \A y \in Mimes : mime[y].parent \in Below(m) => y \in Below(m)
<1> DEFINE S == {m} \cup {x \in Mimes : mime[x].parent \in Mimes}
<1>1. m \in Below(m) /\ Below(m) \subseteq Mimes
  BY DEF Below
<1>2. S \in SUBSET Mimes /\ m \in S /\ \A y \in Mimes : mime[y].parent \in S => y \in S
  OBVIOUS
<1>3. Below(m) \subseteq S
  <2> SUFFICES ASSUME NEW x \in Below(m) PROVE x \in S
    OBVIOUS
  <2> HIDE DEF S
  <2> QED BY <1>2 DEF Below
<1>4. ASSUME NEW y \in Mimes, mime[y].parent \in Below(m)
      PROVE  y \in Below(m)
  <2> SUFFICES ASSUME NEW T \in SUBSET Mimes, m \in T,
                      \A z \in Mimes : mime[z].parent \in T => z \in T
               PROVE  y \in T
    BY DEF Below
  <2>1. mime[y].parent \in T
    BY <1>4 DEF Below
  <2> QED BY <2>1
<1> QED BY <1>1, <1>3, <1>4

\* The items G are freed at once, with all that is below them.
FreedWhole(G) ==
  /\ G \subseteq Data /\ G \cap freed = {}
  /\ \A y \in Mimes : mime[y].parent \in G => y \in G
  /\ freed' = freed \cup G /\ twice' = {}
  /\ mime' = [x \in Mimes |-> IF x \in G THEN [mime[x] EXCEPT !.parent = Nil] ELSE mime[x]]

\* ~ToFree frees what it holds and what is below that, nothing that another
\* ToFree holds, and no structure bound to a handle of another ToFree.
LEMMA DisposeFacts ==
  ASSUME IInv, NEW p \in ToFrees, Dispose(p)
  PROVE  \E G \in SUBSET Data :
           /\ FreedWhole(G)
           /\ held' = [held EXCEPT ![p] = Empty]
           /\ \A d \in Data : held[p][d] > 0 => d \in G
           /\ \A d \in G : \A q \in ToFrees \ {p} : held[q][d] = 0
           /\ \A m \in Mimes \cap G : mime[m].parent \in Easies => held[p][m] > 0
<1> DEFINE entries == {d \in Data : held[p][d] > 0}
           gone    == UNION {Family(d) : d \in entries}
<1>1. TypeOK /\ (\A d \in Data : Owned(d)) /\ (\A m \in Mimes : Placed(m)) /\ twice = {}
  BY DEF IInv, Ownership
<1>2. ASSUME NEW d \in entries
      PROVE  d \in Family(d) /\ Family(d) \subseteq Data
  <2>1. CASE d \in Mimes
    BY <2>1, <1>1, BelowFacts DEF Family, Data
  <2>2. CASE d \notin Mimes
    BY <2>2 DEF Family
  <2> QED BY <2>1, <2>2
<1>3. gone \subseteq Data /\ entries \subseteq gone
  BY <1>2
<1>4. ASSUME NEW x \in gone
      PROVE  x \in entries \/ (x \in Mimes /\ mime[x].parent \in Mimes)
  <2>1. PICK d \in entries : x \in Family(d)
    BY <1>4
  <2>2. CASE d \in Mimes
    BY <2>1, <2>2, <1>1, BelowFacts DEF Family
  <2>3. CASE d \notin Mimes
    BY <2>1, <2>3 DEF Family
  <2> QED BY <2>2, <2>3
<1>5. ASSUME NEW y \in Mimes, mime[y].parent \in gone
      PROVE  y \in gone
  <2>1. PICK d \in entries : mime[y].parent \in Family(d)
    BY <1>5
  <2>2. CASE d \in Mimes
    BY <2>1, <2>2, <1>1, BelowFacts DEF Family
  <2>3. CASE d \notin Mimes
    <3>1. mime[y].parent = d /\ d \in Lists
      BY <2>1, <2>3 DEF Family, Data
    <3>2. mime[y].parent \in Easies \cup Mimes \cup {Nil}
      BY <1>1 DEF TypeOK
    <3>3. d \in Easies
      BY <3>1, <3>2, <2>3, KindsDiffer
    <3> QED BY <3>1, <3>3, KindsDiffer
  <2> QED BY <2>2, <2>3
<1>6. ASSUME NEW x \in gone
      PROVE  x \notin freed /\ \A q \in ToFrees \ {p} : held[q][x] = 0
  BY <1>4, <1>1, <1>3 DEF Owned, Placed
<1>7. {d \in entries : held[p][d] > 1} = {}
  BY <1>1 DEF Owned
<1>8. FreedWhole(gone) /\ held' = [held EXCEPT ![p] = Empty]
  BY <1>1, <1>3, <1>5, <1>6, <1>7 DEF Dispose, FreedWhole
<1>9. ASSUME NEW m \in Mimes, m \in gone, mime[m].parent \in Easies
      PROVE  held[p][m] > 0
  BY <1>9, <1>4, KindsDiffer
<1> QED BY <1>3, <1>6, <1>8, <1>9

\* A structure whose root is freed forgets its parent; what stays keeps it.
LEMMA FreedMimes ==
  ASSUME TypeOK, NEW G \in SUBSET Data, FreedWhole(G)
  PROVE  /\ freed' \subseteq Data /\ twice' = {}
         /\ mime' \in [Mimes -> [state : {"new", "open", "given"},
                                 parent : Easies \cup Mimes \cup {Nil}]]
         /\ \A m \in Mimes : /\ mime'[m].state = mime[m].state
                             /\ mime'[m].parent = IF m \in G THEN Nil ELSE mime[m].parent
BY DEF TypeOK, FreedWhole

\* When a structure is let go, only its parent changes.
LEMMA UnbindFacts ==
  ASSUME TypeOK, NEW m, mime' = Unbind(m)
  PROVE  /\ mime' \in [Mimes -> [state : {"new", "open", "given"},
                                 parent : Easies \cup Mimes \cup {Nil}]]
         /\ \A x \in Mimes : /\ mime'[x].state = mime[x].state
                             /\ mime'[x].parent = IF x = m THEN Nil ELSE mime[x].parent
BY DEF TypeOK, Unbind

\* What the last handle of a ToFree leaves behind.
LEMMA LastLeaves ==
  ASSUME IInv, NEW e \in Easies, Open(e), Dispose(toFree[e]),
         \A x \in Easies \ {e} : toFree[x] # toFree[e],
         mimepost' = [mimepost EXCEPT ![e] = Nil]
  PROVE  /\ held' \in [ToFrees -> [Data -> Nat]] /\ freed' \subseteq Data /\ twice' = {}
         /\ mime' \in [Mimes -> [state : {"new", "open", "given"},
                                 parent : Easies \cup Mimes \cup {Nil}]]
         /\ \A p \in ToFrees, d \in Data : held'[p][d] > 0 =>
              p # toFree[e] /\ held'[p][d] = held[p][d] /\ d \notin freed'
         /\ \A p \in ToFrees, d \in Data : held[p][d] = 0 => held'[p][d] = 0
         /\ \A m \in Mimes : Placed(m)'
         /\ \A p \in ToFrees \ {toFree[e]} : held'[p] = held[p]
         /\ \A x \in Easies \ {e} : mimepost[x] # Nil => mime'[mimepost[x]] = mime[mimepost[x]]
<1>1. TypeOK /\ (\A d \in Data : Owned(d)) /\ (\A m \in Mimes : Placed(m))
             /\ (\A x \in Easies : Pointing(x))
  BY DEF IInv, Ownership
<1>2. toFree[e] \in ToFrees
  BY <1>1 DEF TypeOK
<1>3. PICK p \in ToFrees : p = toFree[e]
  BY <1>2
<1>4. PICK G \in SUBSET Data :
        /\ FreedWhole(G)
        /\ held' = [held EXCEPT ![p] = Empty]
        /\ \A d \in Data : held[p][d] > 0 => d \in G
        /\ \A d \in G : \A q \in ToFrees \ {p} : held[q][d] = 0
        /\ \A m \in Mimes \cap G : mime[m].parent \in Easies => held[p][m] > 0
  BY <1>3, DisposeFacts
<1>5. /\ freed' = freed \cup G /\ freed' \subseteq Data /\ twice' = {}
      /\ mime' \in [Mimes -> [state : {"new", "open", "given"},
                              parent : Easies \cup Mimes \cup {Nil}]]
      /\ \A m \in Mimes : /\ mime'[m].state = mime[m].state
                          /\ mime'[m].parent = IF m \in G THEN Nil ELSE mime[m].parent
      /\ \A m \in Mimes : m \notin G => mime'[m] = mime[m]
  BY <1>1, <1>4, FreedMimes DEF FreedWhole
<1>6. held' \in [ToFrees -> [Data -> Nat]]
  BY <1>1, <1>4 DEF TypeOK, Empty
<1>7. /\ \A q \in ToFrees \ {p} : held'[q] = held[q]
      /\ \A d \in Data : held'[p][d] = 0
  BY <1>1, <1>4 DEF TypeOK, Empty
<1>8. ASSUME NEW q \in ToFrees, NEW d \in Data, held'[q][d] > 0
      PROVE  q # p /\ held'[q][d] = held[q][d] /\ d \notin freed'
  <2>1. q # p /\ held'[q][d] = held[q][d]
    BY <1>7, <1>8
  <2>2. d \notin G
    BY <2>1, <1>4, <1>8
  <2>3. d \notin freed
    BY <2>1, <1>1, <1>8 DEF Owned
  <2> QED BY <2>1, <2>2, <2>3, <1>5
<1>9. ASSUME NEW q \in ToFrees, NEW d \in Data, held[q][d] = 0
      PROVE  held'[q][d] = 0
  BY <1>7, <1>9
<1>10. ASSUME NEW x \in Easies \ {e}, mimepost[x] # Nil
       PROVE  mime'[mimepost[x]] = mime[mimepost[x]]
  <2>1. PICK m \in Mimes : m = mimepost[x]
    BY <1>1, <1>10 DEF TypeOK
  <2>2. held[toFree[x]][m] > 0 /\ mime[m].parent = x /\ Open(x)
    BY <1>1, <1>10, <2>1 DEF Pointing
  <2>3. toFree[x] \in ToFrees \ {p}
    BY <1>1, <1>3, <2>2, KindsDiffer DEF TypeOK
  <2>4. m \notin G
    BY <1>4, <2>2, <2>3
  <2> QED BY <2>1, <2>4, <1>5
<1>11. ASSUME NEW m \in Mimes
       PROVE  Placed(m)'
  <2>1. Placed(m)
    BY <1>1
  <2>2. ASSUME mime'[m].parent \in Mimes
        PROVE  /\ m \notin freed' /\ mime'[m].parent \notin freed'
               /\ \A q \in ToFrees : held'[q][m] = 0
    <3>1. m \notin G /\ mime'[m].parent = mime[m].parent
      BY <1>5, <2>2, KindsDiffer
    <3>2. /\ m \notin freed /\ mime[m].parent \notin freed
          /\ \A q \in ToFrees : held[q][m] = 0
      BY <3>1, <2>1, <2>2 DEF Placed
    <3>3. mime[m].parent \notin G
      BY <3>1, <1>4 DEF FreedWhole
    <3> QED BY <3>1, <3>2, <3>3, <1>5, <1>9 DEF Data
  <2>3. ASSUME mime'[m].parent \in Easies
        PROVE  mimepost'[mime'[m].parent] = m
    <3>1. m \notin G /\ mime'[m].parent = mime[m].parent
      BY <1>5, <2>3, KindsDiffer
    <3>2. mimepost[mime[m].parent] = m
      BY <3>1, <2>1, <2>3 DEF Placed
    <3>3. mime[m].parent # e
      <4> SUFFICES ASSUME mime[m].parent = e PROVE FALSE
        OBVIOUS
      <4>1. held[p][m] > 0
        BY <3>2, <1>1, <1>3, KindsDiffer DEF Pointing
      <4> QED BY <4>1, <3>1, <1>4 DEF Data
    <3> QED BY <3>1, <3>2, <3>3, <1>1, <2>3 DEF TypeOK
  <2>4. ASSUME mime'[m].state = "given"
        PROVE  m \in freed' \/ mime'[m].parent \in Mimes
    BY <2>1, <2>4, <1>5 DEF Placed
  <2> QED BY <2>2, <2>3, <2>4 DEF Placed
<1> QED BY <1>3, <1>5, <1>6, <1>7, <1>8, <1>9, <1>10, <1>11

\* What a handle leaves behind that shares its ToFree with another one.
LEMMA OneLeaves ==
  ASSUME IInv, NEW e \in Easies, Open(e), mime' = Unbind(mimepost[e]),
         UNCHANGED <<held, freed, twice>>,
         mimepost' = [mimepost EXCEPT ![e] = Nil]
  PROVE  /\ twice' = {}
         /\ mime' \in [Mimes -> [state : {"new", "open", "given"},
                                 parent : Easies \cup Mimes \cup {Nil}]]
         /\ \A m \in Mimes : Placed(m)'
         /\ \A x \in Easies \ {e} : mimepost[x] # Nil => mime'[mimepost[x]] = mime[mimepost[x]]
<1>1. TypeOK /\ (\A m \in Mimes : Placed(m)) /\ (\A x \in Easies : Pointing(x)) /\ twice = {}
  BY DEF IInv, Ownership
<1>2. /\ mime' \in [Mimes -> [state : {"new", "open", "given"},
                              parent : Easies \cup Mimes \cup {Nil}]]
      /\ \A x \in Mimes : /\ mime'[x].state = mime[x].state
                          /\ mime'[x].parent = IF x = mimepost[e] THEN Nil ELSE mime[x].parent
      /\ \A x \in Mimes : x # mimepost[e] => mime'[x] = mime[x]
  BY <1>1, UnbindFacts DEF Unbind
<1>3. ASSUME NEW x \in Easies \ {e}, mimepost[x] # Nil
      PROVE  mime'[mimepost[x]] = mime[mimepost[x]]
  <2>1. PICK m \in Mimes : m = mimepost[x]
    BY <1>1, <1>3 DEF TypeOK
  <2>2. mime[m].parent = x
    BY <1>1, <1>3, <2>1 DEF Pointing
  <2>3. m # mimepost[e]
    BY <1>1, <2>1, <2>2, KindsDiffer DEF Pointing
  <2> QED BY <2>1, <2>3, <1>2
<1>4. ASSUME NEW m \in Mimes
      PROVE  Placed(m)'
  <2>1. Placed(m)
    BY <1>1
  <2>2. CASE m = mimepost[e]
    <3>1. mime[m].parent = e
      BY <2>2, <1>1, KindsDiffer DEF Pointing
    <3>2. mime[m].state = "given" => m \in freed
      BY <2>1, <3>1, KindsDiffer DEF Placed
    <3> QED BY <2>2, <3>2, <1>2, KindsDiffer DEF Placed
  <2>3. CASE m # mimepost[e]
    <3>1. mime'[m] = mime[m]
      BY <2>3, <1>2
    <3>2. ASSUME mime[m].parent \in Easies
          PROVE  mimepost'[mime[m].parent] = m
      BY <3>2, <2>1, <2>3, <1>1 DEF Placed, TypeOK
    <3> QED BY <3>1, <3>2, <2>1 DEF Placed
  <2> QED BY <2>2, <2>3
<1> QED BY <1>1, <1>2, <1>3, <1>4

\* The memory and the other handles after a handle left its ToFree.
LEMMA LeaveFacts ==
  ASSUME IInv, NEW e \in Easies, NEW next \in ToFrees \cup {Nil}, Open(e), Leave(e, next),
         mimepost' = [mimepost EXCEPT ![e] = Nil]
  PROVE  /\ toFree' = [toFree EXCEPT ![e] = next]
         /\ held' \in [ToFrees -> [Data -> Nat]] /\ freed' \subseteq Data /\ twice' = {}
         /\ mime' \in [Mimes -> [state : {"new", "open", "given"},
                                 parent : Easies \cup Mimes \cup {Nil}]]
         /\ \A d \in Data, p \in ToFrees : held'[p][d] > 0 =>
              /\ held'[p][d] = 1 /\ d \notin freed'
              /\ \E x \in Easies \ {e} : Open(x) /\ toFree[x] = p
              /\ \A q \in ToFrees \ {p} : held'[q][d] = 0
         /\ \A m \in Mimes : Placed(m)'
         /\ \A x \in Easies \ {e} :
              /\ slist[x] # Nil => held'[toFree[x]][slist[x]] > 0
              /\ mimepost[x] # Nil => /\ held'[toFree[x]][mimepost[x]] > 0
                                      /\ mime'[mimepost[x]].parent = x
<1>1. TypeOK /\ (\A d \in Data : Owned(d)) /\ (\A x \in Easies : Pointing(x))
  BY DEF IInv, Ownership
<1>2. toFree' = [toFree EXCEPT ![e] = next]
  BY DEF Leave
<1>3. ASSUME NEW x \in Easies, slist[x] # Nil \/ mimepost[x] # Nil
      PROVE  Open(x) /\ toFree[x] \in ToFrees
  BY <1>1, <1>3 DEF Pointing, TypeOK
<1>4. CASE \A x \in Easies \ {e} : toFree[x] # toFree[e]
  <2>1. Dispose(toFree[e])
    BY <1>4 DEF Leave
  <2>2. /\ held' \in [ToFrees -> [Data -> Nat]] /\ freed' \subseteq Data /\ twice' = {}
        /\ mime' \in [Mimes -> [state : {"new", "open", "given"},
                                parent : Easies \cup Mimes \cup {Nil}]]
        /\ \A p \in ToFrees, d \in Data : held'[p][d] > 0 =>
             p # toFree[e] /\ held'[p][d] = held[p][d] /\ d \notin freed'
        /\ \A p \in ToFrees, d \in Data : held[p][d] = 0 => held'[p][d] = 0
        /\ \A m \in Mimes : Placed(m)'
        /\ \A p \in ToFrees \ {toFree[e]} : held'[p] = held[p]
        /\ \A x \in Easies \ {e} : mimepost[x] # Nil => mime'[mimepost[x]] = mime[mimepost[x]]
    BY <1>4, <2>1, LastLeaves
  <2>3. ASSUME NEW d \in Data, NEW p \in ToFrees, held'[p][d] > 0
        PROVE  /\ held'[p][d] = 1 /\ d \notin freed'
               /\ \E x \in Easies \ {e} : Open(x) /\ toFree[x] = p
               /\ \A q \in ToFrees \ {p} : held'[q][d] = 0
    <3>1. p # toFree[e] /\ held[p][d] > 0 /\ held'[p][d] = held[p][d] /\ d \notin freed'
      BY <2>2, <2>3
    <3>2. /\ held[p][d] = 1 /\ \E x \in Easies : Open(x) /\ toFree[x] = p
          /\ \A q \in ToFrees \ {p} : held[q][d] = 0
      BY <3>1, <1>1 DEF Owned
    <3> QED BY <3>1, <3>2, <2>2
  <2>4. ASSUME NEW x \in Easies \ {e}
        PROVE  /\ slist[x] # Nil => held'[toFree[x]][slist[x]] > 0
               /\ mimepost[x] # Nil => /\ held'[toFree[x]][mimepost[x]] > 0
                                       /\ mime'[mimepost[x]].parent = x
    <3>1. slist[x] # Nil \/ mimepost[x] # Nil => held'[toFree[x]] = held[toFree[x]]
      BY <1>3, <1>4, <2>2
    <3>2. /\ slist[x] # Nil => held[toFree[x]][slist[x]] > 0
          /\ mimepost[x] # Nil => /\ held[toFree[x]][mimepost[x]] > 0
                                  /\ mime[mimepost[x]].parent = x
      BY <1>1 DEF Pointing
    <3> QED BY <3>1, <3>2, <2>2
  <2> QED BY <1>2, <2>2, <2>3, <2>4
<1>5. CASE \E x \in Easies \ {e} : toFree[x] = toFree[e]
  <2>1. mime' = Unbind(mimepost[e]) /\ UNCHANGED <<held, freed, twice>>
    BY <1>5 DEF Leave
  <2>2. /\ twice' = {}
        /\ mime' \in [Mimes -> [state : {"new", "open", "given"},
                                parent : Easies \cup Mimes \cup {Nil}]]
        /\ \A m \in Mimes : Placed(m)'
        /\ \A x \in Easies \ {e} : mimepost[x] # Nil => mime'[mimepost[x]] = mime[mimepost[x]]
    BY <2>1, OneLeaves
  <2>3. ASSUME NEW d \in Data, NEW p \in ToFrees, held[p][d] > 0
        PROVE  \E x \in Easies \ {e} : Open(x) /\ toFree[x] = p
    <3>1. PICK x \in Easies : Open(x) /\ toFree[x] = p
      BY <1>1, <2>3 DEF Owned
    <3>2. CASE x = e
      <4>1. PICK y \in Easies \ {e} : toFree[y] = toFree[e]
        BY <1>5
      <4>2. Open(y)
        BY <3>1, <3>2, <4>1, <1>1 DEF TypeOK
      <4> QED BY <3>1, <3>2, <4>1, <4>2
    <3> QED BY <3>1, <3>2
  <2>4. ASSUME NEW x \in Easies \ {e}
        PROVE  /\ slist[x] # Nil => held'[toFree[x]][slist[x]] > 0
               /\ mimepost[x] # Nil => /\ held'[toFree[x]][mimepost[x]] > 0
                                       /\ mime'[mimepost[x]].parent = x
    BY <1>1, <2>1, <2>2 DEF Pointing
  <2>5. held' \in [ToFrees -> [Data -> Nat]] /\ freed' \subseteq Data
    BY <1>1, <2>1 DEF TypeOK
  <2>6. ASSUME NEW d \in Data, NEW p \in ToFrees, held'[p][d] > 0
        PROVE  /\ held'[p][d] = 1 /\ d \notin freed'
               /\ \E x \in Easies \ {e} : Open(x) /\ toFree[x] = p
               /\ \A q \in ToFrees \ {p} : held'[q][d] = 0
    BY <2>1, <2>3, <2>6, <1>1 DEF Owned
  <2> QED BY <1>2, <2>2, <2>4, <2>5, <2>6
<1> QED BY <1>4, <1>5

----------------------------------------------------------------------------
(* The operations of an Easy *)

\* reset() keeps the invariant.
LEMMA ResetKeeps ==
  ASSUME IInv, NEW e \in Easies, NEW p \in ToFrees, Reset(e, p)
  PROVE  IInv'
<1>1. TypeOK /\ (\A x \in Easies : Pointing(x)) /\ Counted
  BY DEF IInv, Ownership
<1>2. /\ Open(e) /\ Leave(e, p)
      /\ slist' = [slist EXCEPT ![e] = Nil] /\ mimepost' = [mimepost EXCEPT ![e] = Nil]
      /\ UNCHANGED <<easy, share, shareState, easyCount, shareCount, aborted>>
  BY DEF Reset
<1>3. /\ toFree' = [toFree EXCEPT ![e] = p]
      /\ held' \in [ToFrees -> [Data -> Nat]] /\ freed' \subseteq Data /\ twice' = {}
      /\ mime' \in [Mimes -> [state : {"new", "open", "given"},
                              parent : Easies \cup Mimes \cup {Nil}]]
      /\ \A d \in Data, q \in ToFrees : held'[q][d] > 0 =>
           /\ held'[q][d] = 1 /\ d \notin freed'
           /\ \E x \in Easies \ {e} : Open(x) /\ toFree[x] = q
           /\ \A r \in ToFrees \ {q} : held'[r][d] = 0
      /\ \A m \in Mimes : Placed(m)'
      /\ \A x \in Easies \ {e} :
           /\ slist[x] # Nil => held'[toFree[x]][slist[x]] > 0
           /\ mimepost[x] # Nil => /\ held'[toFree[x]][mimepost[x]] > 0
                                   /\ mime'[mimepost[x]].parent = x
  BY <1>2, LeaveFacts
<1>4. TypeOK'
  BY <1>1, <1>2, <1>3, KindsDiffer DEF TypeOK, Open
<1>5. \A x \in Easies \ {e} : /\ easy'[x] = easy[x] /\ toFree'[x] = toFree[x]
                              /\ slist'[x] = slist[x] /\ mimepost'[x] = mimepost[x]
                              /\ share'[x] = share[x]
  BY <1>1, <1>2, <1>3 DEF TypeOK
<1>6. \A d \in Data : Owned(d)'
  BY <1>3, <1>5 DEF Owned, Open
<1>7. ASSUME NEW x \in Easies
      PROVE  Pointing(x)'
  <2>1. CASE x = e
    BY <2>1, <1>1, <1>2 DEF Pointing, Open, TypeOK
  <2>2. CASE x # e
    BY <2>2, <1>1, <1>2, <1>3, <1>5 DEF Pointing, Open
  <2> QED BY <2>1, <2>2
<1>8. OpenEasies' = OpenEasies /\ OpenShares' = OpenShares
  BY <1>2 DEF OpenEasies, OpenShares, Open
<1>9. Counted'
  BY <1>1, <1>2, <1>8 DEF Counted, CountsOpen, OpenEasies, OpenShares
<1> QED BY <1>3, <1>4, <1>6, <1>7, <1>9 DEF IInv, Ownership

\* close() keeps the invariant.
LEMMA CloseKeeps ==
  ASSUME IInv, NEW e \in Easies, Close(e)
  PROVE  IInv'
<1>1. TypeOK /\ (\A x \in Easies : Pointing(x)) /\ Counted
  BY DEF IInv, Ownership
<1>2. /\ Open(e) /\ Leave(e, Nil)
      /\ easy' = [easy EXCEPT ![e] = "closed"]
      /\ slist' = [slist EXCEPT ![e] = Nil] /\ mimepost' = [mimepost EXCEPT ![e] = Nil]
      /\ share' = [share EXCEPT ![e] = Nil] /\ easyCount' = easyCount - 1
      /\ UNCHANGED <<shareState, shareCount, aborted>>
  BY DEF Close
<1>3. /\ toFree' = [toFree EXCEPT ![e] = Nil]
      /\ held' \in [ToFrees -> [Data -> Nat]] /\ freed' \subseteq Data /\ twice' = {}
      /\ mime' \in [Mimes -> [state : {"new", "open", "given"},
                              parent : Easies \cup Mimes \cup {Nil}]]
      /\ \A d \in Data, q \in ToFrees : held'[q][d] > 0 =>
           /\ held'[q][d] = 1 /\ d \notin freed'
           /\ \E x \in Easies \ {e} : Open(x) /\ toFree[x] = q
           /\ \A r \in ToFrees \ {q} : held'[r][d] = 0
      /\ \A m \in Mimes : Placed(m)'
      /\ \A x \in Easies \ {e} :
           /\ slist[x] # Nil => held'[toFree[x]][slist[x]] > 0
           /\ mimepost[x] # Nil => /\ held'[toFree[x]][mimepost[x]] > 0
                                   /\ mime'[mimepost[x]].parent = x
  BY <1>2, LeaveFacts
<1>4. TypeOK'
  BY <1>1, <1>2, <1>3, KindsDiffer DEF TypeOK, Open
<1>5. \A x \in Easies \ {e} : /\ easy'[x] = easy[x] /\ toFree'[x] = toFree[x]
                              /\ slist'[x] = slist[x] /\ mimepost'[x] = mimepost[x]
                              /\ share'[x] = share[x]
  BY <1>1, <1>2, <1>3 DEF TypeOK
<1>6. \A d \in Data : Owned(d)'
  BY <1>3, <1>5 DEF Owned, Open
<1>7. ASSUME NEW x \in Easies
      PROVE  Pointing(x)'
  <2>1. CASE x = e
    BY <2>1, <1>1, <1>2 DEF Pointing, Open, TypeOK
  <2>2. CASE x # e
    BY <2>2, <1>1, <1>2, <1>3, <1>5 DEF Pointing, Open
  <2> QED BY <2>1, <2>2
<1>8. OpenEasies' = OpenEasies \ {e} /\ e \in OpenEasies /\ OpenShares' = OpenShares
  BY <1>1, <1>2 DEF OpenEasies, OpenShares, Open, TypeOK
<1>9. Counted'
  <2>1. /\ IsFiniteSet(OpenEasies) /\ easyCount = Cardinality(OpenEasies)
        /\ IsFiniteSet(OpenShares) /\ shareCount = Cardinality(OpenShares)
    BY <1>1 DEF Counted, CountsOpen, OpenEasies, OpenShares
  <2>2. IsFiniteSet(OpenEasies') /\ Cardinality(OpenEasies') = Cardinality(OpenEasies) - 1
    BY <2>1, <1>8, FS_RemoveElement
  <2> QED BY <2>1, <2>2, <1>2, <1>8 DEF Counted, CountsOpen, OpenEasies, OpenShares
<1> QED BY <1>3, <1>4, <1>6, <1>7, <1>9 DEF IInv, Ownership

\* A new Easy keeps the invariant.
LEMMA NewEasyKeeps ==
  ASSUME IInv, NEW e \in Easies, NEW p \in ToFrees, NewEasy(e, p)
  PROVE  IInv'
<1>1. TypeOK /\ Ownership /\ Counted
  BY DEF IInv
<1>2. /\ easy[e] = "new" /\ easy' = [easy EXCEPT ![e] = "open"]
      /\ toFree' = [toFree EXCEPT ![e] = p] /\ easyCount' = easyCount + 1
      /\ UNCHANGED <<held, freed, twice, slist, mimepost, share, mime, shareState,
                     shareCount, aborted>>
  BY DEF NewEasy, options
<1>3. TypeOK'
  BY <1>1, <1>2, KindsDiffer DEF TypeOK, Open
<1>4. /\ \A x \in Easies \ {e} : easy'[x] = easy[x] /\ toFree'[x] = toFree[x]
      /\ ~Open(e) /\ Open(e)'
  BY <1>1, <1>2 DEF TypeOK, Open
<1>5. \A d \in Data : Owned(d)'
  BY <1>1, <1>2, <1>4 DEF Ownership, Owned, Open
<1>6. \A m \in Mimes : Placed(m)'
  BY <1>1, <1>2 DEF Ownership, Placed
<1>7. ASSUME NEW x \in Easies
      PROVE  Pointing(x)'
  <2>1. CASE x = e
    BY <2>1, <1>1, <1>2, <1>4 DEF Ownership, Pointing
  <2>2. CASE x # e
    BY <2>2, <1>1, <1>2, <1>4 DEF Ownership, Pointing, Open
  <2> QED BY <2>1, <2>2
<1>8. OpenEasies' = OpenEasies \cup {e} /\ e \notin OpenEasies /\ OpenShares' = OpenShares
  BY <1>1, <1>2, <1>4 DEF OpenEasies, OpenShares, Open
<1>9. Counted'
  <2>1. /\ IsFiniteSet(OpenEasies) /\ easyCount = Cardinality(OpenEasies)
        /\ IsFiniteSet(OpenShares) /\ shareCount = Cardinality(OpenShares)
    BY <1>1 DEF Counted, CountsOpen, OpenEasies, OpenShares
  <2>2. IsFiniteSet(OpenEasies') /\ Cardinality(OpenEasies') = Cardinality(OpenEasies) + 1
    BY <2>1, <1>8, FS_AddElement
  <2> QED BY <2>1, <2>2, <1>2, <1>8 DEF Counted, CountsOpen, OpenEasies, OpenShares
<1> QED BY <1>1, <1>2, <1>3, <1>5, <1>6, <1>7, <1>9 DEF IInv, Ownership

\* dupHandle() keeps the invariant: the duplicate shares the ToFree, and with
\* it what the copied pointer to a list needs.
LEMMA DupHandleKeeps ==
  ASSUME IInv, NEW e \in Easies, NEW d \in Easies, DupHandle(e, d)
  PROVE  IInv'
<1>1. TypeOK /\ Ownership /\ Counted
  BY DEF IInv
<1>2. /\ Open(e) /\ easy[d] = "new" /\ easy' = [easy EXCEPT ![d] = "open"]
      /\ slist' = [slist EXCEPT ![d] = slist[e]]
      /\ toFree' = [toFree EXCEPT ![d] = toFree[e]] /\ easyCount' = easyCount + 1
      /\ UNCHANGED <<held, freed, twice, mimepost, share, mime, shareState,
                     shareCount, aborted>>
  BY DEF DupHandle, CopyEasy, Duplicate, CopyOtherData
<1>3. /\ slist[e] \in Lists \cup {Nil} /\ toFree[e] \in ToFrees
      /\ slist[e] # Nil => held[toFree[e]][slist[e]] > 0
      /\ mimepost[d] = Nil /\ share[d] = Nil
  BY <1>1, <1>2 DEF TypeOK, Ownership, Pointing, Open
<1>4. /\ \A x \in Easies \ {d} : /\ easy'[x] = easy[x] /\ toFree'[x] = toFree[x]
                                 /\ slist'[x] = slist[x]
      /\ ~Open(d) /\ Open(d)' /\ toFree'[d] = toFree[e] /\ slist'[d] = slist[e]
  BY <1>1, <1>2 DEF TypeOK, Open
<1>5. TypeOK'
  BY <1>1, <1>2, <1>3, KindsDiffer DEF TypeOK, Open
<1>6. \A i \in Data : Owned(i)'
  BY <1>1, <1>2, <1>4 DEF Ownership, Owned, Open
<1>7. \A m \in Mimes : Placed(m)'
  BY <1>1, <1>2 DEF Ownership, Placed
<1>8. ASSUME NEW x \in Easies
      PROVE  Pointing(x)'
  <2>1. CASE x = d
    BY <2>1, <1>2, <1>3, <1>4 DEF Pointing
  <2>2. CASE x # d
    BY <2>2, <1>1, <1>2, <1>4 DEF Ownership, Pointing, Open
  <2> QED BY <2>1, <2>2
<1>9. OpenEasies' = OpenEasies \cup {d} /\ d \notin OpenEasies /\ OpenShares' = OpenShares
  BY <1>1, <1>2, <1>4 DEF OpenEasies, OpenShares, Open
<1>10. Counted'
  <2>1. /\ IsFiniteSet(OpenEasies) /\ easyCount = Cardinality(OpenEasies)
        /\ IsFiniteSet(OpenShares) /\ shareCount = Cardinality(OpenShares)
    BY <1>1 DEF Counted, CountsOpen, OpenEasies, OpenShares
  <2>2. IsFiniteSet(OpenEasies') /\ Cardinality(OpenEasies') = Cardinality(OpenEasies) + 1
    BY <2>1, <1>9, FS_AddElement
  <2> QED BY <2>1, <2>2, <1>2, <1>9 DEF Counted, CountsOpen, OpenEasies, OpenShares
<1> QED BY <1>1, <1>2, <1>5, <1>6, <1>7, <1>8, <1>10 DEF IInv, Ownership

----------------------------------------------------------------------------
(* setOpt *)

\* An operation that changes no handle's and no share's state keeps the counts.
LEMMA SameCounts ==
  ASSUME Counted, UNCHANGED <<easy, shareState, easyCount, shareCount>>
  PROVE  Counted'
BY DEF Counted, CountsOpen, OpenEasies, OpenShares, Open

\* What one more entry changes in the ToFree of a handle.
LEMMA PushFacts ==
  ASSUME TypeOK, NEW e \in Easies, Open(e), NEW d \in Data, Push(e, d)
  PROVE  /\ toFree[e] \in ToFrees /\ held' \in [ToFrees -> [Data -> Nat]]
         /\ held'[toFree[e]][d] = held[toFree[e]][d] + 1
         /\ \A p \in ToFrees, i \in Data : p # toFree[e] \/ i # d => held'[p][i] = held[p][i]
<1>1. PICK p \in ToFrees : p = toFree[e]
  BY DEF TypeOK
<1>2. held' = [held EXCEPT ![p][d] = @ + 1]
  BY <1>1 DEF Push
<1>3. held \in [ToFrees -> [Data -> Nat]]
  BY DEF TypeOK
<1> QED BY <1>1, <1>2, <1>3

\* An item nobody held is held once after it was pushed.
LEMMA PushOwned ==
  ASSUME TypeOK, \A i \in Data : Owned(i), NEW e \in Easies, Open(e), NEW d \in Data,
         Push(e, d), d \notin freed, \A p \in ToFrees : held[p][d] = 0,
         UNCHANGED <<easy, toFree, freed>>
  PROVE  \A i \in Data : Owned(i)'
<1>1. /\ toFree[e] \in ToFrees /\ held' \in [ToFrees -> [Data -> Nat]]
      /\ held'[toFree[e]][d] = held[toFree[e]][d] + 1
      /\ \A p \in ToFrees, i \in Data : p # toFree[e] \/ i # d => held'[p][i] = held[p][i]
  BY PushFacts
<1>2. ASSUME NEW i \in Data
      PROVE  Owned(i)'
  <2>1. CASE i = d
    <3>1. held'[toFree[e]][d] = 1 /\ \A p \in ToFrees \ {toFree[e]} : held'[p][d] = 0
      BY <1>1
    <3> QED BY <2>1, <1>1, <3>1 DEF Owned, Open
  <2>2. CASE i # d
    BY <2>2, <1>1 DEF Owned, Open
  <2> QED BY <2>1, <2>2
<1> QED BY <1>2

\* setOpt() of a list keeps the invariant.
LEMMA SetListKeeps ==
  ASSUME IInv, NEW e \in Easies, NEW l \in Lists, SetList(e, l)
  PROVE  IInv'
<1>1. TypeOK /\ Ownership /\ Counted
  BY DEF IInv
<1>2. /\ Open(e) /\ l \notin freed /\ \A p \in ToFrees : held[p][l] = 0
      /\ slist' = [slist EXCEPT ![e] = l] /\ Push(e, l)
      /\ UNCHANGED <<easy, toFree, freed, twice, mimepost, share, mime, shareState,
                     easyCount, shareCount, aborted>>
  BY DEF SetList
<1>3. /\ toFree[e] \in ToFrees /\ held' \in [ToFrees -> [Data -> Nat]]
      /\ held'[toFree[e]][l] = held[toFree[e]][l] + 1
      /\ \A p \in ToFrees, i \in Data : p # toFree[e] \/ i # l => held'[p][i] = held[p][i]
  <2>1. l \in Data
    BY DEF Data
  <2> QED BY <1>1, <1>2, <2>1, PushFacts
<1>4. TypeOK'
  BY <1>1, <1>2, <1>3 DEF TypeOK, Open
<1>5. \A d \in Data : Owned(d)'
  BY <1>1, <1>2, PushOwned DEF Ownership, Data
<1>6. \A m \in Mimes : Placed(m)'
  BY <1>1, <1>2, <1>3, KindsDiffer DEF Ownership, Placed, Data
<1>7. ASSUME NEW x \in Easies
      PROVE  Pointing(x)'
  <2>1. Pointing(x) /\ held[toFree[e]][l] = 0
    BY <1>1, <1>2, <1>3 DEF Ownership
  <2>2. /\ slist'[x] = IF x = e THEN l ELSE slist[x]
        /\ slist[x] \in Lists \cup {Nil} /\ mimepost[x] \in Mimes \cup {Nil}
    BY <1>1, <1>2 DEF TypeOK
  <2>3. Open(x) => toFree[x] \in ToFrees
    BY <1>1 DEF TypeOK
  <2>4. ASSUME NEW d \in Data, Open(x), held[toFree[x]][d] > 0
        PROVE  held'[toFree[x]][d] > 0
    BY <2>1, <2>3, <2>4, <1>2, <1>3
  <2>5. slist'[x] # Nil => held'[toFree[x]][slist'[x]] > 0
    <3>1. CASE x = e
      BY <3>1, <2>1, <2>2, <1>3
    <3>2. CASE x # e
      BY <3>2, <2>1, <2>2, <2>4 DEF Pointing, Data
    <3> QED BY <3>1, <3>2
  <2>6. mimepost[x] # Nil => held'[toFree[x]][mimepost[x]] > 0
    BY <2>1, <2>2, <2>4 DEF Pointing, Data
  <2> QED BY <2>1, <2>2, <2>5, <2>6, <1>2 DEF Pointing, Open
<1>8. Counted'
  BY <1>1, <1>2, SameCounts
<1> QED BY <1>1, <1>2, <1>4, <1>5, <1>6, <1>7, <1>8 DEF IInv, Ownership

\* setOpt(option, null) of a list keeps the invariant.
LEMMA UnsetListKeeps ==
  ASSUME IInv, NEW e \in Easies, UnsetList(e)
  PROVE  IInv'
<1>1. TypeOK /\ Ownership /\ Counted
  BY DEF IInv
<1>2. /\ slist' = [slist EXCEPT ![e] = Nil]
      /\ UNCHANGED <<easy, toFree, held, freed, twice, mimepost, share, mime, shareState,
                     easyCount, shareCount, aborted>>
  BY DEF UnsetList, memory
<1>3. TypeOK'
  BY <1>1, <1>2 DEF TypeOK, Open
<1>4. (\A d \in Data : Owned(d)') /\ (\A m \in Mimes : Placed(m)')
  BY <1>1, <1>2 DEF Ownership, Owned, Placed, Open
<1>5. \A x \in Easies : Pointing(x)'
  BY <1>1, <1>2 DEF Ownership, Pointing, Open, TypeOK
<1>6. Counted'
  BY <1>1, <1>2, SameCounts
<1> QED BY <1>1, <1>2, <1>3, <1>4, <1>5, <1>6 DEF IInv, Ownership

\* Binding a structure keeps the invariant, when the caller did not give it
\* away before: libcurl then takes it.
LEMMA SetMimePostKeeps ==
  ASSUME Disciplined, IInv, NEW e \in Easies, NEW m \in Mimes, SetMimePost(e, m)
  PROVE  IInv'
<1>1. TypeOK /\ Ownership /\ Counted
  BY DEF IInv
<1>2. /\ Open(e) /\ mime[m].state = "open" /\ m \notin freed
      /\ mime[m].parent = Nil /\ \A p \in ToFrees : held[p][m] = 0
  <2>1. Open(e) /\ mime[m].state = "open" /\ ~Given(m)
    BY DEF SetMimePost
  <2>2. m \in Data
    BY DEF Data
  <2>3. \A p \in ToFrees : held[p][m] \in Nat
    BY <2>2, <1>1 DEF TypeOK
  <2> QED BY <2>1, <2>3 DEF Given
<1>3. /\ mimepost' = [mimepost EXCEPT ![e] = m] /\ Push(e, m)
      /\ mime' = [x \in Mimes |->
           [mime[x] EXCEPT !.parent = IF x = m THEN e
                                      ELSE IF x = mimepost[e] THEN Nil ELSE @]]
      /\ UNCHANGED <<easy, toFree, freed, twice, slist, share, shareState, easyCount,
                     shareCount, aborted>>
  BY <1>2 DEF SetMimePost
<1>4. /\ mime' \in [Mimes -> [state : {"new", "open", "given"},
                              parent : Easies \cup Mimes \cup {Nil}]]
      /\ \A x \in Mimes : /\ mime'[x].state = mime[x].state
                          /\ mime'[x].parent = IF x = m THEN e
                                               ELSE IF x = mimepost[e] THEN Nil ELSE mime[x].parent
  BY <1>1, <1>3 DEF TypeOK
<1>5. /\ toFree[e] \in ToFrees /\ held' \in [ToFrees -> [Data -> Nat]]
      /\ held'[toFree[e]][m] = held[toFree[e]][m] + 1
      /\ \A p \in ToFrees, i \in Data : p # toFree[e] \/ i # m => held'[p][i] = held[p][i]
  <2>1. m \in Data
    BY DEF Data
  <2> QED BY <1>1, <1>2, <1>3, <2>1, PushFacts
<1>6. TypeOK'
  BY <1>1, <1>3, <1>4, <1>5 DEF TypeOK, Open
<1>7. \A d \in Data : Owned(d)'
  BY <1>1, <1>2, <1>3, PushOwned DEF Ownership, Data
<1>8. ASSUME NEW x \in Mimes
      PROVE  Placed(x)'
  <2>1. Placed(x) /\ x \in Data
    BY <1>1 DEF Ownership, Data
  <2>2. CASE x = m
    BY <2>2, <1>1, <1>2, <1>3, <1>4, KindsDiffer DEF Placed, TypeOK
  <2>3. CASE x # m /\ x = mimepost[e]
    <3>1. mime[x].parent = e
      BY <2>3, <1>1, KindsDiffer DEF Ownership, Pointing
    <3> QED BY <2>1, <2>3, <3>1, <1>3, <1>4, KindsDiffer DEF Placed
  <2>4. CASE x # m /\ x # mimepost[e]
    <3>1. mime'[x].parent = mime[x].parent /\ mime'[x].state = mime[x].state
      BY <2>4, <1>4
    <3>2. \A p \in ToFrees : held'[p][x] = held[p][x]
      BY <2>1, <2>4, <1>5
    <3>3. ASSUME mime[x].parent \in Easies
          PROVE  mimepost'[mime[x].parent] = x
      BY <2>1, <2>4, <3>3, <1>1, <1>3 DEF Placed, TypeOK
    <3> QED BY <2>1, <3>1, <3>2, <3>3, <1>3 DEF Placed
  <2> QED BY <2>2, <2>3, <2>4
<1>9. ASSUME NEW x \in Easies
      PROVE  Pointing(x)'
  <2>1. Pointing(x)
    BY <1>1 DEF Ownership
  <2>2. /\ mimepost'[x] = IF x = e THEN m ELSE mimepost[x]
        /\ slist[x] \in Lists \cup {Nil} /\ mimepost[x] \in Mimes \cup {Nil}
    BY <1>1, <1>3 DEF TypeOK
  <2>3. Open(x) => toFree[x] \in ToFrees
    BY <1>1 DEF TypeOK
  <2>4. ASSUME NEW d \in Data, Open(x), held[toFree[x]][d] > 0
        PROVE  held'[toFree[x]][d] > 0
    BY <2>3, <2>4, <1>2, <1>5
  <2>5. slist[x] # Nil => held'[toFree[x]][slist[x]] > 0
    BY <2>1, <2>2, <2>4 DEF Pointing, Data
  <2>6. mimepost'[x] # Nil => /\ held'[toFree[x]][mimepost'[x]] > 0
                              /\ mime'[mimepost'[x]].parent = x
    <3>1. CASE x = e
      BY <3>1, <2>2, <1>2, <1>4, <1>5
    <3>2. CASE x # e
      <4>1. mimepost[x] # Nil => held'[toFree[x]][mimepost[x]] > 0
        BY <2>1, <2>2, <2>4 DEF Pointing, Data
      <4>2. mimepost[x] # Nil => mimepost[x] # m /\ mimepost[x] # mimepost[e]
        BY <3>2, <2>1, <1>1, <1>2, KindsDiffer DEF Pointing, Ownership
      <4> QED BY <3>2, <4>1, <4>2, <2>1, <2>2, <1>4 DEF Pointing
    <3> QED BY <3>1, <3>2
  <2> QED BY <2>1, <2>2, <2>5, <2>6, <1>2, <1>3 DEF Pointing, Open
<1>10. Counted'
  BY <1>1, <1>3, SameCounts
<1> QED BY <1>1, <1>3, <1>6, <1>7, <1>8, <1>9, <1>10 DEF IInv, Ownership

\* setOpt('MIMEPOST', null) keeps the invariant.
LEMMA UnsetMimePostKeeps ==
  ASSUME IInv, NEW e \in Easies, UnsetMimePost(e)
  PROVE  IInv'
<1>1. TypeOK /\ Ownership /\ Counted
  BY DEF IInv
<1>2. /\ Open(e) /\ mimepost[e] # Nil
      /\ mime' = [mime EXCEPT ![mimepost[e]].parent = Nil]
      /\ mimepost' = [mimepost EXCEPT ![e] = Nil]
      /\ UNCHANGED <<easy, toFree, held, freed, twice, slist, share, shareState, easyCount,
                     shareCount, aborted>>
  BY DEF UnsetMimePost, memory
<1>3. mime' = Unbind(mimepost[e])
  <2>1. PICK m \in Mimes : m = mimepost[e]
    BY <1>1, <1>2 DEF TypeOK
  <2>2. mime' = [mime EXCEPT ![m].parent = Nil]
    BY <1>2, <2>1
  <2>3. mime \in [Mimes -> [state : {"new", "open", "given"},
                            parent : Easies \cup Mimes \cup {Nil}]]
    BY <1>1 DEF TypeOK
  <2> QED BY <2>1, <2>2, <2>3 DEF Unbind
<1>4. /\ mime' \in [Mimes -> [state : {"new", "open", "given"},
                              parent : Easies \cup Mimes \cup {Nil}]]
      /\ \A m \in Mimes : Placed(m)'
      /\ \A x \in Easies \ {e} : mimepost[x] # Nil => mime'[mimepost[x]] = mime[mimepost[x]]
  BY <1>2, <1>3, OneLeaves
<1>5. TypeOK'
  BY <1>1, <1>2, <1>4 DEF TypeOK, Open
<1>6. \A d \in Data : Owned(d)'
  BY <1>1, <1>2 DEF Ownership, Owned, Open
<1>7. ASSUME NEW x \in Easies
      PROVE  Pointing(x)'
  <2>1. Pointing(x) /\ mimepost'[x] = IF x = e THEN Nil ELSE mimepost[x]
    BY <1>1, <1>2 DEF Ownership, TypeOK
  <2> QED BY <2>1, <1>2, <1>4 DEF Pointing, Open
<1>8. Counted'
  BY <1>1, <1>2, SameCounts
<1> QED BY <1>1, <1>2, <1>4, <1>5, <1>6, <1>7, <1>8 DEF IInv, Ownership

\* setOpt('SHARE', share) and setOpt('SHARE', null) keep the invariant.
LEMMA ShareOptionKeeps ==
  ASSUME IInv, NEW e \in Easies, UnsetShare(e) \/ \E s \in Shares : SetShare(e, s)
  PROVE  IInv'
<1>1. TypeOK /\ Ownership /\ Counted
  BY DEF IInv
<1>2. PICK s \in Shares \cup {Nil} :
        /\ Open(e) /\ share' = [share EXCEPT ![e] = s] /\ (s # Nil => shareState[s] = "open")
        /\ UNCHANGED <<easy, toFree, held, freed, twice, slist, mimepost, mime, shareState,
                       easyCount, shareCount, aborted>>
  <2>1. CASE UnsetShare(e)
    BY <2>1 DEF UnsetShare, memory
  <2>2. CASE \E s \in Shares : SetShare(e, s)
    BY <2>2 DEF SetShare, memory
  <2> QED BY <2>1, <2>2
<1>3. TypeOK'
  BY <1>1, <1>2 DEF TypeOK, Open
<1>4. (\A d \in Data : Owned(d)') /\ (\A m \in Mimes : Placed(m)')
  BY <1>1, <1>2 DEF Ownership, Owned, Placed, Open
<1>5. \A x \in Easies : Pointing(x)'
  BY <1>1, <1>2 DEF Ownership, Pointing, Open, TypeOK
<1>6. Counted'
  BY <1>1, <1>2, SameCounts
<1> QED BY <1>1, <1>2, <1>3, <1>4, <1>5, <1>6 DEF IInv, Ownership

----------------------------------------------------------------------------
(* The operations of a CurlMime and of a Share *)

\* new CurlMime() keeps the invariant.
LEMMA NewMimeKeeps ==
  ASSUME IInv, NEW m \in Mimes, NEW e \in Easies, NewMime(m, e)
  PROVE  IInv'
<1>1. TypeOK /\ Ownership /\ Counted
  BY DEF IInv
<1>2. /\ mime[m].state = "new" /\ mime' = [mime EXCEPT ![m].state = "open"]
      /\ UNCHANGED <<easy, toFree, held, freed, twice, slist, mimepost, share, shareState,
                     easyCount, shareCount, aborted>>
  BY DEF NewMime, memory, options
<1>3. /\ mime' \in [Mimes -> [state : {"new", "open", "given"},
                              parent : Easies \cup Mimes \cup {Nil}]]
      /\ \A x \in Mimes : /\ mime'[x].parent = mime[x].parent
                          /\ mime'[x].state = IF x = m THEN "open" ELSE mime[x].state
  BY <1>1, <1>2 DEF TypeOK
<1>4. TypeOK'
  BY <1>1, <1>2, <1>3 DEF TypeOK, Open
<1>5. (\A d \in Data : Owned(d)') /\ (\A x \in Mimes : Placed(x)')
  BY <1>1, <1>2, <1>3 DEF Ownership, Owned, Placed, Open
<1>6. ASSUME NEW x \in Easies
      PROVE  Pointing(x)'
  <2>1. Pointing(x) /\ mimepost[x] \in Mimes \cup {Nil}
    BY <1>1 DEF Ownership, TypeOK
  <2> QED BY <2>1, <1>2, <1>3 DEF Pointing, Open
<1>7. Counted'
  BY <1>1, <1>2, SameCounts
<1> QED BY <1>1, <1>2, <1>4, <1>5, <1>6, <1>7 DEF IInv, Ownership

\* setSubparts() keeps the invariant, when the caller did not give the
\* structure away before.
LEMMA SetSubpartsKeeps ==
  ASSUME Disciplined, IInv, NEW m \in Mimes, NEW x \in Mimes, SetSubparts(m, x)
  PROVE  IInv'
<1>1. TypeOK /\ Ownership /\ Counted
  BY DEF IInv
<1>2. /\ m \notin freed /\ x \notin freed /\ mime[x].parent = Nil /\ m # x
      /\ \A p \in ToFrees : held[p][x] = 0
  <2>1. /\ m \notin freed /\ x \notin freed /\ mime[x].parent = Nil /\ ~Given(x)
        /\ m \notin Below(x)
    BY DEF SetSubparts, Given
  <2>2. x \in Data
    BY DEF Data
  <2>3. \A p \in ToFrees : held[p][x] \in Nat
    BY <2>2, <1>1 DEF TypeOK
  <2>4. x \in Below(x)
    BY <1>1, BelowFacts
  <2> QED BY <2>1, <2>3, <2>4 DEF Given
<1>3. /\ mime' = [mime EXCEPT ![x].parent = m, ![x].state = "given"]
      /\ UNCHANGED <<easy, toFree, held, freed, twice, slist, mimepost, share, shareState,
                     easyCount, shareCount, aborted>>
  BY DEF SetSubparts, memory, options
<1>4. /\ mime' \in [Mimes -> [state : {"new", "open", "given"},
                              parent : Easies \cup Mimes \cup {Nil}]]
      /\ \A y \in Mimes : /\ mime'[y].parent = IF y = x THEN m ELSE mime[y].parent
                          /\ mime'[y].state = IF y = x THEN "given" ELSE mime[y].state
  <2>1. mime \in [Mimes -> [state : {"new", "open", "given"},
                            parent : Easies \cup Mimes \cup {Nil}]]
    BY <1>1 DEF TypeOK
  <2>2. DOMAIN mime' = Mimes /\ \A y \in Mimes \ {x} : mime'[y] = mime[y]
    BY <2>1, <1>3
  <2>3. mime'[x] = [[mime[x] EXCEPT !.parent = m] EXCEPT !.state = "given"]
    BY <2>1, <1>3
  <2>4. mime'[x] = [state |-> "given", parent |-> m]
    <3>1. mime[x] \in [state : {"new", "open", "given"}, parent : Easies \cup Mimes \cup {Nil}]
      BY <2>1
    <3> QED BY <3>1, <2>3
  <2>5. mime' = [y \in Mimes |-> mime'[y]]
    BY <2>1, <1>3
  <2> QED BY <2>1, <2>2, <2>4, <2>5
<1>5. TypeOK'
  BY <1>1, <1>3, <1>4 DEF TypeOK, Open
<1>6. \A d \in Data : Owned(d)'
  BY <1>1, <1>3 DEF Ownership, Owned, Open
<1>7. ASSUME NEW y \in Mimes
      PROVE  Placed(y)'
  <2>1. CASE y = x
    BY <2>1, <1>2, <1>3, <1>4, KindsDiffer DEF Placed
  <2>2. CASE y # x
    BY <2>2, <1>1, <1>3, <1>4 DEF Ownership, Placed
  <2> QED BY <2>1, <2>2
<1>8. ASSUME NEW e \in Easies
      PROVE  Pointing(e)'
  <2>1. Pointing(e) /\ mimepost[e] \in Mimes \cup {Nil}
    BY <1>1 DEF Ownership, TypeOK
  <2>2. mimepost[e] # Nil => mimepost[e] # x
    BY <2>1, <1>2, KindsDiffer DEF Pointing
  <2> QED BY <2>1, <2>2, <1>3, <1>4 DEF Pointing, Open
<1>9. Counted'
  BY <1>1, <1>3, SameCounts
<1> QED BY <1>1, <1>3, <1>5, <1>6, <1>7, <1>8, <1>9 DEF IInv, Ownership

\* setSubparts(null) keeps the invariant: what was below the part is freed, and
\* nothing else points to it.
LEMMA UnsetSubpartsKeeps ==
  ASSUME Disciplined, IInv, NEW m \in Mimes, NEW x \in Mimes, UnsetSubparts(m, x)
  PROVE  IInv'
<1> DEFINE G == Below(x)
<1>1. TypeOK /\ Ownership /\ Counted
  BY DEF IInv
<1>2. /\ m \notin freed /\ mime[x].parent = m
      /\ freed' = freed \cup G /\ twice' = twice \cup (G \cap freed)
      /\ mime' = [y \in Mimes |-> IF y \in G THEN [mime[y] EXCEPT !.parent = Nil] ELSE mime[y]]
      /\ UNCHANGED <<easy, toFree, held, slist, mimepost, share, shareState, easyCount,
                     shareCount, aborted>>
  BY DEF UnsetSubparts, options
<1>3. /\ G \subseteq Mimes /\ \A y \in G : mime[y].parent \in Mimes
      /\ \A y \in Mimes : mime[y].parent \in G => y \in G
  BY <1>1, <1>2, BelowFacts
<1> HIDE DEF G
<1>4. \A y \in G : y \notin freed /\ \A p \in ToFrees : held[p][y] = 0
  BY <1>1, <1>3 DEF Ownership, Placed
<1>5. G \in SUBSET Data /\ FreedWhole(G)
  BY <1>1, <1>2, <1>3, <1>4 DEF FreedWhole, Ownership, Data
<1>6. /\ freed' \subseteq Data /\ twice' = {}
      /\ mime' \in [Mimes -> [state : {"new", "open", "given"},
                              parent : Easies \cup Mimes \cup {Nil}]]
      /\ \A y \in Mimes : /\ mime'[y].state = mime[y].state
                          /\ mime'[y].parent = IF y \in G THEN Nil ELSE mime[y].parent
  BY <1>1, <1>5, FreedMimes
<1>7. TypeOK'
  BY <1>1, <1>2, <1>6 DEF TypeOK, Open
<1>8. ASSUME NEW d \in Data
      PROVE  Owned(d)'
  <2>1. Owned(d)
    BY <1>1 DEF Ownership
  <2> QED BY <2>1, <1>2, <1>4 DEF Owned, Open
<1>9. ASSUME NEW y \in Mimes
      PROVE  Placed(y)'
  <2>1. Placed(y)
    BY <1>1 DEF Ownership
  <2>2. CASE y \in G
    BY <2>2, <1>2, <1>6, KindsDiffer DEF Placed
  <2>3. CASE y \notin G
    <3>1. mime'[y].parent = mime[y].parent /\ mime[y].parent \notin G
      BY <2>3, <1>3, <1>6
    <3> QED BY <2>1, <2>3, <3>1, <1>2, <1>6 DEF Placed
  <2> QED BY <2>2, <2>3
<1>10. ASSUME NEW e \in Easies
       PROVE  Pointing(e)'
  <2>1. Pointing(e) /\ mimepost[e] \in Mimes \cup {Nil}
    BY <1>1 DEF Ownership, TypeOK
  <2>2. mimepost[e] # Nil => mimepost[e] \notin G
    BY <2>1, <1>3, KindsDiffer DEF Pointing
  <2> QED BY <2>1, <2>2, <1>2, <1>6 DEF Pointing, Open
<1>11. Counted'
  BY <1>1, <1>2, SameCounts
<1> QED BY <1>6, <1>7, <1>8, <1>9, <1>10, <1>11 DEF IInv, Ownership

\* An operation of a Share leaves memory and handles alone.
LEMMA SharesOnly ==
  ASSUME TypeOK, Ownership,
         UNCHANGED <<easy, toFree, held, freed, twice, slist, mimepost, share, mime>>,
         \A s \in Shares : shareState[s] = "open" =>
           shareState'[s] = "open" \/ \A e \in Easies : share[e] # s
  PROVE  Ownership'
<1>1. (\A d \in Data : Owned(d)') /\ (\A m \in Mimes : Placed(m)') /\ twice' = {}
  BY DEF Ownership, Owned, Placed, Open
<1>2. \A e \in Easies : Pointing(e)'
  BY DEF Ownership, Pointing, Open, TypeOK
<1> QED BY <1>1, <1>2 DEF Ownership

\* new Share() keeps the invariant.
LEMMA NewShareKeeps ==
  ASSUME IInv, NEW s \in Shares, NewShare(s)
  PROVE  IInv'
<1>1. TypeOK /\ Ownership /\ Counted
  BY DEF IInv
<1>2. /\ shareState[s] = "new" /\ shareState' = [shareState EXCEPT ![s] = "open"]
      /\ shareCount' = shareCount + 1
      /\ UNCHANGED <<easy, toFree, held, freed, twice, slist, mimepost, share, mime,
                     easyCount, aborted>>
  BY DEF NewShare, memory, options
<1>3. TypeOK'
  BY <1>1, <1>2 DEF TypeOK, Open
<1>4. Ownership'
  BY <1>1, <1>2, SharesOnly DEF TypeOK
<1>5. OpenShares' = OpenShares \cup {s} /\ s \notin OpenShares /\ OpenEasies' = OpenEasies
  BY <1>1, <1>2 DEF OpenEasies, OpenShares, Open, TypeOK
<1>6. Counted'
  <2>1. /\ IsFiniteSet(OpenEasies) /\ easyCount = Cardinality(OpenEasies)
        /\ IsFiniteSet(OpenShares) /\ shareCount = Cardinality(OpenShares)
    BY <1>1 DEF Counted, CountsOpen, OpenEasies, OpenShares
  <2>2. IsFiniteSet(OpenShares') /\ Cardinality(OpenShares') = Cardinality(OpenShares) + 1
    BY <2>1, <1>5, FS_AddElement
  <2> QED BY <2>1, <2>2, <1>2, <1>5 DEF Counted, CountsOpen, OpenEasies, OpenShares
<1> QED BY <1>3, <1>4, <1>6 DEF IInv

\* close() of a Share keeps the invariant: a share in use stays.
LEMMA CloseShareKeeps ==
  ASSUME IInv, NEW s \in Shares, CloseShare(s)
  PROVE  IInv'
<1>1. TypeOK /\ Ownership /\ Counted
  BY DEF IInv
<1>2. /\ shareState[s] = "open"
      /\ shareState' = [shareState EXCEPT ![s] = IF InUse(s) THEN @ ELSE "closed"]
      /\ shareCount' = IF InUse(s) THEN shareCount ELSE shareCount - 1
      /\ UNCHANGED <<easy, toFree, held, freed, twice, slist, mimepost, share, mime, easyCount>>
  BY DEF CloseShare, memory, options
<1>3. aborted' \in BOOLEAN
  BY DEF CloseShare, InUse
<1>4. TypeOK'
  BY <1>1, <1>2, <1>3 DEF TypeOK, Open
<1>5. CASE InUse(s)
  <2>1. shareState' = shareState /\ shareCount' = shareCount
    BY <1>1, <1>2, <1>5 DEF TypeOK
  <2> QED BY <1>1, <1>2, <1>4, <2>1, SharesOnly, SameCounts DEF IInv
<1>6. CASE ~InUse(s)
  <2>1. shareState' = [shareState EXCEPT ![s] = "closed"] /\ shareCount' = shareCount - 1
    BY <1>2, <1>6
  <2>2. Ownership'
    BY <1>1, <1>2, <1>6, <2>1, SharesOnly DEF TypeOK, InUse
  <2>3. OpenShares' = OpenShares \ {s} /\ s \in OpenShares /\ OpenEasies' = OpenEasies
    BY <1>1, <1>2, <2>1 DEF OpenEasies, OpenShares, Open, TypeOK
  <2>4. /\ IsFiniteSet(OpenEasies) /\ easyCount = Cardinality(OpenEasies)
        /\ IsFiniteSet(OpenShares) /\ shareCount = Cardinality(OpenShares)
    BY <1>1 DEF Counted, CountsOpen, OpenEasies, OpenShares
  <2>5. IsFiniteSet(OpenShares') /\ Cardinality(OpenShares') = Cardinality(OpenShares) - 1
    BY <2>3, <2>4, FS_RemoveElement
  <2>6. Counted'
    BY <2>1, <2>3, <2>4, <2>5, <1>2 DEF Counted, CountsOpen, OpenEasies, OpenShares
  <2> QED BY <1>4, <2>2, <2>6 DEF IInv
<1> QED BY <1>5, <1>6

----------------------------------------------------------------------------
(* The invariant *)

\* The initial states satisfy the invariant.
LEMMA Initially == Init => IInv
<1> SUFFICES ASSUME Init PROVE IInv
  OBVIOUS
<1>1. TypeOK
  <2>1. held \in [ToFrees -> [Data -> Nat]]
    BY DEF Init, Empty
  <2>2. mime \in [Mimes -> [state : {"new", "open", "given"},
                            parent : Easies \cup Mimes \cup {Nil}]]
    BY DEF Init
  <2>3. /\ easy \in [Easies -> {"new", "open", "closed"}]
        /\ toFree \in [Easies -> ToFrees \cup {Nil}]
        /\ slist \in [Easies -> Lists \cup {Nil}] /\ mimepost \in [Easies -> Mimes \cup {Nil}]
        /\ share \in [Easies -> Shares \cup {Nil}]
        /\ shareState \in [Shares -> {"new", "open", "closed"}]
    BY DEF Init
  <2>4. \A e \in Easies : Open(e) <=> toFree[e] # Nil
    BY DEF Init, Open
  <2>5. easyCount \in Int /\ shareCount \in Int /\ freed = {} /\ twice = {}
    BY DEF Init
  <2>6. aborted \in BOOLEAN
    BY DEF Init
  <2> QED BY <2>1, <2>2, <2>3, <2>4, <2>5, <2>6 DEF TypeOK
<1>2. Ownership
  <2>1. \A d \in Data, p \in ToFrees : held[p][d] = 0
    BY DEF Init, Empty
  <2>2. \A m \in Mimes : mime[m].parent = Nil /\ mime[m].state = "new"
    BY DEF Init
  <2>3. \A m \in Mimes : Placed(m)
    BY <2>2, KindsDiffer DEF Placed
  <2>4. \A e \in Easies : Pointing(e)
    BY DEF Init, Pointing
  <2> QED BY <2>1, <2>3, <2>4 DEF Init, Ownership, Owned
<1>3. OpenEasies = {} /\ OpenShares = {}
  BY DEF Init, OpenEasies, OpenShares, Open
<1>4. Counted
  BY <1>3, FS_EmptySet DEF Init, Counted, CountsOpen, OpenEasies, OpenShares
<1> QED BY <1>1, <1>2, <1>4 DEF IInv

\* Every step keeps the invariant; one step of the proof per action.
LEMMA Preserved == Disciplined /\ IInv /\ [Next]_vars => IInv'
<1> SUFFICES ASSUME Disciplined, IInv, [Next]_vars PROVE IInv'
  OBVIOUS
<1>1. ASSUME NEW e \in Easies, EasyStep(e)
      PROVE  IInv'
  BY <1>1, NewEasyKeeps, ResetKeeps, DupHandleKeeps, CloseKeeps DEF EasyStep
<1>2. ASSUME NEW e \in Easies, SetOpt(e)
      PROVE  IInv'
  BY <1>2, SetListKeeps, UnsetListKeeps, SetMimePostKeeps, UnsetMimePostKeeps, ShareOptionKeeps
     DEF SetOpt
<1>3. ASSUME NEW m \in Mimes, MimeStep(m)
      PROVE  IInv'
  BY <1>3, NewMimeKeeps, SetSubpartsKeeps, UnsetSubpartsKeeps DEF MimeStep
<1>4. ASSUME NEW s \in Shares, NewShare(s) \/ CloseShare(s)
      PROVE  IInv'
  BY <1>4, NewShareKeeps, CloseShareKeeps
<1>5. CASE UNCHANGED vars
  <2>1. UNCHANGED <<easy, toFree, held, freed, twice, slist, mimepost, share, mime, shareState,
                    easyCount, shareCount, aborted>>
    BY <1>5 DEF vars, memory, options
  <2>2. TypeOK'
    BY <2>1 DEF IInv, TypeOK, Open
  <2>3. Ownership'
    BY <2>1, SharesOnly DEF IInv
  <2>4. Counted'
    BY <2>1, SameCounts DEF IInv
  <2> QED BY <2>2, <2>3, <2>4 DEF IInv
<1> QED BY <1>1, <1>2, <1>3, <1>4, <1>5 DEF Next

\* The strengthened invariant holds for every disciplined caller.
THEOREM Invariance == ASSUME Disciplined PROVE Spec => []IInv
<1>1. Init => IInv
  BY Initially
<1>2. IInv /\ [Next]_vars => IInv'
  BY Preserved
<1> QED BY <1>1, <1>2, PTL DEF Spec

\* However handles are duplicated, reset and closed, the lists, structures and
\* shares that an open handle's options point to are not freed.
THEOREM OptionsStayAlive == ASSUME Disciplined PROVE Spec => []OptionsAlive
<1>1. IInv => OptionsAlive
  <2> SUFFICES ASSUME IInv, NEW e \in Easies, Open(e)
               PROVE  /\ slist[e] \notin freed
                      /\ mimepost[e] # Nil => Family(mimepost[e]) \cap freed = {}
                      /\ share[e] # Nil => shareState[share[e]] = "open"
    BY DEF OptionsAlive, IInv
  <2>1. TypeOK /\ (\A d \in Data : Owned(d)) /\ (\A m \in Mimes : Placed(m)) /\ Pointing(e)
    BY DEF IInv, Ownership
  <2>2. /\ toFree[e] \in ToFrees /\ freed \subseteq Data
        /\ slist[e] \in Lists \cup {Nil} /\ mimepost[e] \in Mimes \cup {Nil}
    BY <2>1 DEF TypeOK
  <2>3. slist[e] \notin freed
    BY <2>1, <2>2, KindsDiffer DEF Pointing, Owned, Data
  <2>4. ASSUME mimepost[e] # Nil
        PROVE  Family(mimepost[e]) \cap freed = {}
    <3>1. PICK m \in Mimes : m = mimepost[e]
      BY <2>2, <2>4
    <3>2. m \notin freed
      BY <2>1, <2>2, <2>4, <3>1 DEF Pointing, Owned, Data
    <3>3. \A x \in Below(m) : x \in Mimes /\ (x = m \/ mime[x].parent \in Mimes)
      BY <2>1, BelowFacts
    <3>4. Below(m) \cap freed = {}
      BY <2>1, <3>2, <3>3 DEF Placed
    <3> QED BY <3>1, <3>4 DEF Family
  <2> QED BY <2>1, <2>3, <2>4 DEF Pointing
<1> QED BY <1>1, Invariance, PTL

\* No list and no structure is freed a second time.
THEOREM NothingFreedTwice == ASSUME Disciplined PROVE Spec => []FreedOnce
<1>1. IInv => FreedOnce
  BY DEF IInv, Ownership, FreedOnce
<1> QED BY <1>1, Invariance, PTL

\* What libcurl was given has an owner until it is freed, an option points only
\* to what the handle's own ToFree holds, and getCount() counts the open objects.
THEOREM EverythingHasAnOwner == ASSUME Disciplined PROVE Spec => []NothingLeaks
<1>1. IInv => NothingLeaks
  BY DEF IInv, Ownership, Counted, Owned, Placed, Pointing, NothingLeaks
<1> QED BY <1>1, Invariance, PTL

=============================================================================
