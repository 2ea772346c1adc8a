-------------------------- MODULE ThreadTableProof --------------------------
(* The chains of ThreadTable stay sound under every interleaving. *)
EXTENDS ThreadTable, TLAPS

\* The chains have an order: pos numbers the cells so that each link goes up and
\* skips nothing.  TableInv alone is not inductive: that ts_thread_create finds an
\* existing record before it reaches the end needs it.
InBucket(c, b) == c = b \/ (c \in Page /\ Hash[tid[c]] = b)

Ordered(pos) ==
    /\ \A c \in Chain : link[c] # Null => pos[c] < pos[link[c]]
    /\ \A p \in Linked : 0 < pos[p]
    /\ \A b \in Bucket : pos[b] = 0
    /\ \A p, q \in Linked : Hash[tid[p]] = Hash[tid[q]] /\ pos[p] = pos[q] => p = q
    /\ \A c \in Chain, p \in Linked :
          InBucket(c, Hash[tid[p]]) /\ pos[c] < pos[p]
             => link[c] # Null /\ pos[link[c]] <= pos[p]

\* A search of the BSP has not passed the record it searches.
Searching(pos) ==
    bpc = "find" => \A p \in Linked : tid[p] = barg => pos[tindex] < pos[p]

\* Nor has a walk of an AP, if no other thread of the bucket is destroyed.
Walking(pos) ==
    \A a \in Ap : apc[a] # "idle" /\ Undisturbed(look[a]) =>
        /\ look[a] \in Thread /\ cur[a] \in Linked /\ apc[a] \notin {"missed", "lost"}
        /\ Hash[tid[cur[a]]] = Hash[look[a]]
        /\ \E p \in Linked : tid[p] = look[a] /\ pos[cur[a]] <= pos[p]
        /\ apc[a] = "found" => tid[cur[a]] = look[a]

Rank(pos) == Ordered(pos) /\ Searching(pos) /\ Walking(pos)

Strong == TableInv /\ \E pos \in [Cell -> Nat] : Rank(pos)

LEMMA InitTable == Init => Strong
<1> SUFFICES ASSUME Init PROVE Strong
  OBVIOUS
<1> USE TableAssumption DEF Init, Cell
<1>1. TypeOK
  BY DEF TypeOK
<1>2. BspSound
  BY DEF BspSound
<1>3. ChainsSound
  BY DEF ChainsSound, Chain, Linked
<1> DEFINE pos == [c \in Cell |-> 0]
<1>4. pos \in [Cell -> Nat] /\ Rank(pos)
  BY DEF Rank, Ordered, Searching, Walking, Chain, Linked
<1> QED
  BY <1>1, <1>2, <1>3, <1>4 DEF TableInv, Strong

\* The APs only read: the table, and the numbering, stay.
LEMMA ApTable ==
    ASSUME Strong, NEW a \in Ap,
           (\E t \in Thread : Get(a, t)) \/ Turn(a) \/ Fault(a) \/ Miss(a) \/ Publish(a)
    PROVE  Strong'
<1> USE TableAssumption DEF TableInv, TypeOK, Cell, Chain, Linked
<1>1. PICK pos \in [Cell -> Nat] : Rank(pos)
  BY DEF Strong
<1>2. TableInv
  BY DEF Strong
<1>3. UNCHANGED <<link, tid, used, bspVars>>
  BY DEF Get, Turn, Fault, Miss, Publish
<1>4. TypeOK'
  <2>1. CASE \E t \in Thread : Get(a, t)
    BY <1>2, <1>3, <2>1 DEF Get, bspVars
  <2>2. CASE Turn(a)
    BY <1>2, <1>3, <2>2 DEF Turn, bspVars
  <2>3. CASE Fault(a) \/ Miss(a) \/ Publish(a)
    BY <1>2, <1>3, <2>3 DEF Fault, Miss, Publish, bspVars
  <2> QED BY <2>1, <2>2, <2>3
<1>5. ChainsSound'
  BY <1>2, <1>3 DEF ChainsSound, bspVars
<1>6. BspSound'
  <2>1. \A b \in Ap : look'[b] \in {look[b], NoThread} \/ look'[b] # barg
    BY <1>2 DEF Get, Turn, Fault, Miss, Publish
  <2> QED BY <1>2, <1>3, <2>1 DEF BspSound, bspVars
<1>7. Ordered(pos)' /\ Searching(pos)'
  BY <1>1, <1>3 DEF Rank, Ordered, Searching, InBucket, bspVars
<1>8. Walking(pos)'
  <2>1. Walking(pos)
    BY <1>1 DEF Rank
  <2>2. CASE \E t \in Thread : Get(a, t)
    <3>1. PICK t \in Thread : Get(a, t)
      BY <2>2
    <3>2. PICK p \in Linked : tid[p] = t
      <4>1. PICK c \in Bucket \cup used : link[c] \in used /\ tid[link[c]] = t
        BY <3>1 DEF Get, Listed
      <4>2. t # barg
        BY <3>1 DEF Get
      <4>3. link[c] # bpage
        BY <1>2, <4>1, <4>2 DEF BspSound
      <4> QED BY <4>1, <4>3
    <3>3. link[Hash[t]] \in Linked /\ pos[link[Hash[t]]] <= pos[p]
      BY <1>1, <1>2, <3>2 DEF Rank, Ordered, InBucket, ChainsSound
    <3>4. Hash[tid[link[Hash[t]]]] = Hash[t]
      BY <1>2, <3>3 DEF ChainsSound
    <3> QED BY <1>2, <1>3, <2>1, <3>1, <3>2, <3>3, <3>4 DEF Get, Walking, bspVars
  <2>3. CASE Turn(a) /\ Undisturbed(look[a])
    <3>1. apc[a] = "walk" /\ cur[a] \in Linked /\ look[a] \in Thread
      BY <2>1, <2>3 DEF Turn, Walking
    <3>2. PICK p \in Linked : tid[p] = look[a] /\ pos[cur[a]] <= pos[p]
      BY <2>1, <2>3, <3>1 DEF Walking
    <3>3. Hash[tid[cur[a]]] = Hash[look[a]]
      BY <2>1, <2>3, <3>1 DEF Walking
    <3>4. CASE tid[cur[a]] = look[a]
      BY <1>2, <1>3, <2>1, <2>3, <3>1, <3>4 DEF Turn, Walking, bspVars
    <3>5. CASE tid[cur[a]] # look[a]
      <4>1. pos[cur[a]] # pos[p]
        <5>1. SUFFICES ASSUME pos[cur[a]] = pos[p] PROVE FALSE
          OBVIOUS
        <5>2. p # cur[a] /\ Hash[tid[p]] = Hash[tid[cur[a]]]
          BY <3>2, <3>3, <3>5
        <5> QED BY <1>1, <1>2, <3>1, <3>2, <5>1, <5>2 DEF Rank, Ordered
      <4>2. link[cur[a]] # Null /\ pos[link[cur[a]]] <= pos[p]
        <5>1. cur[a] \in Chain /\ cur[a] \in Page /\ p \in Page
          BY <1>2, <3>1, <3>2
        <5>2. pos[cur[a]] \in Nat /\ pos[p] \in Nat
          BY <1>1, <5>1
        <5>3. pos[cur[a]] < pos[p]
          BY <3>2, <4>1, <5>2
        <5>4. InBucket(cur[a], Hash[tid[p]])
          BY <3>2, <3>3, <5>1 DEF InBucket
        <5>5. Ordered(pos)
          BY <1>1 DEF Rank
        <5> QED BY <3>2, <5>1, <5>3, <5>4, <5>5 DEF Ordered
      <4>3. link[cur[a]] \in Linked /\ Hash[tid[link[cur[a]]]] = Hash[look[a]]
        BY <1>2, <3>1, <3>3, <4>2 DEF ChainsSound
      <4> QED BY <1>2, <1>3, <2>1, <2>3, <3>1, <3>2, <3>5, <4>2, <4>3 DEF Turn, Walking, bspVars
    <3> QED BY <3>4, <3>5
  <2>4. CASE Turn(a) /\ ~Undisturbed(look[a])
    BY <1>2, <1>3, <2>1, <2>4 DEF Turn, Walking, bspVars
  <2>5. CASE Miss(a)
    BY <1>2, <1>3, <2>1, <2>5 DEF Miss, Walking, bspVars
  <2>6. CASE Publish(a)
    BY <1>2, <1>3, <2>1, <2>6 DEF Publish, Walking, bspVars
  <2>7. CASE Fault(a)
    <3>1. ~Undisturbed(look[a])
      BY <1>2, <2>1, <2>7 DEF Fault, Walking
    <3> QED BY <1>2, <1>3, <2>1, <2>7, <3>1 DEF Fault, Walking, bspVars
  <2> QED BY <2>2, <2>3, <2>4, <2>5, <2>6, <2>7
<1> QED
  BY <1>4, <1>5, <1>6, <1>7, <1>8 DEF Strong, Rank

\* The steps of the BSP that leave the linked records and their links alone.
SameTable == /\ Linked' = Linked
             /\ \A c \in Chain : link'[c] = link[c]
             /\ \A p \in Linked : tid'[p] = tid[p]

LEMMA SameTableKeeps ==
    ASSUME TypeOK, NEW pos \in [Cell -> Nat], Ordered(pos), ChainsSound, SameTable, UNCHANGED apVars
    PROVE  ChainsSound' /\ Ordered(pos)' /\ (Walking(pos) => Walking(pos)')
<1> USE TableAssumption DEF TypeOK, Cell
<1>1. Linked \subseteq Page /\ Chain' = Chain /\ Linked \subseteq Chain /\ Bucket \subseteq Chain
  BY DEF SameTable, Chain, Linked
<1>2. \A c \in Chain : link'[c] = link[c] /\ link[c] \in Linked \cup {Null}
  BY DEF SameTable, ChainsSound
<1>3. \A p \in Linked : tid'[p] = tid[p]
  BY DEF SameTable
<1>4. Linked' = Linked
  BY DEF SameTable
<1>5. ChainsSound'
  BY <1>1, <1>2, <1>3, <1>4 DEF ChainsSound
<1>6. Ordered(pos)'
  <2>1. \A c \in Chain, b \in Bucket : InBucket(c, b)' <=> InBucket(c, b)
    BY <1>1, <1>3 DEF InBucket, Chain, Linked
  <2>2. \A p \in Linked : Hash[tid[p]] \in Bucket
    BY DEF ChainsSound
  <2> QED BY <1>1, <1>2, <1>3, <1>4, <2>1, <2>2 DEF Ordered
<1>7. Walking(pos) => Walking(pos)'
  BY <1>3, <1>4 DEF Walking, apVars
<1> QED
  BY <1>5, <1>6, <1>7

\* The steps that do not touch a chain.
LEMMA QuietTable ==
    ASSUME Strong,
           \/ \E t \in Thread : CreateAlloc(t) \/ DestroyStart(t)
           \/ FindNext \/ CreateFill \/ CreateDuplicate \/ DestroyFree \/ DestroyNone
    PROVE  Strong'
<1> USE TableAssumption DEF TableInv, TypeOK, Cell
<1>1. PICK pos \in [Cell -> Nat] : Rank(pos)
  BY DEF Strong
<1>2. TypeOK /\ BspSound /\ ChainsSound
  BY DEF Strong
<1>3. Ordered(pos)
  BY <1>1 DEF Rank
<1>4. UNCHANGED apVars
  BY DEF CreateAlloc, DestroyStart, FindNext, CreateFill, CreateDuplicate, DestroyFree,
         DestroyNone, apVars
<1>5. ASSUME TypeOK', BspSound', SameTable, Searching(pos)' PROVE Strong'
  <2>1. ChainsSound' /\ Ordered(pos)' /\ (Walking(pos) => Walking(pos)')
    BY <1>2, <1>3, <1>4, <1>5, SameTableKeeps
  <2>2. Rank(pos)'
    BY <1>1, <1>5, <2>1 DEF Rank
  <2> QED BY <1>5, <2>1, <2>2 DEF Strong
<1>6. CASE \E t \in Thread : CreateAlloc(t)
  <2>1. PICK t \in Thread, p \in Page \ used :
            /\ used' = used \cup {p} /\ bpage' = p
            /\ tid' = [tid EXCEPT ![p] = NoThread]
            /\ link' = [link EXCEPT ![p] = Null]
            /\ bop = "none" /\ bop' = "create" /\ bpc' = "fill" /\ barg' = t
            /\ UNCHANGED <<tindex, apVars>>
    BY <1>6 DEF CreateAlloc
  <2>2. bpage = Null /\ bpc = "idle"
    BY <1>2, <2>1 DEF BspSound
  <2>3. TypeOK'
    BY <1>2, <2>1 DEF apVars
  <2>4. BspSound'
    BY <1>2, <2>1, <2>2 DEF BspSound, apVars
  <2>5. SameTable
    BY <1>2, <2>1, <2>2 DEF SameTable, Linked, Chain
  <2> QED BY <1>5, <2>1, <2>3, <2>4, <2>5 DEF Searching
<1>7. CASE \E t \in Thread : DestroyStart(t)
  <2>1. PICK t \in Thread : DestroyStart(t)
    BY <1>7
  <2>2. TypeOK'
    BY <1>2, <2>1 DEF DestroyStart, apVars
  <2>3. BspSound'
    BY <1>2, <2>1 DEF DestroyStart, BspSound, Chain, apVars
  <2>4. SameTable
    BY <2>1 DEF DestroyStart, SameTable, Linked
  <2>5. Searching(pos)'
    BY <1>2, <1>3, <2>1, <2>4 DEF DestroyStart, SameTable, Searching, Ordered
  <2> QED BY <1>5, <2>2, <2>3, <2>4, <2>5
<1>8. CASE FindNext
  <2>1. tindex \in Chain /\ link[tindex] \in Linked /\ link[tindex] # Null
    BY <1>2, <1>8 DEF FindNext, BspSound, ChainsSound
  <2>2. TypeOK'
    BY <1>2, <1>8, <2>1 DEF FindNext, Linked, apVars
  <2>3. SameTable
    BY <1>8 DEF FindNext, SameTable, Linked
  <2>4. Hash[tid[link[tindex]]] = Hash[barg]
    <3>1. CASE tindex \in Bucket
      BY <1>2, <1>8, <2>1, <3>1 DEF FindNext, BspSound, ChainsSound
    <3>2. CASE tindex \in Linked
      BY <1>2, <1>8, <2>1, <3>2 DEF FindNext, BspSound, ChainsSound, Linked
    <3> QED BY <2>1, <3>1, <3>2 DEF Chain
  <2>5. BspSound'
    <3>1. tindex' \in Chain' /\ tindex' \in Page /\ tindex' \notin Bucket
      BY <1>2, <1>8, <2>1 DEF FindNext, Chain, Linked
    <3> QED BY <1>2, <1>8, <2>4, <3>1 DEF FindNext, BspSound, apVars
  <2>6. ASSUME NEW p \in Linked, tid[p] = barg PROVE pos[link[tindex]] < pos[p]
    <3>1. pos[tindex] < pos[p]
      BY <1>1, <1>8, <2>6 DEF Rank, Searching, FindNext
    <3>2. InBucket(tindex, Hash[tid[p]])
      BY <1>2, <1>8, <2>1, <2>6 DEF InBucket, BspSound, FindNext, Chain
    <3>3. pos[link[tindex]] <= pos[p]
      BY <1>3, <2>1, <3>1, <3>2 DEF Ordered
    <3>4. link[tindex] # p
      BY <1>8, <2>6 DEF FindNext
    <3>5. pos[link[tindex]] # pos[p]
      BY <1>3, <2>1, <2>4, <2>6, <3>4 DEF Ordered
    <3>6. pos[link[tindex]] \in Nat /\ pos[p] \in Nat
      BY <1>1, <1>2, <2>1 DEF Linked
    <3> QED BY <3>3, <3>5, <3>6
  <2>7. Searching(pos)'
    BY <1>8, <2>3, <2>6 DEF Searching, SameTable, FindNext
  <2> QED BY <1>5, <2>2, <2>3, <2>5, <2>7
<1>9. CASE CreateFill
  <2>1. bop = "create" /\ bpage \in Page /\ barg \in Thread
    BY <1>2, <1>9 DEF CreateFill, BspSound
  <2>2. TypeOK'
    BY <1>2, <1>9, <2>1 DEF CreateFill, apVars
  <2>3. SameTable
    BY <1>2, <1>9, <2>1 DEF CreateFill, SameTable, Linked
  <2>4. BspSound'
    BY <1>2, <1>9, <2>1 DEF CreateFill, BspSound, Chain, apVars
  <2>5. Searching(pos)'
    BY <1>2, <1>3, <1>9, <2>1, <2>3 DEF CreateFill, Searching, Ordered, SameTable
  <2> QED BY <1>5, <2>2, <2>3, <2>4, <2>5
<1>10. CASE CreateDuplicate
  <2>1. TypeOK'
    BY <1>2, <1>10 DEF CreateDuplicate, Idle, apVars
  <2>2. SameTable
    BY <1>2, <1>10 DEF CreateDuplicate, Idle, SameTable, Linked
  <2>3. BspSound'
    BY <1>2, <1>10 DEF CreateDuplicate, Idle, BspSound, apVars
  <2> QED BY <1>5, <1>10, <2>1, <2>2, <2>3 DEF Searching, CreateDuplicate, Idle
<1>11. CASE DestroyFree
  <2>1. TypeOK'
    BY <1>2, <1>11 DEF DestroyFree, Idle, apVars
  <2>2. SameTable
    BY <1>2, <1>11 DEF DestroyFree, Idle, SameTable, Linked
  <2>3. BspSound'
    BY <1>2, <1>11 DEF DestroyFree, Idle, BspSound, apVars
  <2> QED BY <1>5, <1>11, <2>1, <2>2, <2>3 DEF Searching, DestroyFree, Idle
<1>12. CASE DestroyNone
  <2>1. bpage = Null
    BY <1>2, <1>12 DEF DestroyNone, BspSound
  <2>2. TypeOK'
    BY <1>2, <1>12 DEF DestroyNone, Idle, apVars
  <2>3. SameTable
    BY <1>2, <1>12, <2>1 DEF DestroyNone, Idle, SameTable, Linked
  <2>4. BspSound'
    BY <1>2, <1>12 DEF DestroyNone, Idle, BspSound, apVars
  <2> QED BY <1>5, <1>12, <2>2, <2>3, <2>4 DEF Searching, DestroyNone, Idle
<1> QED
  BY <1>6, <1>7, <1>8, <1>9, <1>10, <1>11, <1>12

\* A new record goes to the end of its chain, and is numbered after the last one.
LEMMA LinkTable == Strong /\ CreateLink => Strong'
<1> SUFFICES ASSUME Strong, CreateLink PROVE Strong'
  OBVIOUS
<1> USE TableAssumption DEF Cell
<1>1. PICK pos \in [Cell -> Nat] : Rank(pos)
  BY DEF Strong
<1>2. TypeOK /\ BspSound /\ ChainsSound
  BY DEF Strong, TableInv
<1>3. Ordered(pos) /\ Searching(pos)
  BY <1>1 DEF Rank
<1> DEFINE n == bpage
<1>4. /\ n \in Page /\ n \in used /\ n \notin Linked /\ link[n] = Null /\ tid[n] = barg
      /\ barg \in Thread /\ tindex \in Chain /\ link[tindex] = Null /\ tindex # n
      /\ InBucket(tindex, Hash[barg])
  BY <1>2 DEF CreateLink, BspSound, TypeOK, Chain, Linked, InBucket
<1>5. /\ link' = [link EXCEPT ![tindex] = n] /\ link' \in [Cell -> Page \cup {Null}]
      /\ UNCHANGED <<tid, used, apVars>> /\ bpage' = Null /\ bpc' = "idle"
  BY <1>2, <1>4 DEF CreateLink, Idle, TypeOK, Chain, Linked
<1>6. Linked' = Linked \cup {n} /\ Chain' = Chain \cup {n} /\ Linked \subseteq Page
  BY <1>2, <1>4, <1>5 DEF Linked, Chain, TypeOK
<1>7. \A c \in Chain' : link'[c] = IF c = tindex THEN n ELSE link[c]
  BY <1>2, <1>4, <1>5, <1>6 DEF TypeOK, Chain, Linked
<1>8a. PICK pos2 \in [Cell -> Nat] :
            \A c \in Cell : pos2[c] = IF c = n THEN pos[tindex] + 1 ELSE pos[c]
  <2>1. pos[tindex] + 1 \in Nat /\ \A c \in Cell : pos[c] \in Nat
    BY <1>1, <1>2 DEF TypeOK
  <2> DEFINE f == [c \in Cell |-> IF c = n THEN pos[tindex] + 1 ELSE pos[c]]
  <2>2. f \in [Cell -> Nat]
    BY <2>1
  <2> QED BY <2>2
<1>8. \A c \in Cell : /\ pos[c] \in Nat /\ pos2[c] \in Nat
                      /\ pos2[c] = IF c = n THEN pos[tindex] + 1 ELSE pos[c]
  BY <1>1, <1>8a
<1>9. Chain' \subseteq Cell /\ tindex \in Cell
  BY <1>2, <1>4, <1>6 DEF Chain
<1>10. \A p \in Linked : Hash[tid[p]] = Hash[barg] => pos[p] <= pos[tindex]
  <2> SUFFICES ASSUME NEW p \in Linked, Hash[tid[p]] = Hash[barg], pos[tindex] < pos[p]
               PROVE FALSE
    BY <1>6, <1>8, <1>9
  <2> QED BY <1>3, <1>4 DEF Ordered
<1>11. \A p \in Linked : tid[p] # barg
  <2> SUFFICES ASSUME NEW p \in Linked, tid[p] = barg PROVE FALSE
    OBVIOUS
  <2>1. pos[tindex] < pos[p]
    BY <1>3 DEF Searching, CreateLink
  <2>2. pos[p] <= pos[tindex]
    BY <1>10
  <2> QED BY <1>6, <1>8, <1>9, <2>1, <2>2
<1>12. TypeOK'
  BY <1>2, <1>5 DEF TypeOK, CreateLink, Idle, apVars
<1>13. BspSound'
  BY <1>2 DEF CreateLink, Idle, BspSound, apVars
<1>14. ChainsSound'
  <2>1. \A c \in Chain' : link'[c] \in Linked' \cup {Null}
    BY <1>2, <1>4, <1>6, <1>7 DEF ChainsSound
  <2>2. \A p \in Linked' : tid'[p] \in Thread
    BY <1>2, <1>4, <1>5, <1>6 DEF ChainsSound
  <2>3. \A p \in Linked' : \E c \in Chain' : link'[c] = p
    <3>1. link'[tindex] = n
      BY <1>4, <1>6, <1>7
    <3>2. ASSUME NEW p \in Linked PROVE \E c \in Chain' : link'[c] = p
      BY <1>2, <1>4, <1>6, <1>7 DEF ChainsSound
    <3> QED BY <1>4, <1>6, <3>1, <3>2
  <2>4. \A p \in Linked' : \A c, d \in Chain' : link'[c] = p /\ link'[d] = p => c = d
    <3>1. \A c \in Chain' : link'[c] = n => c = tindex
      BY <1>2, <1>4, <1>6, <1>7 DEF ChainsSound
    <3>2. ASSUME NEW p \in Linked, NEW c \in Chain', NEW d \in Chain',
                 link'[c] = p, link'[d] = p
          PROVE c = d
      <4>1. p # n /\ p # Null
        BY <1>4, <1>6
      <4>2. c \in Chain /\ d \in Chain /\ link[c] = p /\ link[d] = p
        BY <1>4, <1>6, <1>7, <3>2, <4>1
      <4> QED BY <1>2, <4>2 DEF ChainsSound
    <3> QED BY <1>6, <3>1, <3>2
  <2>5. \A p, q \in Linked' : tid'[p] = tid'[q] => p = q
    BY <1>2, <1>4, <1>5, <1>6, <1>11 DEF ChainsSound
  <2>6. \A b \in Bucket : link'[b] # Null => Hash[tid'[link'[b]]] = b
    <3>1. tindex \in Bucket => tindex = Hash[barg]
      BY <1>4 DEF InBucket
    <3> QED BY <1>2, <1>4, <1>5, <1>6, <1>7, <3>1 DEF ChainsSound, Chain
  <2>7. \A p \in Linked' : link'[p] # Null => Hash[tid'[link'[p]]] = Hash[tid'[p]]
    <3>1. tindex \in Page => Hash[tid[tindex]] = Hash[barg]
      BY <1>4 DEF InBucket
    <3> QED BY <1>2, <1>4, <1>5, <1>6, <1>7, <3>1 DEF ChainsSound, Chain
  <2> QED BY <2>1, <2>2, <2>3, <2>4, <2>5, <2>6, <2>7 DEF ChainsSound
<1>15. Ordered(pos2)'
  <2>1. ASSUME NEW c \in Chain', link'[c] # Null PROVE pos2[c] < pos2[link'[c]]
    <3>1. CASE c = tindex
      BY <1>4, <1>7, <1>8, <1>9, <3>1
    <3>2. CASE c # tindex
      <4>1. c \in Chain /\ c # n /\ link'[c] = link[c] /\ link[c] \in Linked
        BY <1>2, <1>4, <1>6, <1>7, <2>1, <3>2 DEF ChainsSound
      <4> QED BY <1>3, <1>4, <1>6, <1>8, <1>9, <2>1, <4>1 DEF Ordered
    <3> QED BY <3>1, <3>2
  <2>2. \A p \in Linked' : 0 < pos2[p]
    BY <1>3, <1>4, <1>6, <1>8, <1>9 DEF Ordered
  <2>3. \A b \in Bucket : pos2[b] = 0
    BY <1>3, <1>4, <1>8 DEF Ordered
  <2>4. ASSUME NEW p \in Linked', NEW q \in Linked', Hash[tid'[p]] = Hash[tid'[q]],
               pos2[p] = pos2[q]
        PROVE p = q
    <3>1. p \in Cell /\ q \in Cell
      BY <1>4, <1>6
    <3>2. CASE p = n
      BY <1>4, <1>5, <1>6, <1>8, <1>9, <1>10, <2>4, <3>1, <3>2
    <3>3. CASE q = n
      BY <1>4, <1>5, <1>6, <1>8, <1>9, <1>10, <2>4, <3>1, <3>3
    <3>4. CASE p # n /\ q # n
      BY <1>3, <1>5, <1>6, <1>8, <2>4, <3>1, <3>4 DEF Ordered
    <3> QED BY <3>2, <3>3, <3>4
  <2>5. ASSUME NEW c \in Chain', NEW p \in Linked', InBucket(c, Hash[tid[p]])',
               pos2[c] < pos2[p]
        PROVE link'[c] # Null /\ pos2[link'[c]] <= pos2[p]
    <3>1. InBucket(c, Hash[tid[p]]) /\ c \in Cell /\ p \in Cell /\ p \in Page
      BY <1>4, <1>5, <1>6, <1>9, <2>5 DEF InBucket
    <3>2. c # n
      <4> SUFFICES ASSUME c = n PROVE FALSE
        OBVIOUS
      <4>1. Hash[tid[p]] = Hash[barg]
        <5>1. tid[p] \in Thread
          BY <1>2, <1>4, <1>6 DEF ChainsSound
        <5> QED BY <1>4, <3>1, <5>1 DEF InBucket
      <4>2. p # n /\ p \in Linked
        BY <1>6, <1>8, <2>5, <3>1
      <4>3. pos[p] <= pos[tindex]
        BY <1>10, <4>1, <4>2
      <4> QED BY <1>8, <1>9, <2>5, <3>1, <4>2, <4>3
    <3>3. c \in Chain /\ pos2[c] = pos[c]
      BY <1>6, <1>8, <3>1, <3>2
    <3>4. CASE c = tindex
      BY <1>4, <1>6, <1>7, <1>8, <1>9, <2>5, <3>1, <3>3, <3>4
    <3>5. CASE c # tindex /\ p # n
      <4>1. p \in Linked /\ pos[c] < pos[p]
        BY <1>6, <1>8, <2>5, <3>1, <3>3, <3>5
      <4>2. link[c] # Null /\ pos[link[c]] <= pos[p]
        BY <1>3, <3>1, <3>3, <4>1 DEF Ordered
      <4>3. link'[c] = link[c] /\ link[c] \in Linked
        BY <1>2, <1>6, <1>7, <3>3, <3>5, <4>2 DEF ChainsSound
      <4> QED BY <1>4, <1>6, <1>8, <3>1, <3>5, <4>2, <4>3
    <3>6. CASE c # tindex /\ p = n
      <4>1. InBucket(c, Hash[barg]) /\ pos[c] <= pos[tindex]
        BY <1>4, <1>8, <1>9, <2>5, <3>1, <3>3, <3>6
      <4>2. CASE tindex \in Bucket
        <5>1. pos[c] = 0 /\ tindex = Hash[barg]
          BY <1>3, <1>4, <1>8, <3>1, <4>1, <4>2 DEF Ordered, InBucket
        <5>2. c \notin Linked
          BY <1>3, <5>1 DEF Ordered
        <5>3. c = Hash[barg]
          BY <3>3, <4>1, <5>2 DEF InBucket, Chain
        <5> QED BY <3>6, <5>1, <5>3
      <4>3. CASE tindex \in Linked
        <5>1. Hash[tid[tindex]] = Hash[barg] /\ 0 < pos[tindex]
          BY <1>3, <1>4, <1>6, <4>3 DEF InBucket, Ordered
        <5>2. pos[c] # pos[tindex]
          <6>1. CASE c \in Bucket
            BY <1>3, <5>1, <6>1 DEF Ordered
          <6>2. CASE c \in Linked
            <7>1. Hash[tid[c]] = Hash[tid[tindex]]
              BY <1>4, <1>6, <4>1, <5>1, <6>2 DEF InBucket
            <7> QED BY <1>3, <3>6, <4>3, <6>2, <7>1 DEF Ordered
          <6> QED BY <3>3, <6>1, <6>2 DEF Chain
        <5>3. pos[c] < pos[tindex]
          BY <1>8, <1>9, <3>1, <4>1, <5>2
        <5>4. link[c] # Null /\ pos[link[c]] <= pos[tindex]
          BY <1>3, <3>3, <4>1, <4>3, <5>1, <5>3 DEF Ordered
        <5>5. link'[c] = link[c] /\ link[c] \in Linked
          BY <1>2, <1>6, <1>7, <3>3, <3>6, <5>4 DEF ChainsSound
        <5> QED BY <1>4, <1>6, <1>8, <1>9, <3>6, <5>4, <5>5
      <4> QED BY <1>4, <4>2, <4>3 DEF Chain
    <3> QED BY <3>4, <3>5, <3>6
  <2> QED BY <2>1, <2>2, <2>3, <2>4, <2>5 DEF Ordered
<1>16. Walking(pos2)'
  <2>1. \A p \in Linked : pos2[p] = pos[p]
    BY <1>4, <1>6, <1>8
  <2> QED BY <1>1, <1>5, <1>6, <2>1 DEF Rank, Walking, apVars
<1>18. Searching(pos2)'
  BY <1>5 DEF Searching
<1> QED
  BY <1>12, <1>13, <1>14, <1>15, <1>16, <1>8a, <1>18 DEF Strong, TableInv, Rank

\* A record leaves its chain, and those after it stay in it.
LEMMA UnlinkTable == Strong /\ DestroyUnlink => Strong'
<1> SUFFICES ASSUME Strong, DestroyUnlink PROVE Strong'
  OBVIOUS
<1> USE TableAssumption DEF Cell
<1>1. PICK pos \in [Cell -> Nat] : Rank(pos)
  BY DEF Strong
<1>2. TypeOK /\ BspSound /\ ChainsSound
  BY DEF Strong, TableInv
<1>3. Ordered(pos) /\ Walking(pos)
  BY <1>1 DEF Rank
<1> DEFINE g == link[tindex]
<1>4. /\ bpage = Null /\ tindex \in Chain /\ g \in Linked /\ g \in used /\ g \in Page
      /\ tid[g] = barg /\ barg \in Thread /\ barg \in Mortal /\ Linked = used
      /\ InBucket(tindex, Hash[barg]) /\ \A a \in Ap : look[a] # barg
  BY <1>2 DEF DestroyUnlink, BspSound, ChainsSound, TypeOK, Chain, Linked, InBucket
<1>5. /\ link' = [link EXCEPT ![tindex] = link[g]] /\ link' \in [Cell -> Page \cup {Null}]
      /\ UNCHANGED <<tid, used, apVars>> /\ bpage' = g /\ bpc' = "free"
  BY <1>2, <1>4 DEF DestroyUnlink, TypeOK, Chain
<1>6. Linked' = Linked \ {g} /\ Chain' = Chain \ {g} /\ Linked \subseteq Page
  BY <1>2, <1>4, <1>5 DEF Linked, Chain, TypeOK
<1>7. \A c \in Chain : link'[c] = IF c = tindex THEN link[g] ELSE link[c]
  BY <1>2, <1>4, <1>5 DEF TypeOK, Chain
<1>8. \A c \in Chain : c \in Cell /\ pos[c] \in Nat
  BY <1>1, <1>4, <1>6 DEF Chain
<1>9. pos[tindex] < pos[g] /\ tindex # g /\ g \in Chain /\ tindex \in Chain'
  <2>1. pos[tindex] < pos[g] /\ g \in Chain
    BY <1>3, <1>4, <1>6 DEF Ordered, Chain
  <2> QED BY <1>4, <1>6, <1>8, <2>1
<1>10. \A c \in Chain : link[c] = g => c = tindex
  BY <1>2, <1>4 DEF ChainsSound
<1>11. link[g] # g /\ link[g] \in Linked \cup {Null}
  <2>1. link[g] \in Linked \cup {Null}
    BY <1>2, <1>9 DEF ChainsSound
  <2> QED BY <1>9, <1>10, <2>1
<1>12. TypeOK'
  BY <1>2, <1>4, <1>5 DEF TypeOK, DestroyUnlink, apVars
<1>13. BspSound'
  BY <1>2, <1>4, <1>5 DEF DestroyUnlink, BspSound, apVars
<1>14. ChainsSound'
  <2>1. \A c \in Chain' : link'[c] \in Linked' \cup {Null}
    BY <1>2, <1>4, <1>6, <1>7, <1>10, <1>11 DEF ChainsSound
  <2>2. \A p \in Linked' : tid'[p] \in Thread
    BY <1>2, <1>5, <1>6 DEF ChainsSound
  <2>3. ASSUME NEW p \in Linked' PROVE \E c \in Chain' : link'[c] = p
    <3>1. PICK c \in Chain : link[c] = p
      BY <1>2, <1>6 DEF ChainsSound
    <3>2. CASE c = g
      BY <1>4, <1>7, <1>9, <3>1, <3>2
    <3>3. CASE c # g
      BY <1>6, <1>7, <3>1, <3>3
    <3> QED BY <3>2, <3>3
  <2>4. ASSUME NEW p \in Linked', NEW c \in Chain', NEW d \in Chain', link'[c] = p, link'[d] = p
        PROVE c = d
    <3>1. p \in Linked /\ p # g /\ c \in Chain /\ d \in Chain /\ c # g /\ d # g
      BY <1>6
    <3>2. \A x, y \in Chain : link[x] = p /\ link[y] = p => x = y
      BY <1>2, <3>1 DEF ChainsSound
    <3> QED BY <1>7, <1>9, <2>4, <3>1, <3>2
  <2>5. \A p, q \in Linked' : tid'[p] = tid'[q] => p = q
    BY <1>2, <1>5, <1>6 DEF ChainsSound
  <2>6. \A b \in Bucket : link'[b] # Null => Hash[tid'[link'[b]]] = b
    <3>1. tindex \in Bucket => tindex = Hash[barg]
      BY <1>4 DEF InBucket
    <3>2. link[g] # Null => Hash[tid[link[g]]] = Hash[barg]
      BY <1>2, <1>4 DEF ChainsSound
    <3> QED BY <1>2, <1>5, <1>7, <3>1, <3>2 DEF ChainsSound, Chain
  <2>7. \A p \in Linked' : link'[p] # Null => Hash[tid'[link'[p]]] = Hash[tid'[p]]
    <3>1. tindex \in Page => Hash[tid[tindex]] = Hash[barg]
      BY <1>4 DEF InBucket
    <3>2. link[g] # Null => Hash[tid[link[g]]] = Hash[barg]
      BY <1>2, <1>4 DEF ChainsSound
    <3> QED BY <1>2, <1>5, <1>6, <1>7, <3>1, <3>2 DEF ChainsSound, Chain
  <2> QED BY <2>1, <2>2, <2>3, <2>4, <2>5, <2>6, <2>7 DEF ChainsSound
<1>15. Ordered(pos)'
  <2>1. ASSUME NEW c \in Chain', link'[c] # Null PROVE pos[c] < pos[link'[c]]
    <3>1. CASE c = tindex
      <4>1. link'[c] = link[g] /\ link[g] \in Linked /\ link[g] \in Chain
        BY <1>4, <1>7, <1>11, <2>1, <3>1 DEF Chain
      <4>2. pos[g] < pos[link[g]]
        BY <1>3, <1>9, <2>1, <4>1 DEF Ordered
      <4> QED BY <1>8, <1>4, <1>9, <3>1, <4>1, <4>2
    <3>2. CASE c # tindex
      <4>1. c \in Chain
        BY <1>6
      <4>2. link'[c] = link[c]
        BY <1>7, <3>2, <4>1
      <4> QED BY <1>3, <2>1, <4>1, <4>2 DEF Ordered
    <3> QED BY <3>1, <3>2
  <2>2. ASSUME NEW c \in Chain', NEW p \in Linked', InBucket(c, Hash[tid[p]])', pos[c] < pos[p]
        PROVE link'[c] # Null /\ pos[link'[c]] <= pos[p]
    <3>1. InBucket(c, Hash[tid[p]]) /\ c \in Chain /\ p \in Linked /\ p \in Chain /\ p # g
      BY <1>5, <1>6, <2>2 DEF InBucket, Chain
    <3>2. link[c] # Null /\ pos[link[c]] <= pos[p]
      BY <1>3, <2>2, <3>1 DEF Ordered
    <3>3. CASE c = tindex
      <4>1. pos[g] <= pos[p] /\ link'[c] = link[g]
        BY <1>7, <3>1, <3>2, <3>3
      <4>2. Hash[tid[p]] = Hash[barg]
        <5>1. tid[p] \in Thread
          BY <1>2, <3>1 DEF ChainsSound
        <5> QED BY <1>4, <3>1, <3>3, <5>1 DEF InBucket
      <4>3. pos[g] # pos[p]
        BY <1>3, <1>4, <3>1, <4>2 DEF Ordered
      <4>4. pos[g] < pos[p]
        BY <1>8, <1>9, <3>1, <4>1, <4>3
      <4>5. InBucket(g, Hash[tid[p]])
        BY <1>4, <4>2 DEF InBucket
      <4> QED BY <1>3, <1>9, <3>1, <4>1, <4>4, <4>5 DEF Ordered
    <3>4. CASE c # tindex
      BY <1>7, <3>1, <3>2, <3>4
    <3> QED BY <3>3, <3>4
  <2>3. \A p \in Linked' : 0 < pos[p]
    BY <1>3, <1>6 DEF Ordered
  <2>4. \A p, q \in Linked' : Hash[tid'[p]] = Hash[tid'[q]] /\ pos[p] = pos[q] => p = q
    BY <1>3, <1>5, <1>6 DEF Ordered
  <2>5. \A b \in Bucket : pos[b] = 0
    BY <1>3 DEF Ordered
  <2> QED BY <2>1, <2>2, <2>3, <2>4, <2>5 DEF Ordered
<1>16. Walking(pos)'
  <2>1. ASSUME NEW a \in Ap, Undisturbed(look[a]) PROVE Hash[look[a]] # Hash[barg]
    BY <1>4, <2>1 DEF Undisturbed
  <2>2. \A p \in Linked : Hash[tid[p]] # Hash[barg] => p \in Linked'
    BY <1>4, <1>6
  <2> QED BY <1>3, <1>5, <2>1, <2>2 DEF Walking, apVars
<1>17. Searching(pos)'
  BY <1>5 DEF Searching
<1> QED
  BY <1>1, <1>12, <1>13, <1>14, <1>15, <1>16, <1>17 DEF Strong, TableInv, Rank

\* Every step of the system.
LEMMA NextTable == Strong /\ [Next]_vars => Strong'
<1> SUFFICES ASSUME Strong, [Next]_vars PROVE Strong'
  OBVIOUS
<1>1. CASE \E t \in Thread : CreateAlloc(t) \/ DestroyStart(t)
  BY <1>1, QuietTable
<1>2. CASE FindNext \/ CreateFill \/ CreateDuplicate \/ DestroyFree \/ DestroyNone
  BY <1>2, QuietTable
<1>3. CASE CreateLink
  BY <1>3, LinkTable
<1>4. CASE DestroyUnlink
  BY <1>4, UnlinkTable
<1>5. ASSUME NEW a \in Ap,
             (\E t \in Thread : Get(a, t)) \/ Turn(a) \/ Fault(a) \/ Miss(a) \/ Publish(a)
      PROVE  Strong'
  BY <1>5, ApTable
<1>6. CASE UNCHANGED vars
  BY <1>6 DEF Strong, TableInv, TypeOK, BspSound, ChainsSound, Rank, Ordered, Searching, Walking,
              InBucket, Chain, Linked, Cell, vars, bspVars, apVars
<1> QED
  BY <1>1, <1>2, <1>3, <1>4, <1>5, <1>6 DEF Next

\* The chains of ts_ht stay sound under every interleaving of ts_thread_create,
\* ts_thread_destroy and the lookups of the APs.
THEOREM TableCorrect == Spec => []TableInv
<1>1. Strong => TableInv
  BY DEF Strong
<1> QED
  BY InitTable, NextTable, <1>1, PTL DEF Spec

\* smp_ap_main's lookup without a lock finds its thread, if no other thread of its
\* bucket is destroyed.
THEOREM LookupSucceeds == Spec => []LookupFinds
<1>1. Strong => LookupFinds
  BY DEF Strong, Rank, Walking, LookupFinds
<1> QED
  BY InitTable, NextTable, <1>1, PTL DEF Spec

=============================================================================
