--------------------------- MODULE GeneratorProof ---------------------------
(***************************************************************************)
(* Proofs about Generator: the state machine of parse_list finds what the  *)
(* format of a list says, for lists of every length over any words, and    *)
(* the two files that main writes from it fit together.                    *)
(*                                                                         *)
(* The format is stated by positions in the text without carriage returns. *)
(* So the lemmas say what one more symbol changes at those positions: the  *)
(* lines before it stay (SameLines, SameListed, DoneStays), the line being *)
(* read goes on (BlankRead, WordRead, NewLineStarts), and its end adds     *)
(* what the line says (LineEnd).                                           *)
(***************************************************************************)
EXTENDS Generator, WellFoundedInduction, TLAPS

\* Induction over the naturals, for a set.
LEMMA Induction ==
    ASSUME NEW P, 0 \in P, \A n \in Nat : n \in P => n + 1 \in P
    PROVE  Nat \subseteq P
<1> DEFINE lt == OpToRel(<, Nat)
           T  == Nat \ P
<1>1. SUFFICES ASSUME T # {} PROVE FALSE
  OBVIOUS
<1>2. IsWellFoundedOn(lt, Nat)
  BY NatLessThanWellFounded
<1>3. PICK m \in T : \A n \in T : <<n, m>> \notin lt
  <2> HIDE DEF lt
  <2> QED BY <1>1, <1>2, WFMin
<1>4. lt = {p \in Nat \X Nat : p[1] < p[2]}
  BY DEF OpToRel
<1> HIDE DEF lt
<1>5. \A n \in T : ~(n < m)
  BY <1>3, <1>4
<1>6. m # 0 /\ m - 1 \in Nat /\ m - 1 \notin T
  BY <1>5
<1> QED
  BY <1>6

-----------------------------------------------------------------------------
(* The generator: sets of positions, and the text without carriage returns.          *)

LEMMA MinIs ==
    ASSUME NEW S, NEW m \in S, S \subseteq Nat, \A x \in S : m <= x
    PROVE  Min(S) = m
<1>1. Min(S) \in S /\ \A x \in S : Min(S) <= x
  BY DEF Min
<1>2. PICK x \in S : x = Min(S)
  BY <1>1
<1>3. x <= m /\ m <= x /\ x \in Nat /\ m \in Nat
  BY <1>1, <1>2
<1>4. x = m
  BY <1>3
<1> QED
  BY <1>2, <1>4

LEMMA MinIn ==
    ASSUME NEW S, S \subseteq Nat, S # {}
    PROVE  Min(S) \in S /\ \A x \in S : Min(S) <= x
<1> DEFINE lt == OpToRel(<, Nat)
<1>1. IsWellFoundedOn(lt, Nat)
  BY NatLessThanWellFounded
<1>2. PICK m \in S : \A n \in S : <<n, m>> \notin lt
  <2> HIDE DEF lt
  <2> QED BY <1>1, WFMin
<1>3. lt = {p \in Nat \X Nat : p[1] < p[2]}
  BY DEF OpToRel
<1>4. \A x \in S : m <= x
  <2> HIDE DEF lt
  <2>1. \A x \in S : x \in Nat /\ m \in Nat /\ ~(x < m)
    BY <1>2, <1>3
  <2> QED BY <2>1
<1> QED
  BY <1>4 DEF Min

\* The symbols that are left when the carriage returns are dropped.
Sym  == Word \cup {Blank, NewLine}
Char == Word \cup {Blank}

\* The body of the recursion of Clean, and its result, for any text.
Kept(s, f, n) ==
    IF n = 0 THEN <<>>
    ELSE IF s[n] = CarriageReturn THEN f[n - 1] ELSE Append(f[n - 1], s[n])
CleanOf(s) == (CHOOSE f : f = [n \in 0..Len(s) |-> Kept(s, f, n)])[Len(s)]

LEMMA CleanExists ==
    ASSUME NEW s, NEW n \in Nat
    PROVE  \E f : f = [i \in 0..n |-> Kept(s, f, i)]
<1> DEFINE P == {m \in Nat : \E f : f = [i \in 0..m |-> Kept(s, f, i)]}
<1>1. 0 \in P
  <2>1. [i \in 0..0 |-> <<>>] = [i \in 0..0 |-> Kept(s, [j \in 0..0 |-> <<>>], i)]
    BY DEF Kept
  <2> QED BY <2>1
<1>2. ASSUME NEW m \in Nat, m \in P PROVE m + 1 \in P
  <2>1. PICK f : f = [i \in 0..m |-> Kept(s, f, i)]
    BY <1>2
  <2> DEFINE g == [i \in 0..(m + 1) |-> IF i = m + 1 THEN Kept(s, f, m + 1) ELSE f[i]]
  <2>2. \A i \in 0..m : g[i] = f[i] /\ f[i] = Kept(s, f, i)
    BY <2>1
  <2>3. ASSUME NEW i \in 0..(m + 1) PROVE g[i] = Kept(s, g, i)
    <3>1. i # 0 => i - 1 \in 0..m /\ g[i - 1] = f[i - 1]
      BY <2>2
    <3>2. Kept(s, g, i) = Kept(s, f, i)
      BY <3>1 DEF Kept
    <3>3. i # m + 1 => i \in 0..m
      OBVIOUS
    <3> QED BY <2>2, <3>2, <3>3
  <2>4. g = [i \in 0..(m + 1) |-> Kept(s, g, i)]
    <3>1. g = [i \in 0..(m + 1) |-> g[i]]
      OBVIOUS
    <3> QED BY <2>3, <3>1
  <2>5. \E h : h = [i \in 0..(m + 1) |-> Kept(s, h, i)]
    <3> HIDE DEF g
    <3> QED BY <2>4
  <2> QED BY <2>5
<1>3. Nat \subseteq P
  <2> HIDE DEF P
  <2> QED BY <1>1, <1>2, Induction
<1> QED
  BY <1>3

LEMMA CleanDef ==
    ASSUME NEW s, Len(s) \in Nat
    PROVE  \E f : /\ CleanOf(s) = f[Len(s)]
                  /\ \A i \in 0..Len(s) : f[i] = Kept(s, f, i)
<1> DEFINE Q(h) == h = [i \in 0..Len(s) |-> Kept(s, h, i)]
           f == CHOOSE h : Q(h)
<1>1. \E h : Q(h)
  BY CleanExists
<1>2. Q(f)
  <2> HIDE DEF Q
  <2> QED BY <1>1
<1>3. CleanOf(s) = f[Len(s)]
  BY DEF CleanOf
<1>4. \A i \in 0..Len(s) : f[i] = Kept(s, f, i)
  <2> HIDE DEF f
  <2> QED BY <1>2
<1> QED
  BY <1>3, <1>4

LEMMA CleanStep ==
    ASSUME NEW s \in Seq(Symbol), NEW c \in Symbol
    PROVE  CleanOf(Append(s, c)) = IF c = CarriageReturn THEN CleanOf(s) ELSE Append(CleanOf(s), c)
<1> DEFINE t == Append(s, c)
           n == Len(s)
<1>1. n \in Nat /\ Len(t) = n + 1 /\ t[n + 1] = c /\ \A i \in 1..n : t[i] = s[i]
  OBVIOUS
<1>2. PICK f : CleanOf(s) = f[n] /\ \A i \in 0..n : f[i] = Kept(s, f, i)
  BY <1>1, CleanDef
<1> HIDE DEF t
<1>3. PICK g : CleanOf(t) = g[n + 1] /\ \A i \in 0..(n + 1) : g[i] = Kept(t, g, i)
  BY <1>1, CleanDef
<1> HIDE DEF n
<1> DEFINE P == {i \in Nat : i <= n => g[i] = f[i]}
<1>4. 0 \in P
  BY <1>1, <1>2, <1>3 DEF Kept
<1>5. ASSUME NEW i \in Nat, i \in P PROVE i + 1 \in P
  <2> SUFFICES ASSUME i + 1 <= n PROVE g[i + 1] = f[i + 1]
    OBVIOUS
  <2>1. i + 1 \in 1..n /\ i + 1 \in 0..n /\ i + 1 \in 0..(n + 1) /\ i + 1 # 0 /\ (i + 1) - 1 = i /\ i <= n
    BY <1>1
  <2>2. g[i] = f[i]
    BY <1>5, <2>1
  <2>3. g[i + 1] = Kept(t, g, i + 1) /\ f[i + 1] = Kept(s, f, i + 1) /\ t[i + 1] = s[i + 1]
    BY <1>1, <1>2, <1>3, <2>1
  <2>4. Kept(t, g, i + 1) = Kept(s, f, i + 1)
    BY <2>1, <2>2, <2>3 DEF Kept
  <2> QED BY <2>3, <2>4
<1>6. g[n] = f[n]
  <2>1. n \in P
    <3> HIDE DEF P
    <3> QED BY <1>1, <1>4, <1>5, Induction
  <2> QED BY <1>1, <2>1
<1>7. g[n + 1] = IF c = CarriageReturn THEN g[n] ELSE Append(g[n], c)
  <2>1. n + 1 \in 0..(n + 1) /\ n + 1 # 0 /\ (n + 1) - 1 = n
    BY <1>1
  <2> QED BY <1>1, <1>3, <2>1 DEF Kept
<1> QED
  BY <1>2, <1>3, <1>6, <1>7 DEF t

LEMMA CleanFacts ==
    /\ Clean = CleanOf(text)
    /\ text = <<>> => Clean = <<>>
<1>1. Clean = CleanOf(text)
  BY DEF Clean, CleanOf, Kept
<1>2. ASSUME text = <<>> PROVE CleanOf(text) = <<>>
  <2>1. Len(text) = 0
    BY <1>2
  <2>2. PICK f : CleanOf(text) = f[0] /\ \A i \in 0..0 : f[i] = Kept(text, f, i)
    BY <2>1, CleanDef
  <2> QED BY <2>2 DEF Kept
<1> QED
  BY <1>1, <1>2

\* A line, without what is not a position of its symbols.
LEMMA SpanForm ==
    ASSUME NEW s \in Seq(Sym), NEW i, NEW j
    PROVE  <<i, j>> \in LineSpans(s) <=>
               /\ i \in 0..Len(s) /\ j \in 1..(Len(s) + 1) /\ i < j
               /\ i = 0 \/ s[i] = NewLine
               /\ j = Len(s) + 1 \/ s[j] = NewLine
               /\ \A p \in (i + 1)..(j - 1) : s[p] # NewLine
<1> DEFINE n == Len(s)
           E == Ends(s)
<1>1. n \in Nat
  OBVIOUS
<1> HIDE DEF n
<1>2. \A e : e \in E <=> e \in 0..(n + 1) /\ (e = 0 \/ e = n + 1 \/ s[e] = NewLine)
  BY <1>1 DEF Ends, n
<1> HIDE DEF E
<1>3. <<i, j>> \in LineSpans(s) <=> i \in E /\ j \in E /\ i < j /\ \A e \in E : e <= i \/ e >= j
  BY DEF LineSpans, E
<1>4. ASSUME i \in E, j \in E, i < j, \A e \in E : e <= i \/ e >= j
      PROVE  /\ i \in 0..n /\ j \in 1..(n + 1)
             /\ i = 0 \/ s[i] = NewLine
             /\ j = n + 1 \/ s[j] = NewLine
             /\ \A p \in (i + 1)..(j - 1) : s[p] # NewLine
  <2>1. i \in 0..(n + 1) /\ j \in 0..(n + 1)
    BY <1>2, <1>4
  <2>2. i # n + 1 /\ j # 0
    BY <1>1, <1>4, <2>1
  <2>3. ASSUME NEW p \in (i + 1)..(j - 1), s[p] = NewLine PROVE FALSE
    <3>1. p \in 0..(n + 1) /\ i < p /\ p < j
      BY <1>1, <2>1
    <3>2. p \in E
      BY <1>2, <2>3, <3>1
    <3> QED BY <1>4, <2>1, <3>1, <3>2
  <2> QED BY <1>1, <1>2, <1>4, <2>1, <2>2, <2>3
<1>5. ASSUME i \in 0..n, j \in 1..(n + 1), i < j, i = 0 \/ s[i] = NewLine,
             j = n + 1 \/ s[j] = NewLine, \A p \in (i + 1)..(j - 1) : s[p] # NewLine
      PROVE  i \in E /\ j \in E /\ \A e \in E : e <= i \/ e >= j
  <2>1. i \in E /\ j \in E
    BY <1>1, <1>2, <1>5
  <2>2. ASSUME NEW e \in E, ~(e <= i), ~(e >= j) PROVE FALSE
    <3>1. e \in 0..(n + 1) /\ (e = 0 \/ e = n + 1 \/ s[e] = NewLine)
      BY <1>2
    <3>2. e \in (i + 1)..(j - 1) /\ e # 0 /\ e # n + 1
      BY <1>1, <1>5, <2>2, <3>1
    <3> QED BY <1>5, <3>1, <3>2
  <2> QED BY <2>1, <2>2
<1> QED
  BY <1>3, <1>4, <1>5 DEF n

\* A text that has grown by a symbol.
Grows(s, c, t) == t = Append(s, c)

LEMMA Grown ==
    ASSUME NEW s \in Seq(Sym), NEW c \in Sym, NEW t, Grows(s, c, t)
    PROVE  /\ t \in Seq(Sym) /\ Len(s) \in Nat /\ Len(t) = Len(s) + 1
           /\ t[Len(s) + 1] = c /\ \A p \in 1..Len(s) : t[p] = s[p]
BY DEF Grows

LEMMA GrownPart ==
    ASSUME NEW s \in Seq(Sym), NEW c \in Sym, NEW t, Grows(s, c, t),
           NEW a \in Nat, NEW b \in Nat, a >= 1, b <= Len(s)
    PROVE  SubSeq(t, a, b) = SubSeq(s, a, b)
BY Grown DEF Grows

LEMMA GrownTail ==
    ASSUME NEW s \in Seq(Sym), NEW c \in Sym, NEW t, Grows(s, c, t), NEW a \in 1..(Len(s) + 1)
    PROVE  SubSeq(t, a, Len(t)) = Append(SubSeq(s, a, Len(s)), c)
BY Grown DEF Grows

\* The lines of s that are complete, or that the end of the text completes, are lines of
\* a longer text.
Stays(s, c, j) == j \in Nat /\ (j <= Len(s) \/ (j = Len(s) + 1 /\ c = NewLine))

LEMMA SameSpans ==
    ASSUME NEW s \in Seq(Sym), NEW c \in Sym, NEW t, Grows(s, c, t), NEW i, NEW j, Stays(s, c, j)
    PROVE  <<i, j>> \in LineSpans(t) <=> <<i, j>> \in LineSpans(s)
<1> DEFINE n == Len(s)
<1>1. /\ t \in Seq(Sym) /\ n \in Nat /\ Len(t) = n + 1
      /\ t[n + 1] = c /\ \A p \in 1..n : t[p] = s[p]
  BY Grown
<1>2. j \in Nat /\ (j <= n \/ (j = n + 1 /\ c = NewLine))
  BY DEF Stays
<1>3. <<i, j>> \in LineSpans(t) <=>
         /\ i \in 0..(n + 1) /\ j \in 1..(n + 2) /\ i < j
         /\ i = 0 \/ t[i] = NewLine
         /\ j = n + 2 \/ t[j] = NewLine
         /\ \A p \in (i + 1)..(j - 1) : t[p] # NewLine
  <2>1. <<i, j>> \in LineSpans(t) <=>
           /\ i \in 0..Len(t) /\ j \in 1..(Len(t) + 1) /\ i < j
           /\ i = 0 \/ t[i] = NewLine
           /\ j = Len(t) + 1 \/ t[j] = NewLine
           /\ \A p \in (i + 1)..(j - 1) : t[p] # NewLine
    BY <1>1, SpanForm
  <2>2. Len(t) = n + 1 /\ Len(t) + 1 = n + 2
    BY <1>1
  <2> QED BY <2>1, <2>2
<1>4. <<i, j>> \in LineSpans(s) <=>
         /\ i \in 0..n /\ j \in 1..(n + 1) /\ i < j
         /\ i = 0 \/ s[i] = NewLine
         /\ j = n + 1 \/ s[j] = NewLine
         /\ \A p \in (i + 1)..(j - 1) : s[p] # NewLine
  BY SpanForm
<1> HIDE DEF n
<1>5. ASSUME i \in 0..n, j \in 1..(n + 1), i < j
      PROVE  /\ i = 0 \/ (t[i] = NewLine <=> s[i] = NewLine)
             /\ (j = n + 2 \/ t[j] = NewLine) <=> (j = n + 1 \/ s[j] = NewLine)
             /\ \A p \in (i + 1)..(j - 1) : t[p] = s[p]
  <2>1. j \in 1..n \/ (j = n + 1 /\ t[j] = NewLine)
    BY <1>1, <1>2, <1>5
  <2>2. i = 0 \/ i \in 1..n
    BY <1>1, <1>5
  <2>3. \A p \in (i + 1)..(j - 1) : p \in 1..n
    BY <1>1, <1>5
  <2> QED BY <1>1, <2>1, <2>2, <2>3
<1>6. i \in 0..(n + 1) /\ j \in 1..(n + 2) /\ i < j => i \in 0..n /\ j \in 1..(n + 1)
  BY <1>1, <1>2
<1>7. i \in 0..n /\ j \in 1..(n + 1) => i \in 0..(n + 1) /\ j \in 1..(n + 2)
  BY <1>1
<1> QED
  BY <1>3, <1>4, <1>5, <1>6, <1>7

\* What a line is: a pair of positions.
LEMMA SpanPair ==
    ASSUME NEW s \in Seq(Sym), NEW l \in LineSpans(s)
    PROVE  /\ l = <<l[1], l[2]>> /\ l[1] \in 0..Len(s) /\ l[2] \in 1..(Len(s) + 1) /\ l[1] < l[2]
           /\ l[1] = 0 \/ s[l[1]] = NewLine
           /\ l[2] = Len(s) + 1 \/ s[l[2]] = NewLine
           /\ \A p \in (l[1] + 1)..(l[2] - 1) : s[p] # NewLine
<1>1. PICK i, j : l = <<i, j>>
  BY DEF LineSpans
<1>2. l[1] = i /\ l[2] = j
  BY <1>1
<1> QED
  BY <1>1, <1>2, SpanForm

LEMMA SameLines ==
    ASSUME NEW s \in Seq(Sym), NEW c \in Sym, NEW t, Grows(s, c, t), NEW i, NEW j, Stays(s, c, j)
    PROVE  /\ <<i, j>> \in LibLines(t) <=> <<i, j>> \in LibLines(s)
           /\ <<i, j>> \in FuncLines(t) <=> <<i, j>> \in FuncLines(s)
           /\ <<i, j>> \in LineSpans(s) => WordsAt(t, i, j) = WordsAt(s, i, j)
<1>1. <<i, j>> \in LineSpans(t) <=> <<i, j>> \in LineSpans(s)
  BY SameSpans
<1>2. /\ <<i, j>>[1] = i /\ <<i, j>>[2] = j
  OBVIOUS
<1>3. ASSUME <<i, j>> \in LineSpans(s)
      PROVE  /\ WordsAt(t, i, j) = WordsAt(s, i, j)
             /\ j > i + 1 => t[i + 1] = s[i + 1]
  <2>1. i \in 0..Len(s) /\ j \in 1..(Len(s) + 1) /\ i < j
    BY <1>3, SpanForm
  <2>2. \A p \in (i + 1)..(j - 1) : t[p] = s[p]
    BY <2>1, Grown
  <2>3. WordsAt(t, i, j) = WordsAt(s, i, j)
    BY <2>2 DEF WordsAt
  <2>4. j > i + 1 => i + 1 \in (i + 1)..(j - 1)
    BY <2>1
  <2> QED BY <2>2, <2>3, <2>4
<1>4. <<i, j>> \in LineSpans(s) /\ WordsAt(s, i, j) # {} => j > i + 1
  <2> SUFFICES ASSUME <<i, j>> \in LineSpans(s), NEW p \in WordsAt(s, i, j) PROVE j > i + 1
    OBVIOUS
  <2>1. i \in 0..Len(s) /\ j \in 1..(Len(s) + 1)
    BY SpanForm
  <2>2. p \in (i + 1)..(j - 1)
    BY DEF WordsAt
  <2> QED BY <2>1, <2>2
<1>5. <<i, j>> \in LibLines(t) <=> <<i, j>> \in LibLines(s)
  BY <1>1, <1>2, <1>3 DEF LibLines
<1>6. <<i, j>> \in FuncLines(t) <=> <<i, j>> \in FuncLines(s)
  BY <1>1, <1>2, <1>3, <1>4 DEF FuncLines
<1> QED
  BY <1>3, <1>5, <1>6

\* The libraries that are named before a line.
LEMMA BeforeForm ==
    ASSUME NEW s \in Seq(Sym), NEW i \in 0..Len(s), i = 0 \/ s[i] = NewLine
    PROVE  \A k \in LibLines(s) : k[1] < i <=> k[2] <= i
<1> SUFFICES ASSUME NEW k \in LibLines(s) PROVE k[1] < i <=> k[2] <= i
  OBVIOUS
<1>1. k \in LineSpans(s)
  BY DEF LibLines
<1>2. /\ k[1] \in 0..Len(s) /\ k[2] \in 1..(Len(s) + 1) /\ k[1] < k[2]
      /\ \A p \in (k[1] + 1)..(k[2] - 1) : s[p] # NewLine
  BY <1>1, SpanPair
<1>3. ASSUME k[1] < i, ~(k[2] <= i) PROVE FALSE
  <2>1. i \in (k[1] + 1)..(k[2] - 1) /\ i # 0
    BY <1>2, <1>3
  <2> QED BY <1>2, <2>1
<1> QED
  BY <1>2, <1>3

LEMMA SameBefore ==
    ASSUME NEW s \in Seq(Sym), NEW c \in Sym, NEW t, Grows(s, c, t),
           NEW i \in 0..Len(s), i = 0 \/ s[i] = NewLine
    PROVE  LibsBefore(t, i) = LibsBefore(s, i)
<1>1. /\ t \in Seq(Sym) /\ Len(s) \in Nat /\ Len(t) = Len(s) + 1 /\ \A p \in 1..Len(s) : t[p] = s[p]
  BY Grown
<1>2. i \in 0..Len(t) /\ (i = 0 \/ t[i] = NewLine)
  BY <1>1
<1>3. ASSUME NEW k, k \in LibLines(t) \/ k \in LibLines(s), k[1] < i
      PROVE  k \in LibLines(t) <=> k \in LibLines(s)
  <2>1. k[2] <= i
    BY <1>1, <1>2, <1>3, BeforeForm
  <2>2. k \in LineSpans(t) \/ k \in LineSpans(s)
    BY <1>3 DEF LibLines
  <2>3. k = <<k[1], k[2]>> /\ k[2] \in Nat
    BY <1>1, <2>2, SpanPair
  <2>4. PICK a, b : k = <<a, b>> /\ a = k[1] /\ b = k[2]
    BY <2>3
  <2>5. Stays(s, c, b)
    BY <1>1, <2>1, <2>3, <2>4 DEF Stays
  <2>6. <<a, b>> \in LibLines(t) <=> <<a, b>> \in LibLines(s)
    BY <2>5, SameLines
  <2> QED BY <2>4, <2>6
<1> QED
  BY <1>3 DEF LibsBefore

\* The last of them.
LastLib(s, i) == CHOOSE l \in LibsBefore(s, i) : \A k \in LibsBefore(s, i) : k[1] <= l[1]

LEMMA LastLibIn ==
    ASSUME NEW s \in Seq(Sym), NEW i, LibsBefore(s, i) # {}
    PROVE  /\ LastLib(s, i) \in LibsBefore(s, i)
           /\ \A k \in LibsBefore(s, i) : k[1] <= LastLib(s, i)[1]
<1> DEFINE n == Len(s)
           B == LibsBefore(s, i)
           S == {n - k[1] : k \in B}
<1>1. \A k \in B : k[1] \in 0..n /\ n \in Nat
  BY SpanPair DEF LibsBefore, LibLines
<1> HIDE DEF n, B
<1>2. S \subseteq Nat /\ S # {}
  BY <1>1 DEF B
<1>3. PICK m \in S : \A x \in S : m <= x
  <2> HIDE DEF S
  <2> QED BY <1>2, MinIn
<1>4. PICK l \in B : m = n - l[1]
  BY <1>3
<1>5. \A k \in B : k[1] <= l[1]
  <2> SUFFICES ASSUME NEW k \in B PROVE k[1] <= l[1]
    OBVIOUS
  <2>1. n - l[1] <= n - k[1]
    BY <1>3, <1>4
  <2> QED BY <1>1, <2>1
<1>6. \E l1 \in B : \A k \in B : k[1] <= l1[1]
  BY <1>5
<1>7. LastLib(s, i) = CHOOSE l1 \in B : \A k \in B : k[1] <= l1[1]
  BY DEF LastLib, B
<1>8. LastLib(s, i) \in B /\ \A k \in B : k[1] <= LastLib(s, i)[1]
  BY <1>6, <1>7
<1> QED
  BY <1>8 DEF B

\* What Listed reads: where the name starts and ends.
From(s, i, j) == Min(WordsAt(s, i, j))
Tos(s, i, j)  == {p \in i + 1..j : p >= From(s, i, j) /\ (p = j \/ s[p] = Blank)}
To(s, i, j)   == Min(Tos(s, i, j))
NameAt(s, i, j) == SubSeq(s, From(s, i, j), To(s, i, j) - 1)

LEMMA ListedForm ==
    ASSUME NEW s, NEW i, NEW j
    PROVE  Listed(s, i, j) =
              [file   |-> SubSeq(s, LastLib(s, i)[1] + 1, LastLib(s, i)[2] - 1),
               name   |-> NameAt(s, i, j),
               params |-> ArgsOf(NameAt(s, i, j)),
               flags  |-> ParseFlags(SubSeq(s, To(s, i, j), j - 1))]
BY DEF Listed, LastLib, From, Tos, To, NameAt

LEMMA FromTo ==
    ASSUME NEW s \in Seq(Sym), NEW i \in Nat, NEW j \in Nat, WordsAt(s, i, j) # {}
    PROVE  /\ From(s, i, j) \in WordsAt(s, i, j) /\ From(s, i, j) \in (i + 1)..(j - 1)
           /\ To(s, i, j) \in Tos(s, i, j) /\ To(s, i, j) \in (i + 1)..j
<1>1. WordsAt(s, i, j) \subseteq (i + 1)..(j - 1)
  BY DEF WordsAt
<1>2. WordsAt(s, i, j) \subseteq Nat
  BY <1>1
<1>3. From(s, i, j) \in WordsAt(s, i, j)
  BY <1>2, MinIn DEF From
<1>4. From(s, i, j) \in (i + 1)..(j - 1)
  BY <1>1, <1>3
<1>5. j \in Tos(s, i, j) /\ Tos(s, i, j) \subseteq (i + 1)..j
  BY <1>4 DEF Tos
<1>6. Tos(s, i, j) \subseteq Nat
  BY <1>5
<1>7. To(s, i, j) \in Tos(s, i, j)
  BY <1>5, <1>6, MinIn DEF To
<1> QED
  BY <1>3, <1>4, <1>5, <1>7

LEMMA SameListed ==
    ASSUME NEW s \in Seq(Sym), NEW c \in Sym, NEW t, Grows(s, c, t), NEW i, NEW j,
           Stays(s, c, j), <<i, j>> \in FuncLines(s), LibsBefore(s, i) # {}
    PROVE  Listed(t, i, j) = Listed(s, i, j)
<1>1. /\ t \in Seq(Sym) /\ Len(s) \in Nat /\ Len(t) = Len(s) + 1 /\ \A p \in 1..Len(s) : t[p] = s[p]
  BY Grown
<1>2. /\ <<i, j>> \in LineSpans(s) /\ WordsAt(s, i, j) # {}
  <2>1. <<i, j>>[1] = i /\ <<i, j>>[2] = j
    OBVIOUS
  <2> QED BY <2>1 DEF FuncLines
<1>3. i \in 0..Len(s) /\ j \in 1..(Len(s) + 1) /\ i < j /\ (i = 0 \/ s[i] = NewLine)
  BY <1>2, SpanForm
<1>4. WordsAt(t, i, j) = WordsAt(s, i, j)
  BY <1>2, SameLines
<1>5. From(t, i, j) = From(s, i, j)
  BY <1>4 DEF From
<1>6. \A p \in (i + 1)..j : (p = j \/ t[p] = Blank) <=> (p = j \/ s[p] = Blank)
  <2> SUFFICES ASSUME NEW p \in (i + 1)..j, p # j PROVE t[p] = s[p]
    OBVIOUS
  <2>1. p \in 1..Len(s)
    BY <1>1, <1>3
  <2> QED BY <1>1, <2>1
<1>7. Tos(t, i, j) = Tos(s, i, j)
  BY <1>5, <1>6 DEF Tos
<1>8. To(t, i, j) = To(s, i, j)
  BY <1>7 DEF To
<1>9. From(s, i, j) \in (i + 1)..(j - 1) /\ To(s, i, j) \in (i + 1)..j
  BY <1>2, <1>3, FromTo
<1>10. NameAt(t, i, j) = NameAt(s, i, j)
  <2> DEFINE x == From(s, i, j)
             y == To(s, i, j) - 1
  <2>1. x \in Nat /\ x >= 1 /\ y \in Nat /\ y <= Len(s)
    BY <1>1, <1>3, <1>9
  <2>2. NameAt(t, i, j) = SubSeq(t, x, y) /\ NameAt(s, i, j) = SubSeq(s, x, y)
    BY <1>5, <1>8 DEF NameAt
  <2>3. SubSeq(t, x, y) = SubSeq(s, x, y)
    <3> HIDE DEF x, y
    <3> QED BY <2>1, GrownPart
  <2> QED BY <2>2, <2>3
<1>11. SubSeq(t, To(s, i, j), j - 1) = SubSeq(s, To(s, i, j), j - 1)
  <2> DEFINE x == To(s, i, j)
             y == j - 1
  <2>1. x \in Nat /\ x >= 1 /\ y \in Nat /\ y <= Len(s)
    BY <1>1, <1>3, <1>9
  <2>2. SubSeq(t, x, y) = SubSeq(s, x, y)
    <3> HIDE DEF x, y
    <3> QED BY <2>1, GrownPart
  <2> QED BY <2>2
<1>12. LibsBefore(t, i) = LibsBefore(s, i)
  BY <1>3, SameBefore
<1>13. LastLib(t, i) = LastLib(s, i)
  BY <1>12 DEF LastLib
<1>14. PICK a, b : a = LastLib(s, i)[1] /\ b = LastLib(s, i)[2]
  OBVIOUS
<1>15. SubSeq(t, a + 1, b - 1) = SubSeq(s, a + 1, b - 1)
  <2>1. LastLib(s, i) \in LineSpans(s)
    BY LastLibIn DEF LibsBefore, LibLines
  <2>2. a \in 0..Len(s) /\ b \in 1..(Len(s) + 1)
    BY <1>14, <2>1, SpanPair
  <2> DEFINE x == a + 1
             y == b - 1
  <2>3. x \in Nat /\ x >= 1 /\ y \in Nat /\ y <= Len(s)
    BY <1>1, <2>2
  <2>4. SubSeq(t, x, y) = SubSeq(s, x, y)
    <3> HIDE DEF x, y
    <3> QED BY <2>3, GrownPart
  <2> QED BY <2>4
<1> QED
  BY <1>8, <1>10, <1>11, <1>13, <1>14, <1>15, ListedForm

-----------------------------------------------------------------------------
(* The lists the parser makes.                                              *)

Functions == {Function(b, flags) : b \in Seq(Char), flags \in SUBSET Flag}
Libs      == [file : Seq(Char), base : BOOLEAN, func : Seq(Functions)]

Entry(l, f) == [file |-> l.file, name |-> f.name, params |-> f.params, flags |-> f.flags]
Entries(l)  == {Entry(l, f) : f \in ToSet(l.func)}
Content(ls) == UNION {Entries(l) : l \in ToSet(ls)}

\* A sequence with one more at its front.
Starts(x, q, r) == r = <<x>> \o q

LEMMA StartsFacts ==
    ASSUME NEW S, NEW q \in Seq(S), NEW x \in S, NEW r, Starts(x, q, r)
    PROVE  /\ r \in Seq(S) /\ r # <<>> /\ r[1] = x /\ Len(r) = Len(q) + 1
           /\ ToSet(r) = {x} \cup ToSet(q)
<1>1. /\ r \in Seq(S) /\ r # <<>> /\ r[1] = x /\ Len(r) = Len(q) + 1
      /\ \A i \in 1..Len(q) : r[i + 1] = q[i]
  BY DEF Starts
<1>2. Len(q) \in Nat
  OBVIOUS
<1>3. ToSet(r) = {r[i] : i \in 1..Len(r)} /\ ToSet(q) = {q[i] : i \in 1..Len(q)}
  <2>1. DOMAIN r = 1..Len(r) /\ DOMAIN q = 1..Len(q)
    BY <1>1
  <2> QED BY <2>1 DEF ToSet
<1>4. ASSUME NEW y \in ToSet(r) PROVE y = x \/ y \in ToSet(q)
  <2>1. PICK i \in 1..Len(r) : y = r[i]
    BY <1>3
  <2>2. i = 1 \/ (i - 1 \in 1..Len(q) /\ r[(i - 1) + 1] = q[i - 1] /\ (i - 1) + 1 = i)
    BY <1>1, <1>2
  <2> QED BY <1>1, <1>3, <2>1, <2>2
<1>5. ASSUME NEW y, y = x \/ y \in ToSet(q) PROVE y \in ToSet(r)
  <2>1. CASE y = x
    BY <1>1, <1>2, <1>3, <2>1
  <2>2. CASE y \in ToSet(q)
    <3>1. PICK i \in 1..Len(q) : y = q[i]
      BY <1>3, <2>2
    <3>2. i + 1 \in 1..Len(r) /\ r[i + 1] = y
      BY <1>1, <1>2, <3>1
    <3> QED BY <1>3, <3>2
  <2> QED BY <1>5, <2>1, <2>2
<1> QED
  BY <1>1, <1>4, <1>5

\* A library adds nothing yet, a function one entry of the newest library.
LEMMA LibraryAdded ==
    ASSUME NEW ls \in Seq(Libs), NEW b \in Seq(Char), NEW r, Starts(Library(b), ls, r)
    PROVE  r \in Seq(Libs) /\ r # <<>> /\ r[1].file = b /\ Content(r) = Content(ls)
<1> DEFINE l == Library(b)
<1>1. l \in Libs /\ l.file = b /\ l.func = <<>>
  BY DEF Library, Libs
<1> HIDE DEF l
<1>2. Starts(l, ls, r)
  BY DEF l, Starts
<1>3. r \in Seq(Libs) /\ r # <<>> /\ r[1] = l /\ ToSet(r) = {l} \cup ToSet(ls)
  BY <1>1, <1>2, StartsFacts
<1>4. ToSet(l.func) = {}
  BY <1>1 DEF ToSet
<1>5. Content(r) = Entries(l) \cup Content(ls)
  BY <1>3 DEF Content
<1>6. Entries(l) = {}
  BY <1>4 DEF Entries
<1> QED
  BY <1>1, <1>3, <1>5, <1>6

LEMMA FunctionAdded ==
    ASSUME NEW ls \in Seq(Libs), ls # <<>>, NEW f \in Functions, NEW r, r = AddTo(ls, f)
    PROVE  /\ r \in Seq(Libs) /\ r # <<>> /\ r[1].file = ls[1].file
           /\ Content(r) = Content(ls) \cup {Entry(ls[1], f)}
<1> DEFINE q == <<f>> \o ls[1].func
           l == [ls[1] EXCEPT !.func = q]
<1>1. Len(ls) \in Nat /\ Len(ls) >= 1 /\ 1 \in DOMAIN ls /\ DOMAIN ls = 1..Len(ls) /\ ls[1] \in Libs
  OBVIOUS
<1>2. ls[1].func \in Seq(Functions)
  BY <1>1 DEF Libs
<1>3. q \in Seq(Functions) /\ ToSet(q) = {f} \cup ToSet(ls[1].func)
  <2>1. Starts(f, ls[1].func, q)
    BY DEF Starts
  <2> HIDE DEF q
  <2> QED BY <1>2, <2>1, StartsFacts
<1> HIDE DEF q
<1>4. l \in Libs /\ l.file = ls[1].file /\ l.func = q
  BY <1>1, <1>3 DEF Libs
<1>5. r = [ls EXCEPT ![1] = l]
  BY <1>1 DEF AddTo, q
<1> HIDE DEF l
<1>6. r \in Seq(Libs) /\ r # <<>> /\ r[1] = l /\ DOMAIN r = 1..Len(ls) /\ \A i \in 2..Len(ls) : r[i] = ls[i]
  BY <1>1, <1>4, <1>5
<1>7. ToSet(r) = {l} \cup {ls[i] : i \in 2..Len(ls)} /\ ToSet(ls) = {ls[1]} \cup {ls[i] : i \in 2..Len(ls)}
  <2>1. ToSet(r) = {r[i] : i \in 1..Len(ls)} /\ ToSet(ls) = {ls[i] : i \in 1..Len(ls)}
    BY <1>1, <1>6 DEF ToSet
  <2>2. 1..Len(ls) = {1} \cup 2..Len(ls)
    BY <1>1
  <2> QED BY <1>6, <2>1, <2>2
<1> DEFINE Rest == UNION {Entries(k) : k \in {ls[i] : i \in 2..Len(ls)}}
<1>8. Content(r) = Entries(l) \cup Rest /\ Content(ls) = Entries(ls[1]) \cup Rest
  BY <1>7 DEF Content
<1>9. \A g : Entry(l, g) = Entry(ls[1], g)
  BY <1>4 DEF Entry
<1> HIDE DEF Rest
<1>10. Entries(l) = {Entry(ls[1], f)} \cup Entries(ls[1])
  BY <1>3, <1>4, <1>9 DEF Entries
<1> QED
  BY <1>4, <1>6, <1>8, <1>10

\* What the lines up to position e say, and a list of libraries that says the same.
DoneLines(s, e) == {l \in FuncLines(s) : l[2] <= e /\ LibsBefore(s, l[1]) # {}}
Found(s, e)     == {f \in {Listed(s, l[1], l[2]) : l \in DoneLines(s, e)} : "IGNORE" \notin f.flags}
LibsUpTo(s, e)  == {k \in LibLines(s) : k[2] <= e}
Newest(s, e, k) == k \in LibsUpTo(s, e) /\ \A m \in LibsUpTo(s, e) : m[1] <= k[1]
Done(s, e, ls)  ==
    /\ Content(ls) = Found(s, e)
    /\ LibsUpTo(s, e) = {} => ls = <<>>
    /\ \A k : Newest(s, e, k) => ls # <<>> /\ ls[1].file = SubSeq(s, k[1] + 1, k[2] - 1)

\* A longer text says the same of the lines that stay.
LEMMA DoneStays ==
    ASSUME NEW s \in Seq(Sym), NEW c \in Sym, NEW t, Grows(s, c, t), NEW ls,
           NEW e, e = IF c = NewLine THEN Len(s) + 1 ELSE Len(s), Done(s, e, ls)
    PROVE  Done(t, Len(t), ls)
<1>1. /\ t \in Seq(Sym) /\ Len(s) \in Nat /\ Len(t) = Len(s) + 1
      /\ t[Len(s) + 1] = c /\ \A p \in 1..Len(s) : t[p] = s[p]
  BY Grown
<1>2. e \in {Len(s), Len(s) + 1} /\ (e = Len(s) + 1 <=> c = NewLine)
  BY <1>1
<1>3. ASSUME NEW l, l \in LineSpans(t), l[2] <= Len(t)
      PROVE  l[2] <= e
  <2>1. l[2] \in 1..(Len(t) + 1) /\ (l[2] = Len(t) + 1 \/ t[l[2]] = NewLine)
    BY <1>1, <1>3, SpanPair
  <2>2. CASE l[2] = Len(s) + 1
    BY <1>1, <1>2, <1>3, <2>1, <2>2
  <2>3. CASE l[2] # Len(s) + 1
    BY <1>1, <1>2, <1>3, <2>1, <2>3
  <2> QED BY <2>2, <2>3
<1>4. ASSUME NEW l, l \in LineSpans(t) \/ l \in LineSpans(s), l[2] <= e
      PROVE  /\ l = <<l[1], l[2]>> /\ Stays(s, c, l[2]) /\ l[2] <= Len(t)
             /\ l \in LineSpans(s)
             /\ l \in LibLines(t) <=> l \in LibLines(s)
             /\ l \in FuncLines(t) <=> l \in FuncLines(s)
  <2>1. l = <<l[1], l[2]>> /\ l[2] \in Nat
    BY <1>1, <1>4, SpanPair
  <2>2. PICK a, b : l = <<a, b>> /\ a = l[1] /\ b = l[2]
    BY <2>1
  <2>3. Stays(s, c, b) /\ b <= Len(t)
    BY <1>1, <1>2, <1>4, <2>1, <2>2 DEF Stays
  <2>4. /\ <<a, b>> \in LibLines(t) <=> <<a, b>> \in LibLines(s)
        /\ <<a, b>> \in FuncLines(t) <=> <<a, b>> \in FuncLines(s)
    BY <2>3, SameLines
  <2>5. <<a, b>> \in LineSpans(t) <=> <<a, b>> \in LineSpans(s)
    BY <2>3, SameSpans
  <2> QED BY <1>4, <2>1, <2>2, <2>3, <2>4, <2>5
<1>5. LibsUpTo(t, Len(t)) = LibsUpTo(s, e)
  BY <1>3, <1>4 DEF LibsUpTo, LibLines
<1>6. ASSUME NEW l \in FuncLines(s), l[2] <= e
      PROVE  /\ LibsBefore(t, l[1]) = LibsBefore(s, l[1])
             /\ LibsBefore(s, l[1]) # {} => Listed(t, l[1], l[2]) = Listed(s, l[1], l[2])
  <2>1. l \in LineSpans(s)
    BY DEF FuncLines
  <2>2. PICK a, b : l = <<a, b>> /\ a = l[1] /\ b = l[2]
    BY <2>1, SpanPair
  <2>3. a \in 0..Len(s) /\ (a = 0 \/ s[a] = NewLine)
    BY <2>1, <2>2, SpanPair
  <2>4. LibsBefore(t, a) = LibsBefore(s, a)
    BY <2>3, SameBefore
  <2>5. Stays(s, c, b) /\ <<a, b>> \in FuncLines(s)
    BY <1>4, <1>6, <2>1, <2>2
  <2>6. LibsBefore(s, a) # {} => Listed(t, a, b) = Listed(s, a, b)
    BY <2>5, SameListed
  <2> QED BY <2>2, <2>4, <2>6
<1>7. DoneLines(t, Len(t)) = DoneLines(s, e)
  <2>1. ASSUME NEW l, l \in FuncLines(t), l[2] <= Len(t) PROVE l \in FuncLines(s) /\ l[2] <= e
    BY <1>3, <1>4, <2>1 DEF FuncLines
  <2>2. ASSUME NEW l, l \in FuncLines(s), l[2] <= e PROVE l \in FuncLines(t) /\ l[2] <= Len(t)
    <3>1. l \in LineSpans(s)
      BY <2>2 DEF FuncLines
    <3> QED BY <1>4, <2>2, <3>1
  <2> QED BY <1>6, <2>1, <2>2 DEF DoneLines
<1>8. Found(t, Len(t)) = Found(s, e)
  <2>1. \A l \in DoneLines(s, e) : Listed(t, l[1], l[2]) = Listed(s, l[1], l[2])
    BY <1>6 DEF DoneLines
  <2> QED BY <1>7, <2>1 DEF Found
<1>9. \A k : Newest(t, Len(t), k) <=> Newest(s, e, k)
  BY <1>5 DEF Newest
<1>10. ASSUME NEW k, Newest(s, e, k)
       PROVE  SubSeq(t, k[1] + 1, k[2] - 1) = SubSeq(s, k[1] + 1, k[2] - 1)
  <2> DEFINE x == k[1] + 1
             y == k[2] - 1
  <2>1. k \in LineSpans(s) /\ k[2] <= e
    BY <1>10 DEF Newest, LibsUpTo, LibLines
  <2>2. k[1] \in 0..Len(s) /\ k[2] \in 1..(Len(s) + 1)
    BY <2>1, SpanPair
  <2>3. x \in Nat /\ x >= 1 /\ y \in Nat /\ y <= Len(s)
    BY <1>1, <2>2
  <2>4. SubSeq(t, x, y) = SubSeq(s, x, y)
    <3> HIDE DEF x, y
    <3> QED BY <2>3, GrownPart
  <2> QED BY <2>4
<1> QED
  BY <1>5, <1>8, <1>9, <1>10 DEF Done

-----------------------------------------------------------------------------
(* The line that is being read.                                             *)

Current(s, i) ==
    /\ i \in 0..Len(s) /\ (i = 0 \/ s[i] = NewLine)
    /\ \A p \in (i + 1)..Len(s) : s[p] # NewLine

LEMMA LastLine ==
    ASSUME NEW s \in Seq(Sym), NEW i, Current(s, i)
    PROVE  /\ <<i, Len(s) + 1>> \in LineSpans(s)
           /\ \A l \in LineSpans(s) : l = <<i, Len(s) + 1>> \/ (l[2] \in Nat /\ l[2] <= i /\ l[1] < i)
<1> DEFINE n == Len(s)
<1>1. /\ n \in Nat /\ i \in 0..n /\ (i = 0 \/ s[i] = NewLine)
      /\ \A p \in (i + 1)..n : s[p] # NewLine
  BY DEF Current
<1>2. <<i, n + 1>> \in LineSpans(s)
  <2>1. /\ i \in 0..n /\ n + 1 \in 1..(n + 1) /\ i < n + 1
        /\ \A p \in (i + 1)..((n + 1) - 1) : s[p] # NewLine
    BY <1>1
  <2> DEFINE j == n + 1
  <2>2. /\ i \in 0..Len(s) /\ j \in 1..(Len(s) + 1) /\ i < j /\ j = Len(s) + 1
        /\ \A p \in (i + 1)..(j - 1) : s[p] # NewLine
    BY <2>1
  <2> HIDE DEF j
  <2>3. <<i, j>> \in LineSpans(s)
    BY <1>1, <2>2, SpanForm
  <2> QED BY <2>3 DEF j
<1>3. ASSUME NEW l \in LineSpans(s), l # <<i, n + 1>>
      PROVE  l[2] \in Nat /\ l[2] <= i /\ l[1] < i
  <2>1. PICK a, b : l = <<a, b>> /\ a = l[1] /\ b = l[2]
    BY SpanPair
  <2>2. /\ a \in 0..n /\ b \in 1..(n + 1) /\ a < b
        /\ a = 0 \/ s[a] = NewLine
        /\ b = n + 1 \/ s[b] = NewLine
        /\ \A p \in (a + 1)..(b - 1) : s[p] # NewLine
    BY <2>1, SpanPair
  <2> HIDE DEF n
  <2>3. CASE b = n + 1
    <3>1. a # i
      BY <1>3, <2>1, <2>3
    <3>2. CASE a < i
      <4>1. i \in (a + 1)..(b - 1) /\ i # 0
        BY <1>1, <2>2, <2>3, <3>2
      <4> QED BY <1>1, <2>2, <4>1
    <3>3. CASE a > i
      <4>1. a \in (i + 1)..n /\ a # 0
        BY <1>1, <2>2, <2>3, <3>3
      <4> QED BY <1>1, <2>2, <4>1
    <3> QED BY <1>1, <2>2, <3>1, <3>2, <3>3
  <2>4. CASE b # n + 1
    <3>1. ~(b > i)
      <4>1. b > i => b \in (i + 1)..n
        BY <1>1, <2>2, <2>4
      <4> QED BY <1>1, <2>2, <2>4, <4>1
    <3> QED BY <1>1, <2>1, <2>2, <3>1
  <2> QED BY <2>3, <2>4
<1> QED
  BY <1>2, <1>3

\* What the end of the text, or of the line, adds.
LEMMA LastAdds ==
    ASSUME NEW s \in Seq(Sym), NEW i, Current(s, i), NEW n, n = Len(s), NEW l, l = <<i, n + 1>>
    PROVE  /\ l \in LineSpans(s) /\ l[1] = i /\ l[2] = n + 1
           /\ LibsUpTo(s, n + 1) = LibsUpTo(s, n) \cup ({l} \cap LibLines(s))
           /\ DoneLines(s, n + 1) = DoneLines(s, n)
                  \cup {k \in {l} : k \in FuncLines(s) /\ LibsBefore(s, i) # {}}
           /\ LibsBefore(s, i) = LibsUpTo(s, n)
           /\ \A k \in LibsUpTo(s, n) : k[1] < i
<1>1. /\ l \in LineSpans(s)
      /\ \A k \in LineSpans(s) : k = l \/ (k[2] \in Nat /\ k[2] <= i /\ k[1] < i)
  BY LastLine
<1>2. l[1] = i /\ l[2] = n + 1 /\ i \in 0..n /\ n \in Nat /\ ~(n + 1 <= n)
  BY DEF Current
<1>3. \A k \in LineSpans(s) : k # l => k[2] <= n /\ k[2] <= n + 1 /\ k[1] < i
  BY <1>1, <1>2
<1>4. \A k \in LibLines(s) \cup FuncLines(s) : k \in LineSpans(s)
  BY DEF LibLines, FuncLines
<1>5. LibsUpTo(s, n + 1) = LibsUpTo(s, n) \cup ({l} \cap LibLines(s))
  BY <1>2, <1>3, <1>4 DEF LibsUpTo
<1>6. DoneLines(s, n + 1) = DoneLines(s, n) \cup {k \in {l} : k \in FuncLines(s) /\ LibsBefore(s, i) # {}}
  BY <1>2, <1>3, <1>4 DEF DoneLines
<1>7. LibsBefore(s, i) = LibsUpTo(s, n)
  <2>1. \A k \in LibLines(s) : k[1] < i <=> k[2] <= n
    BY <1>2, <1>3, <1>4
  <2> QED BY <2>1 DEF LibsBefore, LibsUpTo
<1>8. \A k \in LibsUpTo(s, n) : k[1] < i
  BY <1>7 DEF LibsBefore
<1> QED
  BY <1>1, <1>2, <1>5, <1>6, <1>7, <1>8

LEMMA NamesApart ==
    /\ Blank # NewLine /\ Blank # CarriageReturn /\ NewLine # CarriageReturn
    /\ Blank \notin Word /\ NewLine \notin Word /\ CarriageReturn \notin Word
BY GeneratorAssumption DEF Blank, NewLine, CarriageReturn

\* Line i, when its name starts at f and ends before t.
Named(s, i, f, t) ==
    /\ f \in (i + 2)..Len(s) /\ t \in (f + 1)..(Len(s) + 1)
    /\ \A p \in (i + 1)..(f - 1) : s[p] = Blank
    /\ \A p \in f..(t - 1) : s[p] \in Word
    /\ t = Len(s) + 1 \/ s[t] = Blank

LEMMA NameFound ==
    ASSUME NEW s \in Seq(Sym), NEW i \in 0..Len(s), NEW f, NEW t, Named(s, i, f, t),
           NEW j, j = Len(s) + 1
    PROVE  WordsAt(s, i, j) # {} /\ s[i + 1] = Blank /\ From(s, i, j) = f /\ To(s, i, j) = t
<1>1. /\ Len(s) \in Nat /\ i \in Nat /\ f \in Nat /\ t \in Nat /\ j \in Nat
      /\ i + 2 <= f /\ f <= Len(s) /\ f < t /\ t <= j
  BY DEF Named
<1>2. f \in WordsAt(s, i, j)
  BY <1>1 DEF Named, WordsAt
<1>3. \A p \in WordsAt(s, i, j) : f <= p
  <2> SUFFICES ASSUME NEW p \in WordsAt(s, i, j), p < f PROVE FALSE
    BY <1>1 DEF WordsAt
  <2>1. p \in (i + 1)..(f - 1) /\ s[p] \in Word
    BY <1>1 DEF WordsAt
  <2> QED BY <2>1, NamesApart DEF Named
<1>4. WordsAt(s, i, j) \subseteq Nat
  BY <1>1 DEF WordsAt
<1>5. From(s, i, j) = f
  BY <1>2, <1>3, <1>4, MinIs DEF From
<1>6. Tos(s, i, j) = {p \in (i + 1)..j : p >= f /\ (p = j \/ s[p] = Blank)}
  BY <1>5 DEF Tos
<1>7. t \in Tos(s, i, j) /\ Tos(s, i, j) \subseteq Nat
  BY <1>1, <1>6 DEF Named
<1>8. \A p \in Tos(s, i, j) : t <= p
  <2> SUFFICES ASSUME NEW p \in Tos(s, i, j), p < t PROVE FALSE
    BY <1>1, <1>7
  <2>1. p \in f..(t - 1) /\ p # j /\ s[p] = Blank
    BY <1>1, <1>6
  <2>2. s[p] \in Word
    BY <2>1 DEF Named
  <2> QED BY <2>1, <2>2, NamesApart
<1>9. To(s, i, j) = t
  BY <1>7, <1>8, MinIs DEF To
<1>10. i + 1 \in (i + 1)..(f - 1)
  BY <1>1
<1> QED
  BY <1>2, <1>5, <1>9, <1>10 DEF Named

\* A part of a text, and the flags in one that starts with a blank.
LEMMA PartSet ==
    ASSUME NEW s \in Seq(Sym), NEW a \in Nat, NEW b \in Nat, a >= 1, b <= Len(s), a <= b + 1
    PROVE  ToSet(SubSeq(s, a, b)) = {s[p] : p \in a..b}
<1> DEFINE q == SubSeq(s, a, b)
<1>1. DOMAIN q = 1..((b - a) + 1) /\ \A k \in 1..((b - a) + 1) : q[k] = s[(a + k) - 1]
  <2>1. q \in Seq(Sym) /\ Len(q) = (b - a) + 1
    OBVIOUS
  <2>2. \A k \in 1..((b - a) + 1) : q[k] = s[(a + k) - 1]
    OBVIOUS
  <2>3. DOMAIN q = 1..Len(q)
    BY <2>1
  <2> QED BY <2>1, <2>2, <2>3
<1> HIDE DEF q
<1>2. ToSet(q) = {q[k] : k \in 1..((b - a) + 1)}
  BY <1>1 DEF ToSet
<1>3. ASSUME NEW k \in 1..((b - a) + 1) PROVE \E p \in a..b : q[k] = s[p]
  <2>1. (a + k) - 1 \in a..b
    OBVIOUS
  <2> QED BY <1>1, <2>1
<1>4. ASSUME NEW p \in a..b PROVE \E k \in 1..((b - a) + 1) : q[k] = s[p]
  <2> DEFINE k == (p - a) + 1
  <2>1. k \in 1..((b - a) + 1) /\ (a + k) - 1 = p
    OBVIOUS
  <2> QED BY <1>1, <2>1
<1>5. ToSet(q) = {s[p] : p \in a..b}
  <2> DEFINE K == 1..((b - a) + 1)
             A == a..b
  <2>1. /\ ToSet(q) = {q[k] : k \in K}
        /\ \A k \in K : \E p \in A : q[k] = s[p]
        /\ \A p \in A : \E k \in K : q[k] = s[p]
    BY <1>2, <1>3, <1>4
  <2> HIDE DEF K, A
  <2>2. ToSet(q) = {s[p] : p \in A}
    BY <2>1
  <2> QED BY <2>2 DEF A
<1> QED
  BY <1>5 DEF q

LEMMA FlagsBehind ==
    ASSUME NEW s \in Seq(Sym), NEW t \in 1..Len(s), s[t] = Blank
    PROVE  ParseFlags(SubSeq(s, t, Len(s))) = ParseFlags(SubSeq(s, t + 1, Len(s)))
<1> DEFINE n == Len(s)
           x == t + 1
<1>1. n \in Nat /\ t \in Nat /\ x \in Nat /\ t >= 1 /\ x >= 1 /\ n <= Len(s) /\ t <= n + 1 /\ x <= n + 1
  OBVIOUS
<1>2. t..n = {t} \cup (x..n)
  BY <1>1
<1> HIDE DEF n, x
<1>3. ToSet(SubSeq(s, t, n)) = {s[p] : p \in t..n} /\ ToSet(SubSeq(s, x, n)) = {s[p] : p \in x..n}
  BY <1>1, PartSet
<1>4. ToSet(SubSeq(s, t, n)) = {Blank} \cup ToSet(SubSeq(s, x, n))
  BY <1>2, <1>3
<1>5. WordsOf(SubSeq(s, t, n)) = WordsOf(SubSeq(s, x, n))
  BY <1>4, NamesApart DEF WordsOf
<1>6. ParseFlags(SubSeq(s, t, n)) = ParseFlags(SubSeq(s, x, n))
  BY <1>5 DEF ParseFlags
<1> QED
  BY <1>6 DEF n, x

\* The state of the parser in line i: m is fsm, b is buf, q is bufParam.
InName(s, i, m, b, q) ==
    /\ m = "FSM_LIB" /\ q = <<>> /\ b = SubSeq(s, i + 1, Len(s))
    /\ i < Len(s) => s[i + 1] # Blank
InFunc(s, i, m, b, q) ==
    /\ m = "FSM_FUNC" /\ q = <<>>
    /\ \E f \in (i + 2)..(Len(s) + 1) :
          /\ \A p \in (i + 1)..(f - 1) : s[p] = Blank
          /\ \A p \in f..Len(s) : s[p] \in Word
          /\ b = SubSeq(s, f, Len(s))
InParam(s, i, m, b, q) ==
    /\ m = "FSM_FUNC_PARAM"
    /\ \E f, t : /\ Named(s, i, f, t) /\ t <= Len(s)
                 /\ b = SubSeq(s, f, t - 1) /\ q = SubSeq(s, t + 1, Len(s))
InLine(s, i, m, b, q) == InName(s, i, m, b, q) \/ InFunc(s, i, m, b, q) \/ InParam(s, i, m, b, q)

\* The lengths of the buffers.
LEMMA PartEmpty ==
    ASSUME NEW s \in Seq(Sym), NEW a \in Nat, NEW b \in Nat, a >= 1, b <= Len(s), a <= b + 1
    PROVE  SubSeq(s, a, b) = <<>> <=> a = b + 1
<1>1. Len(SubSeq(s, a, b)) = (b - a) + 1 /\ SubSeq(s, a, b) \in Seq(Sym)
  OBVIOUS
<1> HIDE DEF Sym
<1>2. SubSeq(s, a, b) = <<>> <=> (b - a) + 1 = 0
  BY <1>1
<1> QED
  BY <1>2

\* The end of a line, or of the list: LineRead adds what the line says.
LEMMA LineEndEmpty ==
    ASSUME NEW s \in Seq(Sym), NEW i, Current(s, i), NEW ls, Done(s, Len(s), ls),
           NEW m, NEW q, InLine(s, i, m, <<>>, q)
    PROVE  Done(s, Len(s) + 1, ls)
<1> DEFINE n == Len(s)
           l == <<i, n + 1>>
<1>1. n \in Nat /\ i \in 0..n
  BY DEF Current
<1>2. l[1] = i /\ l[2] = n + 1
  OBVIOUS
<1>3. l \notin LibLines(s)
  <2> SUFFICES ASSUME n + 1 > i + 1, s[i + 1] # Blank PROVE FALSE
    BY <1>2 DEF LibLines
  <2>1. CASE InName(s, i, m, <<>>, q)
    <3> DEFINE a == i + 1
    <3>1. a \in Nat /\ a >= 1 /\ a <= n + 1 /\ n <= Len(s) /\ a # n + 1
      BY <1>1
    <3>2. SubSeq(s, a, n) = <<>>
      BY <2>1 DEF InName
    <3> HIDE DEF a, n
    <3> QED BY <1>1, <3>1, <3>2, PartEmpty
  <2>2. CASE InFunc(s, i, m, <<>>, q)
    <3>1. PICK f \in (i + 2)..(n + 1) : \A p \in (i + 1)..(f - 1) : s[p] = Blank
      BY <2>2 DEF InFunc
    <3>2. i + 1 \in (i + 1)..(f - 1)
      BY <1>1, <3>1
    <3> QED BY <3>1, <3>2
  <2>3. CASE InParam(s, i, m, <<>>, q)
    <3>1. PICK f, t : Named(s, i, f, t)
      BY <2>3 DEF InParam
    <3> QED BY <1>1, <3>1, NameFound
  <2> QED BY <2>1, <2>2, <2>3 DEF InLine
<1>4. l \notin FuncLines(s)
  <2> SUFFICES ASSUME NEW p \in WordsAt(s, i, n + 1), s[i + 1] = Blank PROVE FALSE
    BY <1>2 DEF FuncLines
  <2>1. p \in (i + 1)..n /\ s[p] \in Word
    BY <1>1 DEF WordsAt
  <2>2. CASE InName(s, i, m, <<>>, q)
    BY <1>1, <2>1, <2>2 DEF InName
  <2>3. CASE InFunc(s, i, m, <<>>, q)
    <3>1. PICK f \in (i + 2)..(n + 1) : /\ \A x \in (i + 1)..(f - 1) : s[x] = Blank
                                        /\ <<>> = SubSeq(s, f, n)
      BY <2>3 DEF InFunc
    <3>2. f \in Nat /\ f >= 1 /\ f <= n + 1 /\ n <= Len(s)
      BY <1>1
    <3>3. f = n + 1
      <4> HIDE DEF n
      <4> QED BY <1>1, <3>1, <3>2, PartEmpty
    <3>4. s[p] = Blank
      BY <1>1, <2>1, <3>1, <3>3
    <3> QED BY <2>1, <3>4, NamesApart
  <2>4. CASE InParam(s, i, m, <<>>, q)
    <3>1. PICK f, t : Named(s, i, f, t) /\ <<>> = SubSeq(s, f, t - 1)
      BY <2>4 DEF InParam
    <3> DEFINE y == t - 1
    <3>2. f \in Nat /\ y \in Nat /\ f >= 1 /\ y <= Len(s) /\ f <= y + 1 /\ f # y + 1
      BY <1>1, <3>1 DEF Named
    <3>3. SubSeq(s, f, y) = <<>>
      BY <3>1
    <3> HIDE DEF y
    <3> QED BY <3>2, <3>3, PartEmpty
  <2> QED BY <2>2, <2>3, <2>4 DEF InLine
<1>5. /\ l \in LineSpans(s)
      /\ LibsUpTo(s, n + 1) = LibsUpTo(s, n) \cup ({l} \cap LibLines(s))
      /\ DoneLines(s, n + 1) = DoneLines(s, n) \cup {k \in {l} : k \in FuncLines(s) /\ LibsBefore(s, i) # {}}
      /\ \A k \in LibsUpTo(s, n) : k[1] < i
  BY LastAdds
<1>6. LibsUpTo(s, n + 1) = LibsUpTo(s, n) /\ DoneLines(s, n + 1) = DoneLines(s, n)
  <2> HIDE DEF l
  <2> QED BY <1>3, <1>4, <1>5
<1> QED
  BY <1>6 DEF Done, Found, Newest

LEMMA LineEndLib ==
    ASSUME NEW s \in Seq(Sym), NEW i, Current(s, i), NEW ls \in Seq(Libs), Done(s, Len(s), ls),
           NEW m, NEW b \in Seq(Char), NEW q, InName(s, i, m, b, q), b # <<>>,
           NEW r, Starts(Library(b), ls, r)
    PROVE  r \in Seq(Libs) /\ Done(s, Len(s) + 1, r)
<1> DEFINE n == Len(s)
           l == <<i, n + 1>>
<1>1. n \in Nat /\ i \in 0..n
  BY DEF Current
<1>2. l[1] = i /\ l[2] = n + 1
  OBVIOUS
<1>3. b = SubSeq(s, i + 1, n) /\ i < n /\ s[i + 1] # Blank
  <2> DEFINE a == i + 1
  <2>1. a \in Nat /\ a >= 1 /\ a <= n + 1 /\ n <= Len(s)
    BY <1>1
  <2>2. b = SubSeq(s, a, n)
    BY DEF InName
  <2>3. a # n + 1
    <3> HIDE DEF a, n
    <3> QED BY <1>1, <2>1, <2>2, PartEmpty
  <2> QED BY <1>1, <2>2, <2>3 DEF InName
<1>4. r \in Seq(Libs) /\ r # <<>> /\ r[1].file = b /\ Content(r) = Content(ls)
  BY LibraryAdded
<1>5. /\ l \in LineSpans(s)
      /\ LibsUpTo(s, n + 1) = LibsUpTo(s, n) \cup ({l} \cap LibLines(s))
      /\ DoneLines(s, n + 1) = DoneLines(s, n) \cup {k \in {l} : k \in FuncLines(s) /\ LibsBefore(s, i) # {}}
      /\ \A k \in LibsUpTo(s, n) : k[1] < i
  BY LastAdds
<1>6. l \in LibLines(s) /\ l \notin FuncLines(s)
  BY <1>1, <1>2, <1>3, <1>5 DEF LibLines, FuncLines
<1>7. DoneLines(s, n + 1) = DoneLines(s, n) /\ LibsUpTo(s, n + 1) = LibsUpTo(s, n) \cup {l}
  <2> HIDE DEF l
  <2> QED BY <1>5, <1>6
<1>8. Found(s, n + 1) = Found(s, n)
  BY <1>7 DEF Found
<1>9. ASSUME NEW k, Newest(s, n + 1, k) PROVE k = l
  <2>1. k \in LibsUpTo(s, n) \cup {l} /\ l[1] <= k[1]
    BY <1>7, <1>9 DEF Newest
  <2>2. k \in LibsUpTo(s, n) => k[1] < i /\ k[1] \in Nat
    <3>1. k \in LibsUpTo(s, n) => k \in LineSpans(s)
      BY DEF LibsUpTo, LibLines
    <3> QED BY <1>5, <3>1, SpanPair
  <2> QED BY <1>1, <1>2, <2>1, <2>2
<1>10. SubSeq(s, l[1] + 1, l[2] - 1) = b
  <2>1. l[1] + 1 = i + 1 /\ l[2] - 1 = n
    BY <1>1, <1>2
  <2> QED BY <1>3, <2>1
<1> HIDE DEF l
<1>11. \A k : Newest(s, n + 1, k) => r # <<>> /\ r[1].file = SubSeq(s, k[1] + 1, k[2] - 1)
  BY <1>4, <1>9, <1>10
<1> QED
  BY <1>4, <1>7, <1>8, <1>11 DEF Done

LEMMA LineEndFunc ==
    ASSUME NEW s \in Seq(Sym), NEW i, Current(s, i), NEW ls \in Seq(Libs), Done(s, Len(s), ls),
           NEW m, NEW b \in Seq(Char), NEW q, InFunc(s, i, m, b, q) \/ InParam(s, i, m, b, q), b # <<>>,
           NEW r, r = IF "IGNORE" \in ParseFlags(q) THEN ls ELSE AddTo(ls, Function(b, ParseFlags(q)))
    PROVE  r \in Seq(Libs) /\ Done(s, Len(s) + 1, r)
<1> DEFINE n == Len(s)
           j == n + 1
           l == <<i, j>>
           g == Function(b, ParseFlags(q))
<1>1. n \in Nat /\ i \in 0..n /\ j \in Nat
  BY DEF Current
<1>2. l[1] = i /\ l[2] = j
  OBVIOUS
<1>3. PICK f, t : /\ Named(s, i, f, t) /\ b = SubSeq(s, f, t - 1)
                  /\ ParseFlags(q) = ParseFlags(SubSeq(s, t, n))
  <2>1. CASE InFunc(s, i, m, b, q)
    <3>1. PICK f \in (i + 2)..j : /\ \A p \in (i + 1)..(f - 1) : s[p] = Blank
                                  /\ \A p \in f..n : s[p] \in Word
                                  /\ b = SubSeq(s, f, n) /\ q = <<>>
      BY <2>1 DEF InFunc
    <3>2. f # j
      <4>1. f \in Nat /\ f >= 1 /\ f <= n + 1 /\ n <= Len(s)
        BY <1>1
      <4>2. SubSeq(s, f, n) # <<>>
        BY <3>1
      <4> HIDE DEF n
      <4> QED BY <1>1, <4>1, <4>2, PartEmpty
    <3>3. Named(s, i, f, j) /\ j - 1 = n
      BY <1>1, <3>1, <3>2 DEF Named
    <3>4. SubSeq(s, j, n) = <<>>
      <4>1. j \in Nat /\ j >= 1 /\ j <= n + 1 /\ n <= Len(s) /\ j = n + 1
        BY <1>1
      <4> HIDE DEF n, j
      <4> QED BY <1>1, <4>1, PartEmpty
    <3>5. b = SubSeq(s, f, j - 1) /\ ParseFlags(q) = ParseFlags(SubSeq(s, j, n))
      BY <3>1, <3>3, <3>4
    <3> QED BY <3>3, <3>5
  <2>2. CASE InParam(s, i, m, b, q)
    <3>1. PICK f, t : /\ Named(s, i, f, t) /\ t <= n
                      /\ b = SubSeq(s, f, t - 1) /\ q = SubSeq(s, t + 1, n)
      BY <2>2 DEF InParam
    <3>2. t \in 1..n /\ s[t] = Blank
      BY <1>1, <3>1 DEF Named
    <3>3. ParseFlags(SubSeq(s, t, n)) = ParseFlags(SubSeq(s, t + 1, n))
      BY <3>2, FlagsBehind
    <3> QED BY <3>1, <3>3
  <2> QED BY <2>1, <2>2
<1>4. WordsAt(s, i, j) # {} /\ s[i + 1] = Blank /\ From(s, i, j) = f /\ To(s, i, j) = t
  BY <1>1, <1>3, NameFound
<1>5. /\ l \in LineSpans(s)
      /\ LibsUpTo(s, j) = LibsUpTo(s, n) \cup ({l} \cap LibLines(s))
      /\ DoneLines(s, j) = DoneLines(s, n) \cup {k \in {l} : k \in FuncLines(s) /\ LibsBefore(s, i) # {}}
      /\ LibsBefore(s, i) = LibsUpTo(s, n)
  BY LastAdds
<1>6. l \in FuncLines(s) /\ l \notin LibLines(s)
  BY <1>2, <1>4, <1>5 DEF FuncLines, LibLines
<1>7. g \in Functions
  <2>1. ParseFlags(q) \in SUBSET Flag
    BY GeneratorAssumption DEF ParseFlags, WordsOf
  <2> QED BY <2>1 DEF Functions
<1>8. Listed(s, i, j) = [file |-> SubSeq(s, LastLib(s, i)[1] + 1, LastLib(s, i)[2] - 1),
                         name |-> b, params |-> ArgsOf(b), flags |-> ParseFlags(q)]
  <2>1. NameAt(s, i, j) = b /\ ParseFlags(SubSeq(s, To(s, i, j), j - 1)) = ParseFlags(q)
    <3>1. j - 1 = n
      BY <1>1
    <3> QED BY <1>3, <1>4, <3>1 DEF NameAt
  <2> QED BY <2>1, ListedForm
<1>9. LibsUpTo(s, j) = LibsUpTo(s, n)
  <2> HIDE DEF l
  <2> QED BY <1>5, <1>6
<1>10. \A k : Newest(s, j, k) <=> Newest(s, n, k)
  BY <1>9 DEF Newest
<1>11. CASE LibsBefore(s, i) = {}
  <2>1. DoneLines(s, j) = DoneLines(s, n)
    BY <1>5, <1>11
  <2>2. ls = <<>>
    BY <1>5, <1>11 DEF Done
  <2>3. r = ls
    BY <2>2 DEF AddTo
  <2> QED BY <1>9, <1>10, <2>1, <2>3 DEF Done, Found
<1>12. CASE LibsBefore(s, i) # {}
  <2>1. Newest(s, n, LastLib(s, i))
    BY <1>5, <1>12, LastLibIn DEF Newest
  <2>2. ls # <<>> /\ ls[1].file = SubSeq(s, LastLib(s, i)[1] + 1, LastLib(s, i)[2] - 1)
    BY <2>1 DEF Done
  <2>3. Listed(s, i, j) = Entry(ls[1], g)
    BY <1>8, <2>2 DEF Entry, Function
  <2>4. DoneLines(s, j) = DoneLines(s, n) \cup {l}
    <3> HIDE DEF l
    <3> QED BY <1>5, <1>6, <1>12
  <2>5. {Listed(s, k[1], k[2]) : k \in DoneLines(s, j)}
           = {Listed(s, k[1], k[2]) : k \in DoneLines(s, n)} \cup {Listed(s, i, j)}
    <3>1. Listed(s, l[1], l[2]) = Listed(s, i, j)
      BY <1>2
    <3> HIDE DEF l
    <3> QED BY <2>4, <3>1
  <2>6. Listed(s, i, j).flags = ParseFlags(q)
    BY <1>8
  <2>7. Found(s, j) = Found(s, n) \cup (IF "IGNORE" \in ParseFlags(q) THEN {} ELSE {Entry(ls[1], g)})
    <3> HIDE DEF g, j
    <3> QED BY <2>3, <2>5, <2>6 DEF Found
  <2>8. CASE "IGNORE" \in ParseFlags(q)
    <3>1. r = ls /\ Found(s, j) = Found(s, n)
      BY <2>7, <2>8
    <3> QED BY <1>9, <1>10, <3>1 DEF Done
  <2>9. CASE "IGNORE" \notin ParseFlags(q)
    <3>1. r = AddTo(ls, g) /\ Found(s, j) = Found(s, n) \cup {Entry(ls[1], g)}
      BY <2>7, <2>9
    <3> HIDE DEF g
    <3>2. /\ r \in Seq(Libs) /\ r # <<>> /\ r[1].file = ls[1].file
          /\ Content(r) = Content(ls) \cup {Entry(ls[1], g)}
      BY <1>7, <2>2, <3>1, FunctionAdded
    <3> HIDE DEF j
    <3>3. Content(r) = Found(s, j)
      BY <3>1, <3>2 DEF Done
    <3>4. LibsUpTo(s, j) # {}
      BY <1>5, <1>9, <1>12
    <3>5. \A k : Newest(s, j, k) => r # <<>> /\ r[1].file = SubSeq(s, k[1] + 1, k[2] - 1)
      BY <1>10, <3>2 DEF Done
    <3>6. Done(s, j, r)
      BY <3>3, <3>4, <3>5 DEF Done
    <3> QED BY <3>2, <3>6 DEF j
  <2> QED BY <2>8, <2>9
<1> QED
  BY <1>11, <1>12

LEMMA LineEnd ==
    ASSUME NEW s \in Seq(Sym), NEW i, Current(s, i), libs \in Seq(Libs), Done(s, Len(s), libs),
           buf \in Seq(Char), InLine(s, i, fsm, buf, bufParam)
    PROVE  LineRead \in Seq(Libs) /\ Done(s, Len(s) + 1, LineRead)
<1>1. CASE buf = <<>>
  <2>1. LineRead = libs
    BY <1>1 DEF LineRead
  <2>2. InLine(s, i, fsm, <<>>, bufParam)
    BY <1>1
  <2>3. Done(s, Len(s) + 1, libs)
    BY <2>2, LineEndEmpty
  <2> QED BY <2>1, <2>3
<1>2. CASE buf # <<>> /\ InName(s, i, fsm, buf, bufParam)
  <2>1. fsm = "FSM_LIB"
    BY <1>2 DEF InName
  <2>2. PICK r : r = LineRead
    OBVIOUS
  <2>3. Starts(Library(buf), libs, r)
    BY <1>2, <2>1, <2>2 DEF LineRead, Starts
  <2>4. r \in Seq(Libs) /\ Done(s, Len(s) + 1, r)
    BY <1>2, <2>3, LineEndLib
  <2> QED BY <2>2, <2>4
<1>3. CASE buf # <<>> /\ (InFunc(s, i, fsm, buf, bufParam) \/ InParam(s, i, fsm, buf, bufParam))
  <2>1. fsm # "FSM_LIB"
    BY <1>3 DEF InFunc, InParam
  <2>2. PICK r : r = LineRead
    OBVIOUS
  <2>3. r = IF "IGNORE" \in ParseFlags(bufParam) THEN libs
            ELSE AddTo(libs, Function(buf, ParseFlags(bufParam)))
    BY <1>3, <2>1, <2>2 DEF LineRead
  <2>4. r \in Seq(Libs) /\ Done(s, Len(s) + 1, r)
    BY <1>3, <2>3, LineEndFunc
  <2> QED BY <2>2, <2>4
<1> QED
  BY <1>1, <1>2, <1>3 DEF InLine

-----------------------------------------------------------------------------
(* The parser's state after one more symbol.                                *)

LEMMA CurrentGrows ==
    ASSUME NEW s \in Seq(Sym), NEW c \in Sym, NEW t, Grows(s, c, t), c # NewLine,
           NEW i, Current(s, i)
    PROVE  Current(t, i)
<1>1. /\ Len(s) \in Nat /\ Len(t) = Len(s) + 1 /\ t[Len(s) + 1] = c
      /\ \A p \in 1..Len(s) : t[p] = s[p]
  BY Grown
<1>2. i \in 0..Len(s) /\ (i = 0 \/ s[i] = NewLine) /\ \A p \in (i + 1)..Len(s) : s[p] # NewLine
  BY DEF Current
<1> DEFINE n == Len(s)
           k == Len(t)
<1> HIDE DEF n, k
<1>3. n \in Nat /\ k = n + 1 /\ i \in 0..n
  BY <1>1, <1>2 DEF n, k
<1>4. i \in 0..k /\ (i = 0 \/ t[i] = NewLine)
  BY <1>1, <1>2, <1>3 DEF n
<1>5. ASSUME NEW p \in (i + 1)..k PROVE t[p] # NewLine
  <2>1. p = n + 1 \/ p \in (i + 1)..n
    BY <1>3
  <2>2. p \in (i + 1)..n => p \in 1..n
    BY <1>3
  <2> QED BY <1>1, <1>2, <2>1, <2>2 DEF n
<1> QED
  BY <1>4, <1>5 DEF Current, k

LEMMA NewLineStarts ==
    ASSUME NEW s \in Seq(Sym), NEW t, Grows(s, NewLine, t)
    PROVE  Current(t, Len(t)) /\ InLine(t, Len(t), "FSM_LIB", <<>>, <<>>)
<1> DEFINE k == Len(t)
           a == k + 1
<1>1. t \in Seq(Sym) /\ Len(s) \in Nat /\ k = Len(s) + 1 /\ t[k] = NewLine
  BY Grown DEF Sym
<1>2. Current(t, k)
  BY <1>1 DEF Current
<1>3. SubSeq(t, a, k) = <<>>
  <2>1. a \in Nat /\ k \in Nat /\ a >= 1 /\ k <= Len(t) /\ a = k + 1
    BY <1>1
  <2> HIDE DEF a, k
  <2> QED BY <1>1, <2>1, PartEmpty
<1>4. ~(k < Len(t))
  BY <1>1
<1> HIDE DEF k
<1>5. InName(t, k, "FSM_LIB", <<>>, <<>>)
  BY <1>3, <1>4 DEF InName, a, k
<1> QED
  BY <1>2, <1>5 DEF InLine, k

\* ReadBlank and ReadWord: fsm, buf and bufParam before and after.
OnBlank(m, b, q, m2, b2, q2) ==
    \/ b = <<>> /\ m2 = "FSM_FUNC" /\ b2 = b /\ q2 = q
    \/ /\ b # <<>>
       /\ m2 = IF m = "FSM_FUNC" THEN "FSM_FUNC_PARAM" ELSE m
       /\ b2 = IF m = "FSM_LIB" THEN Append(b, Blank) ELSE b
       /\ q2 = IF m = "FSM_FUNC_PARAM" THEN Append(q, Blank) ELSE q
OnWord(w, m, b, q, m2, b2, q2) ==
    /\ m2 = m
    /\ IF m = "FSM_FUNC_PARAM" THEN q2 = Append(q, w) /\ b2 = b ELSE b2 = Append(b, w) /\ q2 = q

NameIn(s, f, e) == SubSeq(s, f, e - 1)

LEMMA NamedGrows ==
    ASSUME NEW s \in Seq(Sym), NEW c \in Sym, NEW t, Grows(s, c, t), NEW i \in 0..Len(s),
           NEW f, NEW e, Named(s, i, f, e), e <= Len(s)
    PROVE  Named(t, i, f, e) /\ e <= Len(t) /\ NameIn(t, f, e) = NameIn(s, f, e)
<1>1. /\ Len(s) \in Nat /\ Len(t) = Len(s) + 1 /\ \A p \in 1..Len(s) : t[p] = s[p]
  BY Grown
<1>2. /\ f \in (i + 2)..Len(s) /\ e \in (f + 1)..(Len(s) + 1)
      /\ \A p \in (i + 1)..(f - 1) : s[p] = Blank
      /\ \A p \in f..(e - 1) : s[p] \in Word
      /\ s[e] = Blank
  BY <1>1 DEF Named
<1>3. f \in Nat /\ e \in Nat /\ i \in Nat /\ i + 2 <= f /\ f < e /\ e <= Len(s)
  BY <1>1, <1>2
<1>4. f \in (i + 2)..Len(t) /\ e \in (f + 1)..(Len(t) + 1) /\ e <= Len(t)
  BY <1>1, <1>3
<1>5. \A p \in (i + 1)..(f - 1) : t[p] = Blank
  <2>1. \A p \in (i + 1)..(f - 1) : p \in 1..Len(s)
    BY <1>1, <1>3
  <2> QED BY <1>1, <1>2, <2>1
<1>6. \A p \in f..(e - 1) : t[p] \in Word
  <2>1. \A p \in f..(e - 1) : p \in 1..Len(s)
    BY <1>1, <1>3
  <2> QED BY <1>1, <1>2, <2>1
<1>7. t[e] = Blank
  BY <1>1, <1>2, <1>3
<1>8. Named(t, i, f, e)
  BY <1>4, <1>5, <1>6, <1>7 DEF Named
<1>9. NameIn(t, f, e) = NameIn(s, f, e)
  <2> DEFINE y == e - 1
  <2>1. y \in Nat /\ f >= 1 /\ y <= Len(s)
    BY <1>1, <1>3
  <2>2. SubSeq(t, f, y) = SubSeq(s, f, y)
    <3> HIDE DEF y
    <3> QED BY <1>3, <2>1, GrownPart
  <2> QED BY <2>2 DEF NameIn
<1> QED
  BY <1>4, <1>8, <1>9

\* In the parameters of a function: the symbol is added to them.
LEMMA ParamStays ==
    ASSUME NEW s \in Seq(Sym), NEW c \in Sym, NEW t, Grows(s, c, t), NEW i \in 0..Len(s),
           NEW m, NEW b, NEW q, InParam(s, i, m, b, q), NEW q2, q2 = Append(q, c)
    PROVE  InParam(t, i, m, b, q2)
<1>1. PICK f, e : /\ Named(s, i, f, e) /\ e <= Len(s)
                  /\ b = NameIn(s, f, e) /\ q = SubSeq(s, e + 1, Len(s))
  BY DEF InParam, NameIn
<1>2. Named(t, i, f, e) /\ e <= Len(t) /\ NameIn(t, f, e) = NameIn(s, f, e)
  <2>1. Named(s, i, f, e) /\ e <= Len(s)
    BY <1>1
  <2> QED BY <2>1, NamedGrows
<1>3. SubSeq(t, e + 1, Len(t)) = Append(SubSeq(s, e + 1, Len(s)), c)
  <2> DEFINE a == e + 1
  <2>1. e \in (f + 1)..(Len(s) + 1) /\ f \in (i + 2)..Len(s) /\ Len(s) \in Nat
    BY <1>1 DEF Named
  <2>2. a \in 1..(Len(s) + 1)
    BY <1>1, <2>1
  <2>3. SubSeq(t, a, Len(t)) = Append(SubSeq(s, a, Len(s)), c)
    <3> HIDE DEF a
    <3> QED BY <2>2, GrownTail
  <2> QED BY <2>3
<1>4. q2 = SubSeq(t, e + 1, Len(t)) /\ b = NameIn(t, f, e) /\ m = "FSM_FUNC_PARAM"
  BY <1>1, <1>2, <1>3 DEF InParam
<1> QED
  BY <1>2, <1>4 DEF InParam, NameIn

LEMMA BlankRead ==
    ASSUME NEW s \in Seq(Sym), NEW t, Grows(s, Blank, t), NEW i, Current(s, i),
           NEW m, NEW b, NEW q, InLine(s, i, m, b, q),
           NEW m2, NEW b2, NEW q2, OnBlank(m, b, q, m2, b2, q2)
    PROVE  InLine(t, i, m2, b2, q2)
<1> DEFINE n == Len(s)
           k == Len(t)
<1>1. /\ t \in Seq(Sym) /\ n \in Nat /\ k = n + 1 /\ t[k] = Blank
      /\ \A p \in 1..n : t[p] = s[p]
  <2> Blank \in Sym
    BY DEF Sym
  <2> QED BY Grown
<1>2. i \in 0..n /\ i \in Nat
  BY DEF Current
<1>3. Blank \in Sym
  BY DEF Sym
<1>4. \A a \in 1..(n + 1) : SubSeq(t, a, k) = Append(SubSeq(s, a, n), Blank)
  BY <1>3, GrownTail
<1>5. \A a \in Nat : a >= 1 /\ a <= n + 1 => (SubSeq(s, a, n) = <<>> <=> a = n + 1)
  <2> SUFFICES ASSUME NEW a \in Nat, a >= 1, a <= n + 1
               PROVE  SubSeq(s, a, n) = <<>> <=> a = n + 1
    OBVIOUS
  <2>1. n \in Nat /\ n <= Len(s)
    BY <1>1
  <2> HIDE DEF n
  <2> QED BY <2>1, PartEmpty
<1>6. SubSeq(t, k + 1, k) = <<>>
  <2> DEFINE a == k + 1
  <2>1. a \in Nat /\ k \in Nat /\ a >= 1 /\ k <= Len(t) /\ a = k + 1
    BY <1>1
  <2> HIDE DEF a, k
  <2>2. SubSeq(t, a, k) = <<>>
    BY <1>1, <2>1, PartEmpty
  <2> QED BY <2>2 DEF a
<1>7. CASE InName(s, i, m, b, q)
  <2>1. m = "FSM_LIB" /\ q = <<>> /\ b = SubSeq(s, i + 1, n) /\ (i < n => s[i + 1] # Blank)
    BY <1>7 DEF InName
  <2>2. i + 1 \in Nat /\ i + 1 >= 1 /\ i + 1 <= n + 1 /\ i + 1 \in 1..(n + 1)
    BY <1>1, <1>2
  <2>3. CASE b = <<>>
    <3>1. i = n
      BY <1>1, <1>2, <1>5, <2>1, <2>2, <2>3
    <3>2. m2 = "FSM_FUNC" /\ b2 = <<>> /\ q2 = <<>>
      BY <2>1, <2>3 DEF OnBlank
    <3>3. k + 1 \in (i + 2)..(k + 1) /\ (\A p \in (i + 1)..((k + 1) - 1) : t[p] = Blank)
          /\ (\A p \in (k + 1)..k : t[p] \in Word)
      BY <1>1, <3>1
    <3>4. InFunc(t, i, m2, b2, q2)
      <4> HIDE DEF n, k
      <4>1. b2 = SubSeq(t, k + 1, k)
        BY <1>6, <3>2
      <4> QED BY <3>2, <3>3, <4>1 DEF InFunc, k
    <3> QED BY <3>4 DEF InLine
  <2>4. CASE b # <<>>
    <3>1. i < n
      BY <1>1, <1>2, <1>5, <2>1, <2>2, <2>4
    <3>2. m2 = "FSM_LIB" /\ b2 = Append(b, Blank) /\ q2 = <<>>
      BY <2>1, <2>4 DEF OnBlank
    <3>3. i + 1 \in 1..n /\ t[i + 1] = s[i + 1]
      BY <1>1, <1>2, <3>1
    <3>4. InName(t, i, m2, b2, q2)
      BY <1>4, <2>1, <2>2, <3>1, <3>2, <3>3 DEF InName
    <3> QED BY <3>4 DEF InLine
  <2> QED BY <2>3, <2>4
<1>8. CASE InFunc(s, i, m, b, q)
  <2>1. PICK f \in (i + 2)..(n + 1) : /\ \A p \in (i + 1)..(f - 1) : s[p] = Blank
                                      /\ \A p \in f..n : s[p] \in Word
                                      /\ b = SubSeq(s, f, n)
    BY <1>8 DEF InFunc
  <2>2. m = "FSM_FUNC" /\ q = <<>>
    BY <1>8 DEF InFunc
  <2>3. f \in Nat /\ f >= 1 /\ f <= n + 1 /\ f >= i + 2
    BY <1>1, <1>2
  <2>4. CASE b = <<>>
    <3>1. f = n + 1
      BY <1>5, <2>1, <2>3, <2>4
    <3>2. m2 = "FSM_FUNC" /\ b2 = <<>> /\ q2 = <<>>
      BY <2>2, <2>4 DEF OnBlank
    <3>3. k + 1 \in (i + 2)..(k + 1) /\ (\A p \in (k + 1)..k : t[p] \in Word)
      BY <1>1, <1>2, <2>3, <3>1
    <3>4. ASSUME NEW p \in (i + 1)..((k + 1) - 1) PROVE t[p] = Blank
      <4>1. p = k \/ p \in (i + 1)..(f - 1)
        BY <1>1, <1>2, <2>3, <3>1
      <4>2. p \in (i + 1)..(f - 1) => p \in 1..n
        BY <1>1, <1>2, <2>3, <3>1
      <4> QED BY <1>1, <2>1, <4>1, <4>2
    <3>5. InFunc(t, i, m2, b2, q2)
      <4> HIDE DEF n, k
      <4>1. b2 = SubSeq(t, k + 1, k)
        BY <1>6, <3>2
      <4> QED BY <3>2, <3>3, <3>4, <4>1 DEF InFunc, k
    <3> QED BY <3>5 DEF InLine
  <2>5. CASE b # <<>>
    <3>1. f <= n
      BY <1>1, <1>5, <2>1, <2>3, <2>5
    <3>2. m2 = "FSM_FUNC_PARAM" /\ b2 = b /\ q2 = <<>>
      BY <2>2, <2>5 DEF OnBlank
    <3>3. f \in (i + 2)..k /\ k \in (f + 1)..(k + 1)
      BY <1>1, <1>2, <2>3, <3>1
    <3>4. \A p \in (i + 1)..(f - 1) : t[p] = Blank
      <4>1. \A p \in (i + 1)..(f - 1) : p \in 1..n
        BY <1>1, <1>2, <2>3, <3>1
      <4> QED BY <1>1, <2>1, <4>1
    <3>5. \A p \in f..(k - 1) : t[p] \in Word
      <4>1. \A p \in f..(k - 1) : p \in 1..n /\ p \in f..n
        BY <1>1, <1>2, <2>3, <3>1
      <4> QED BY <1>1, <2>1, <4>1
    <3>6. Named(t, i, f, k)
      BY <1>1, <3>3, <3>4, <3>5 DEF Named
    <3>7. b = SubSeq(t, f, k - 1)
      <4>1. SubSeq(t, f, n) = SubSeq(s, f, n)
        <5>1. n <= Len(s)
          BY <1>1
        <5> HIDE DEF n
        <5> QED BY <1>1, <1>3, <2>3, <5>1, GrownPart
      <4>2. k - 1 = n
        BY <1>1
      <4> QED BY <2>1, <4>1, <4>2
    <3>8. k <= Len(t)
      BY <1>1
    <3>9. InParam(t, i, m2, b2, q2)
      <4> HIDE DEF n
      <4> QED BY <1>6, <3>2, <3>6, <3>7, <3>8 DEF InParam
    <3> QED BY <3>9 DEF InLine
  <2> QED BY <2>4, <2>5
<1>9. CASE InParam(s, i, m, b, q)
  <2>1. m = "FSM_FUNC_PARAM" /\ b # <<>>
    <3>1. PICK f, e : Named(s, i, f, e) /\ b = SubSeq(s, f, e - 1)
      BY <1>9 DEF InParam
    <3> DEFINE y == e - 1
    <3>2. f \in Nat /\ y \in Nat /\ f >= 1 /\ y <= Len(s) /\ f <= y + 1 /\ f # y + 1
      BY <1>1, <1>2, <3>1 DEF Named
    <3>3. b = SubSeq(s, f, y)
      BY <3>1
    <3>4. SubSeq(s, f, y) # <<>>
      <4> HIDE DEF y
      <4> QED BY <3>2, PartEmpty
    <3> QED BY <1>9, <3>3, <3>4 DEF InParam
  <2>2. m2 = "FSM_FUNC_PARAM" /\ b2 = b /\ q2 = Append(q, Blank)
    BY <2>1 DEF OnBlank
  <2>3. InParam(t, i, m, b, q2)
    BY <1>2, <1>3, <1>9, <2>2, ParamStays
  <2> QED BY <2>1, <2>2, <2>3 DEF InLine
<1> QED
  BY <1>7, <1>8, <1>9 DEF InLine

LEMMA WordRead ==
    ASSUME NEW s \in Seq(Sym), NEW w \in Word, NEW t, Grows(s, w, t), NEW i, Current(s, i),
           NEW m, NEW b, NEW q, InLine(s, i, m, b, q),
           NEW m2, NEW b2, NEW q2, OnWord(w, m, b, q, m2, b2, q2)
    PROVE  InLine(t, i, m2, b2, q2)
<1> DEFINE n == Len(s)
           k == Len(t)
<1>1. w \in Sym
  BY DEF Sym
<1>2. /\ t \in Seq(Sym) /\ n \in Nat /\ k = n + 1 /\ t[k] = w
      /\ \A p \in 1..n : t[p] = s[p]
  BY <1>1, Grown
<1>3. i \in 0..n /\ i \in Nat
  BY DEF Current
<1>4. \A a \in 1..(n + 1) : SubSeq(t, a, k) = Append(SubSeq(s, a, n), w)
  BY <1>1, GrownTail
<1>5. CASE InName(s, i, m, b, q)
  <2>1. m = "FSM_LIB" /\ q = <<>> /\ b = SubSeq(s, i + 1, n) /\ (i < n => s[i + 1] # Blank)
    BY <1>5 DEF InName
  <2>2. m2 = "FSM_LIB" /\ b2 = Append(b, w) /\ q2 = <<>>
    BY <2>1 DEF OnWord
  <2>3. t[i + 1] # Blank
    <3>1. i = n \/ (i < n /\ i + 1 \in 1..n)
      BY <1>2, <1>3
    <3> QED BY <1>2, <2>1, <3>1, NamesApart
  <2>4. i + 1 \in 1..(n + 1)
    BY <1>2, <1>3
  <2>5. b2 = SubSeq(t, i + 1, k)
    BY <1>4, <2>1, <2>2, <2>4
  <2> QED BY <2>2, <2>3, <2>5 DEF InName, InLine
<1>6. CASE InFunc(s, i, m, b, q)
  <2>1. PICK f \in (i + 2)..(n + 1) : /\ \A p \in (i + 1)..(f - 1) : s[p] = Blank
                                      /\ \A p \in f..n : s[p] \in Word
                                      /\ b = SubSeq(s, f, n)
    BY <1>6 DEF InFunc
  <2>2. m2 = "FSM_FUNC" /\ b2 = Append(b, w) /\ q2 = <<>>
    BY <1>6 DEF InFunc, OnWord
  <2>3. f \in (i + 2)..(k + 1) /\ f \in 1..(n + 1)
    BY <1>2, <1>3
  <2>4. \A p \in (i + 1)..(f - 1) : t[p] = Blank
    <3>1. \A p \in (i + 1)..(f - 1) : p \in 1..n
      BY <1>2, <1>3
    <3> QED BY <1>2, <2>1, <3>1
  <2>5. ASSUME NEW p \in f..k PROVE t[p] \in Word
    <3>1. p = k \/ (p \in f..n /\ p \in 1..n)
      BY <1>2, <1>3
    <3> QED BY <1>2, <2>1, <3>1
  <2>6. b2 = SubSeq(t, f, k)
    BY <1>4, <2>1, <2>2, <2>3
  <2>7. InFunc(t, i, m2, b2, q2)
    BY <2>2, <2>3, <2>4, <2>5, <2>6 DEF InFunc
  <2> QED BY <2>7 DEF InLine
<1>7. CASE InParam(s, i, m, b, q)
  <2>1. m2 = m /\ b2 = b /\ q2 = Append(q, w)
    BY <1>7 DEF InParam, OnWord
  <2>2. InParam(t, i, m, b, q2)
    BY <1>1, <1>3, <1>7, <2>1, ParamStays
  <2> QED BY <2>1, <2>2 DEF InLine
<1> QED
  BY <1>5, <1>6, <1>7 DEF InLine

\* What main writes of a list.
AsmOf(ls) == UNION {AsmLines(f) : f \in UNION {ToSet(l.func) : l \in ToSet(ls)}}
DefOf(ls) == UNION {UNION {DefLines(l, f) : f \in ToSet(l.func)} : l \in ToSet(ls)}

\* The inductive invariant of the generator: the list holds what the complete lines say,
\* and the buffers are the line that is being read; when main is over, every line counts.
GenInv ==
    /\ GenTypeOK /\ libs \in Seq(Libs) /\ Clean \in Seq(Sym)
    /\ ~written => /\ Done(Clean, Len(Clean), libs)
                   /\ \E i : Current(Clean, i) /\ InLine(Clean, i, fsm, buf, bufParam)
    /\ written => /\ Done(Clean, Len(Clean) + 1, libs)
                  /\ asm = AsmOf(libs) /\ def = DefOf(libs)

LEMMA GenInvInit == GenInit => GenInv
<1> SUFFICES ASSUME GenInit PROVE GenInv
  OBVIOUS
<1>1. /\ text = <<>> /\ fsm = "FSM_LIB" /\ buf = <<>> /\ bufParam = <<>>
      /\ libs = <<>> /\ written = FALSE
  BY DEF GenInit
<1>2. Clean = <<>>
  BY <1>1, CleanFacts
<1>3. GenTypeOK /\ libs \in Seq(Libs)
  <2>1. text \in Seq(Symbol) /\ Len(text) = 0 /\ libs \in Seq(Libs)
        /\ buf \in Seq(Word \cup {Blank}) /\ bufParam \in Seq(Word \cup {Blank})
    BY <1>1
  <2>2. 0 <= MaxText
    BY GeneratorAssumption
  <2> QED BY <1>1, <2>1, <2>2 DEF GenTypeOK
<1>4. PICK s : s = <<>>
  OBVIOUS
<1>5. s \in Seq(Sym) /\ Len(s) = 0
  BY <1>4
<1>6. Current(s, 0)
  BY <1>5 DEF Current
<1>7. InLine(s, 0, "FSM_LIB", <<>>, <<>>)
  <2>1. SubSeq(s, 1, 0) = <<>>
    BY <1>5
  <2>2. ~(0 < Len(s)) /\ 0 + 1 = 1 /\ SubSeq(s, 0 + 1, Len(s)) = <<>>
    BY <1>5, <2>1
  <2> QED BY <2>2 DEF InLine, InName
<1>8. \A l \in LineSpans(s) : ~(l[2] <= 0)
  <2> SUFFICES ASSUME NEW l \in LineSpans(s) PROVE ~(l[2] <= 0)
    OBVIOUS
  <2>1. l[2] \in 1..(Len(s) + 1)
    BY <1>5, SpanPair
  <2> QED BY <1>5, <2>1
<1>9. Done(s, 0, <<>>)
  <2>1. LibsUpTo(s, 0) = {} /\ DoneLines(s, 0) = {}
    BY <1>8 DEF LibsUpTo, DoneLines, LibLines, FuncLines
  <2>2. Found(s, 0) = {}
    BY <2>1 DEF Found
  <2>3. Content(<<>>) = {}
    BY DEF Content, ToSet
  <2> QED BY <2>1, <2>2, <2>3 DEF Done, Newest
<1>10. /\ Clean \in Seq(Sym) /\ Done(Clean, Len(Clean), libs)
       /\ Current(Clean, 0) /\ InLine(Clean, 0, fsm, buf, bufParam)
  BY <1>1, <1>2, <1>4, <1>5, <1>6, <1>7, <1>9
<1> QED
  BY <1>1, <1>3, <1>10 DEF GenInv

LEMMA CleanPrimed == Clean' = CleanOf(text')
BY DEF Clean, CleanOf, Kept

LEMMA GenInvEnd == GenInv /\ EndOfFile => GenInv'
<1> SUFFICES ASSUME GenInv, EndOfFile PROVE GenInv'
  OBVIOUS
<1>1. /\ ~written /\ written' = TRUE /\ libs' = LineRead /\ text' = text
      /\ fsm' = "FSM_LIB" /\ buf' = <<>> /\ bufParam' = <<>>
      /\ asm' = AsmOf(libs') /\ def' = DefOf(libs')
  BY DEF EndOfFile, AsmOf, DefOf
<1>2. PICK s, i : /\ s = Clean /\ s \in Seq(Sym) /\ Done(s, Len(s), libs)
                  /\ Current(s, i) /\ InLine(s, i, fsm, buf, bufParam)
  BY <1>1 DEF GenInv
<1>3. libs \in Seq(Libs) /\ buf \in Seq(Char) /\ GenTypeOK
  BY DEF GenInv, GenTypeOK, Char
<1>4. libs' \in Seq(Libs) /\ Done(s, Len(s) + 1, libs')
  <2>1. LineRead \in Seq(Libs) /\ Done(s, Len(s) + 1, LineRead)
    BY <1>2, <1>3, LineEnd
  <2> QED BY <1>1, <2>1
<1>5. Clean' = s
  BY <1>1, <1>2, CleanFacts, CleanPrimed
<1>6. GenTypeOK'
  BY <1>1, <1>3 DEF GenTypeOK
<1> QED
  BY <1>1, <1>2, <1>4, <1>5, <1>6 DEF GenInv

LEMMA GenInvSymbol == ASSUME GenInv, NEW c \in Symbol, ReadSymbol(c) PROVE GenInv'
<1>1. /\ ~written /\ written' = written /\ Len(text) < MaxText /\ text' = Append(text, c)
      /\ text \in Seq(Symbol) /\ GenTypeOK
  BY DEF ReadSymbol, GenInv, GenTypeOK
<1>2. PICK s, i : /\ s = Clean /\ s \in Seq(Sym) /\ Done(s, Len(s), libs)
                  /\ Current(s, i) /\ InLine(s, i, fsm, buf, bufParam)
  BY <1>1 DEF GenInv
<1>3. libs \in Seq(Libs) /\ buf \in Seq(Char) /\ bufParam \in Seq(Char) /\ Len(s) \in Nat
  BY <1>2 DEF GenInv, GenTypeOK, Char
<1>4. PICK t : t = Clean'
  OBVIOUS
<1>5. t = IF c = CarriageReturn THEN s ELSE Append(s, c)
  <2>1. CleanOf(Append(text, c)) = IF c = CarriageReturn THEN CleanOf(text) ELSE Append(CleanOf(text), c)
    BY <1>1, CleanStep
  <2>2. t = CleanOf(Append(text, c)) /\ s = CleanOf(text)
    BY <1>1, <1>2, <1>4, CleanFacts, CleanPrimed
  <2> QED BY <2>1, <2>2
<1>6. text' \in Seq(Symbol) /\ Len(text') <= MaxText
  BY <1>1, GeneratorAssumption
<1> SUFFICES /\ fsm' \in {"FSM_LIB", "FSM_FUNC", "FSM_FUNC_PARAM"}
             /\ buf' \in Seq(Char) /\ bufParam' \in Seq(Char)
             /\ libs' \in Seq(Libs) /\ t \in Seq(Sym) /\ Done(t, Len(t), libs')
             /\ \E j : Current(t, j) /\ InLine(t, j, fsm', buf', bufParam')
  <2>1. GenTypeOK'
    BY <1>1, <1>6 DEF GenTypeOK, Char
  <2> QED BY <1>1, <1>4, <2>1 DEF GenInv
<1>7. CASE c = CarriageReturn
  <2>1. /\ libs' = libs /\ fsm' = fsm /\ buf' = buf /\ bufParam' = bufParam /\ t = s
    BY <1>5, <1>7, NamesApart DEF ReadSymbol, ReadNewLine, ReadBlank, ReadWord
  <2> QED BY <1>1, <1>2, <1>3, <2>1 DEF GenTypeOK
<1>8. ASSUME c # CarriageReturn
      PROVE  c \in Sym /\ Grows(s, c, t) /\ t \in Seq(Sym)
  <2>1. c \in Sym
    BY <1>8 DEF Symbol, Sym
  <2>2. Grows(s, c, t)
    BY <1>5, <1>8 DEF Grows
  <2> QED BY <1>2, <2>1, <2>2, Grown
<1>9. CASE c = NewLine
  <2>1. libs' = LineRead /\ fsm' = "FSM_LIB" /\ buf' = <<>> /\ bufParam' = <<>>
    BY <1>9, NamesApart DEF ReadSymbol, ReadNewLine
  <2>2. LineRead \in Seq(Libs) /\ Done(s, Len(s) + 1, LineRead)
    BY <1>2, <1>3, LineEnd
  <2>3. c \in Sym /\ Grows(s, c, t) /\ t \in Seq(Sym)
    BY <1>8, <1>9, NamesApart
  <2>4. PICK ls, e : ls = libs' /\ e = Len(s) + 1
    OBVIOUS
  <2>5. ls \in Seq(Libs) /\ Done(s, e, ls)
    BY <2>1, <2>2, <2>4
  <2>6. Done(t, Len(t), ls)
    <3>1. e = IF c = NewLine THEN Len(s) + 1 ELSE Len(s)
      BY <1>9, <2>4
    <3> QED BY <1>2, <2>3, <2>5, <3>1, DoneStays
  <2>7. Current(t, Len(t)) /\ InLine(t, Len(t), "FSM_LIB", <<>>, <<>>)
    BY <1>2, <1>9, <2>3, NewLineStarts
  <2> QED BY <2>1, <2>3, <2>4, <2>5, <2>6, <2>7
<1>10. ASSUME c # NewLine, c # CarriageReturn, libs' = libs
       PROVE  t \in Seq(Sym) /\ libs' \in Seq(Libs) /\ Done(t, Len(t), libs') /\ Current(t, i)
  <2>1. c \in Sym /\ Grows(s, c, t) /\ t \in Seq(Sym)
    BY <1>8, <1>10
  <2>2. PICK e : e = Len(s)
    OBVIOUS
  <2>3. e = (IF c = NewLine THEN Len(s) + 1 ELSE Len(s)) /\ Done(s, e, libs)
    BY <1>2, <1>10, <2>2
  <2>4. Done(t, Len(t), libs)
    BY <1>2, <2>1, <2>3, DoneStays
  <2>5. Current(t, i)
    BY <1>2, <1>10, <2>1, CurrentGrows
  <2> QED BY <1>3, <1>10, <2>1, <2>4, <2>5
<1>11. CASE c = Blank
  <2>1. libs' = libs /\ ReadBlank
    BY <1>11, NamesApart DEF ReadSymbol, ReadBlank
  <2>2. OnBlank(fsm, buf, bufParam, fsm', buf', bufParam')
    BY <2>1 DEF OnBlank, ReadBlank
  <2>3. /\ fsm' \in {"FSM_LIB", "FSM_FUNC", "FSM_FUNC_PARAM"}
        /\ buf' \in Seq(Char) /\ bufParam' \in Seq(Char)
    <3>1. Blank \in Char
      BY DEF Char
    <3>2. /\ buf' = buf \/ buf' = Append(buf, Blank)
          /\ bufParam' = bufParam \/ bufParam' = Append(bufParam, Blank)
      BY <2>2 DEF OnBlank
    <3>3. fsm' \in {"FSM_LIB", "FSM_FUNC", "FSM_FUNC_PARAM"}
      BY <1>1, <2>2 DEF OnBlank, GenTypeOK
    <3>4. Append(buf, Blank) \in Seq(Char) /\ Append(bufParam, Blank) \in Seq(Char)
      BY <1>3, <3>1
    <3> QED BY <1>3, <3>2, <3>3, <3>4
  <2>4. Grows(s, Blank, t)
    BY <1>8, <1>11, NamesApart
  <2>5. InLine(t, i, fsm', buf', bufParam')
    BY <1>2, <2>2, <2>4, BlankRead
  <2>6. t \in Seq(Sym) /\ libs' \in Seq(Libs) /\ Done(t, Len(t), libs') /\ Current(t, i)
    BY <1>10, <1>11, <2>1, NamesApart
  <2> QED BY <2>3, <2>5, <2>6
<1>12. CASE c \in Word
  <2>1. libs' = libs /\ ReadWord(c)
    BY <1>12, NamesApart DEF ReadSymbol, ReadWord
  <2>2. OnWord(c, fsm, buf, bufParam, fsm', buf', bufParam')
    BY <2>1 DEF OnWord, ReadWord
  <2>3. /\ fsm' \in {"FSM_LIB", "FSM_FUNC", "FSM_FUNC_PARAM"}
        /\ buf' \in Seq(Char) /\ bufParam' \in Seq(Char)
    <3>1. c \in Char
      BY <1>12 DEF Char
    <3>2. /\ buf' = buf \/ buf' = Append(buf, c)
          /\ bufParam' = bufParam \/ bufParam' = Append(bufParam, c)
      BY <2>2 DEF OnWord
    <3>3. fsm' \in {"FSM_LIB", "FSM_FUNC", "FSM_FUNC_PARAM"}
      BY <1>1, <2>2 DEF OnWord, GenTypeOK
    <3>4. Append(buf, c) \in Seq(Char) /\ Append(bufParam, c) \in Seq(Char)
      BY <1>3, <3>1
    <3> QED BY <1>3, <3>2, <3>3, <3>4
  <2>4. Grows(s, c, t)
    BY <1>8, <1>12, NamesApart
  <2>5. InLine(t, i, fsm', buf', bufParam')
    BY <1>2, <1>12, <2>2, <2>4, WordRead
  <2>6. t \in Seq(Sym) /\ libs' \in Seq(Libs) /\ Done(t, Len(t), libs') /\ Current(t, i)
    BY <1>10, <1>12, <2>1, NamesApart
  <2> QED BY <2>3, <2>5, <2>6
<1> QED
  BY <1>7, <1>9, <1>11, <1>12 DEF Symbol

LEMMA GenInvCorrect == GenSpec => []GenInv
<1>1. GenInit => GenInv
  BY GenInvInit
<1>2. GenInv /\ [GenNext]_genVars => GenInv'
  <2> SUFFICES ASSUME GenInv, [GenNext]_genVars PROVE GenInv'
    OBVIOUS
  <2>1. CASE EndOfFile
    BY <2>1, GenInvEnd
  <2>2. ASSUME NEW c \in Symbol, ReadSymbol(c) PROVE GenInv'
    BY <2>2, GenInvSymbol
  <2>3. CASE UNCHANGED genVars
    <3>1. /\ text' = text /\ fsm' = fsm /\ buf' = buf /\ bufParam' = bufParam
          /\ libs' = libs /\ asm' = asm /\ def' = def /\ written' = written
      BY <2>3 DEF genVars
    <3>2. Clean' = Clean
      BY <3>1, CleanFacts, CleanPrimed
    <3>3. GenTypeOK'
      BY <3>1 DEF GenInv, GenTypeOK
    <3> QED BY <3>1, <3>2, <3>3 DEF GenInv
  <2> QED BY <2>1, <2>2, <2>3 DEF GenNext
<1> QED
  BY <1>1, <1>2, PTL DEF GenSpec

\* The machine reads lists.
THEOREM GenTypeCorrect == GenSpec => []GenTypeOK
<1>1. GenInv => GenTypeOK
  BY DEF GenInv
<1> QED
  BY <1>1, GenInvCorrect, PTL

LEMMA ParsedAll == GenInv => ParsesFormat
<1> SUFFICES ASSUME GenInv, written PROVE Content(libs) = {f \in AllListed : "IGNORE" \notin f.flags}
  BY DEF ParsesFormat, Content, Entries, Entry
<1>1. PICK s : s = Clean /\ s \in Seq(Sym) /\ Done(s, Len(s) + 1, libs)
  BY DEF GenInv
<1>2. \A l \in FuncLines(s) : l[2] <= Len(s) + 1
  <2>1. \A l \in FuncLines(s) : l \in LineSpans(s)
    BY DEF FuncLines
  <2> QED BY <1>1, <2>1, SpanPair
<1>3. DoneLines(s, Len(s) + 1) = {l \in FuncLines(s) : LibsBefore(s, l[1]) # {}}
  BY <1>2 DEF DoneLines
<1>4. AllListed = {Listed(s, l[1], l[2]) : l \in {k \in FuncLines(s) : LibsBefore(s, k[1]) # {}}}
  BY <1>1 DEF AllListed
<1>5. Found(s, Len(s) + 1) = {f \in AllListed : "IGNORE" \notin f.flags}
  BY <1>3, <1>4 DEF Found
<1> QED
  BY <1>1, <1>5 DEF Done

\* The state machine of parse_list finds what the format of a list says, of every list.
THEOREM ParsesCorrectly == GenSpec => []ParsesFormat
BY ParsedAll, GenInvCorrect, PTL

LEMMA ExportsAll == GenInv => ExportsSound
<1> SUFFICES ASSUME GenInv, written PROVE ExportsSound
  BY DEF ExportsSound, HooksDefined, StubsPopArgs
<1>1. asm = AsmOf(libs) /\ def = DefOf(libs)
  BY DEF GenInv
<1>2. ASSUME NEW l \in ToSet(libs), NEW f \in ToSet(l.func)
      PROVE  AsmLines(f) \subseteq asm
  BY <1>1 DEF AsmOf
<1>3. ASSUME NEW e \in def, e.is = "hook" PROVE \E a \in asm : a.public = e.name
  <2>1. PICK l \in ToSet(libs) : \E f \in ToSet(l.func) : e \in DefLines(l, f)
    BY <1>1 DEF DefOf
  <2>2. PICK f \in ToSet(l.func) : e \in DefLines(l, f)
    BY <2>1
  <2>3. f.flags \cap NoHook = {} /\ e.name = f.name
    BY <1>3, <2>2 DEF DefLines, Export
  <2>4. \E a \in AsmLines(f) : a.public = f.name
    BY <2>3 DEF AsmLines
  <2> QED BY <1>2, <2>3, <2>4
<1>4. ASSUME NEW f \in AllListed, {"STUB", "IGNORE"} \cap f.flags = {"STUB"}
      PROVE  [public |-> f.name, body |-> "ret", pops |-> f.params] \in asm
  <2>1. f \in Content(libs)
    <3>1. "IGNORE" \notin f.flags
      BY <1>4
    <3>2. Content(libs) = {g \in AllListed : "IGNORE" \notin g.flags}
      BY ParsedAll DEF ParsesFormat, Content, Entries, Entry
    <3> QED BY <3>1, <3>2
  <2>2. PICK l \in ToSet(libs) : f \in Entries(l)
    BY <2>1 DEF Content
  <2>3. PICK g \in ToSet(l.func) : f = Entry(l, g)
    BY <2>2 DEF Entries
  <2>4. f.name = g.name /\ f.params = g.params /\ f.flags = g.flags
    BY <2>3 DEF Entry
  <2>5. AsmLines(g) = {[public |-> f.name, body |-> "ret", pops |-> f.params]}
    <3>1. "STUB" \in g.flags
      BY <1>4, <2>4
    <3> QED BY <2>4, <3>1 DEF AsmLines
  <2> QED BY <1>2, <2>5
<1> QED
  BY <1>3, <1>4 DEF ExportsSound, HooksDefined, StubsPopArgs

\* What the export table names as a hook is in the source, and every stub takes its
\* arguments off the stack, for every list of functions.
THEOREM ExportsCorrect == GenSpec => []ExportsSound
BY ExportsAll, GenInvCorrect, PTL

=============================================================================
