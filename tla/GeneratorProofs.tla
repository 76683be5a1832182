--------------------------- MODULE GeneratorProofs ---------------------------
(***************************************************************************)
(* Proofs about Generator, for packages, services and types of any length. *)
(***************************************************************************)
EXTENDS Generator, SequenceTheorems, Recursion

-----------------------------------------------------------------------------
(* Strings.                                                                *)

LEMMA FindFirst ==
  ASSUME NEW C, NEW s \in Seq(C), NEW c, NEW from \in Nat
  PROVE  \/ find(s, c, from) = npos /\ \A i \in from..(Len(s) - 1) : s[i + 1] # c
         \/ /\ find(s, c, from) \in from..(Len(s) - 1) /\ s[find(s, c, from) + 1] = c
            /\ \A i \in from..(find(s, c, from) - 1) : s[i + 1] # c
<1> DEFINE P == {i \in Positions(s, c) : i >= from}
<1>0. Len(s) \in Nat
  OBVIOUS
<1>1. P = {i \in from..(Len(s) - 1) : s[i + 1] = c}
  BY <1>0 DEF Positions
<1>2. CASE P = {}
  BY <1>1, <1>2 DEF find
<1>3. CASE P # {}
  <2>1. P \in SUBSET Nat
    BY <1>0, <1>1
  <2>2. \E i \in P : \A j \in P : i <= j
    BY <1>3, <2>1, LeastNat
  <2>3. PICK m \in P : m = Min(P) /\ \A j \in P : m <= j
    BY <2>2 DEF Min
  <2>4. find(s, c, from) = m
    BY <1>3, <2>3 DEF find
  <2>5. m \in from..(Len(s) - 1) /\ s[m + 1] = c
    BY <1>1, <2>3
  <2>6. ASSUME NEW i \in from..(m - 1) PROVE s[i + 1] # c
    <3>1. i \in from..(Len(s) - 1) /\ ~(m <= i)
      BY <1>0, <2>5
    <3> QED
      BY <1>1, <2>3, <3>1
  <2> QED
    BY <2>4, <2>5, <2>6
<1> QED
  BY <1>2, <1>3

LEMMA FindLast ==
  ASSUME NEW C, NEW s \in Seq(C), NEW c, NEW from \in Nat
  PROVE  \/ rfind(s, c, from) = npos /\ \A i \in 0..(Len(s) - 1) : i <= from => s[i + 1] # c
         \/ /\ rfind(s, c, from) \in 0..(Len(s) - 1) /\ rfind(s, c, from) <= from
            /\ s[rfind(s, c, from) + 1] = c
            /\ \A i \in (rfind(s, c, from) + 1)..(Len(s) - 1) : i <= from => s[i + 1] # c
<1> DEFINE P == {i \in Positions(s, c) : i <= from}
<1>0. Len(s) \in Nat
  OBVIOUS
<1>1. P = {i \in 0..(Len(s) - 1) : i <= from /\ s[i + 1] = c}
  BY <1>0 DEF Positions
<1>2. CASE P = {}
  BY <1>1, <1>2 DEF rfind
<1>3. CASE P # {}
  <2>1. P \in SUBSET (0..from)
    BY <1>0, <1>1
  <2>2. \E i \in P : \A j \in P : j <= i
    BY <1>3, <2>1, GreatestNat
  <2>3. PICK m \in P : m = Max(P) /\ \A j \in P : j <= m
    <3>1. \E i \in P : \A j \in P : i >= j
      <4>1. \A i, j \in P : j <= i => i >= j
        BY <2>1
      <4> QED
        BY <2>2, <4>1
    <3>2. Max(P) \in P /\ \A j \in P : Max(P) >= j
      BY <3>1 DEF Max
    <3>3. \A i, j \in P : i >= j => j <= i
      BY <2>1
    <3> QED
      BY <3>2, <3>3
  <2>4. rfind(s, c, from) = m
    BY <1>3, <2>3 DEF rfind
  <2>5. m \in 0..(Len(s) - 1) /\ m <= from /\ s[m + 1] = c
    BY <1>1, <2>3
  <2>6. ASSUME NEW i \in (m + 1)..(Len(s) - 1), i <= from PROVE s[i + 1] # c
    <3>1. i \in 0..(Len(s) - 1) /\ ~(i <= m)
      BY <1>0, <2>5
    <3> QED
      BY <1>1, <2>3, <2>6, <3>1
  <2> QED
    BY <2>4, <2>5, <2>6
<1> QED
  BY <1>2, <1>3

LEMMA Minimum2 ==
  ASSUME NEW a \in Int, NEW b \in Int
  PROVE  Min({a, b}) = IF a <= b THEN a ELSE b
<1>1. \E x \in {a, b} : \A y \in {a, b} : x <= y
  <2>1. a <= b \/ b <= a
    OBVIOUS
  <2> QED
    BY <2>1
<1>2. Min({a, b}) \in {a, b} /\ \A y \in {a, b} : Min({a, b}) <= y
  BY <1>1 DEF Min
<1> QED
  BY <1>2

\* substr, within the string and clipped at its end: e characters.
Clipped(s, from, n, e) ==
  /\ from \in 0..Len(s) /\ n \in Nat /\ e \in 0..(Len(s) - from)
  /\ e = IF from + n <= Len(s) THEN n ELSE Len(s) - from

IsSubstr(t, s, from, e) ==
  t \in Seq(Chars) /\ Len(t) = e /\ \A i \in 1..e : t[i] = s[from + i]

LEMMA SubstrWithin ==
  ASSUME NEW s \in Seq(Chars), NEW from, NEW n, NEW e, Clipped(s, from, n, e)
  PROVE  IsSubstr(substr(s, from, n), s, from, e)
<1>0. /\ Len(s) \in Nat /\ from \in 0..Len(s) /\ n \in Nat /\ e \in 0..(Len(s) - from)
      /\ e = IF from + n <= Len(s) THEN n ELSE Len(s) - from
  BY DEF Clipped
<1>1. substr(s, from, n) = SubSeq(s, from + 1, from + e)
  <2>1. Min({from + n, Len(s)}) = IF from + n <= Len(s) THEN from + n ELSE Len(s)
    BY <1>0, Minimum2
  <2>2. Min({from + n, Len(s)}) = from + e
    BY <1>0, <2>1
  <2> QED
    BY <2>2 DEF substr
<1>2. PICK a \in Nat, b \in Nat : a = from + 1 /\ b = from + e
  <2>1. from + 1 \in Nat /\ from + e \in Nat
    BY <1>0
  <2> QED
    BY <2>1
<1>3. \A i \in a..b : s[i] \in Chars
  <2>1. \A i \in a..b : i \in 1..Len(s)
    BY <1>0, <1>2
  <2> QED
    BY <2>1, ElementOfSeq
<1>4. /\ SubSeq(s, a, b) \in Seq(Chars)
      /\ Len(SubSeq(s, a, b)) = IF a <= b THEN b - a + 1 ELSE 0
      /\ \A i \in 1..(b - a + 1) : SubSeq(s, a, b)[i] = s[a + i - 1]
  BY <1>2, <1>3, SubSeqProperties
<1>5. b - a + 1 = e /\ (a <= b \/ e = 0) /\ \A i \in 1..e : a + i - 1 = from + i
  BY <1>0, <1>2
<1>6. substr(s, from, n) = SubSeq(s, a, b)
  BY <1>1, <1>2
<1>7. Len(SubSeq(s, a, b)) = e
  BY <1>0, <1>2, <1>4, <1>5
<1> QED
  BY <1>4, <1>5, <1>6, <1>7 DEF IsSubstr
-----------------------------------------------------------------------------
(* The names of types.                                                     *)

LEMMA SeqWider ==
  ASSUME NEW A, NEW B, A \subseteq B, NEW x \in Seq(A)
  PROVE  x \in Seq(B)
  OBVIOUS

Symbols == Chars \cup {"::"}

\* The name from position start on, with "::" for every dot.
Colons(name, start) ==
  [i \in 1..(Len(name) - start) |-> IF name[start + i] = "." THEN "::" ELSE name[start + i]]

LEMMA ColonsType ==
  ASSUME NEW name \in Seq(Chars), NEW start \in 0..Len(name)
  PROVE  /\ Colons(name, start) \in Seq(Symbols)
         /\ Len(Colons(name, start)) = Len(name) - start
         /\ \A i \in 1..(Len(name) - start) :
              Colons(name, start)[i] = IF name[start + i] = "." THEN "::" ELSE name[start + i]
<1>1. Len(name) \in Nat /\ Len(name) - start \in Nat
  OBVIOUS
<1>2. ASSUME NEW i \in 1..(Len(name) - start) PROVE name[start + i] \in Chars
  <2>1. start + i \in 1..Len(name)
    BY <1>1
  <2> QED
    BY <2>1, ElementOfSeq
<1>3. \A i \in 1..(Len(name) - start) : (IF name[start + i] = "." THEN "::" ELSE name[start + i]) \in Symbols
  BY <1>2 DEF Symbols
<1>4. Colons(name, start) \in [1..(Len(name) - start) -> Symbols]
  BY <1>3 DEF Colons
<1>5. PICK n \in Nat : n = Len(name) - start
  BY <1>1
<1> DEFINE c == Colons(name, start)
<1>6. \A i \in 1..n : c[i] = IF name[start + i] = "." THEN "::" ELSE name[start + i]
  BY <1>5 DEF Colons
<1>7. c \in [1..n -> Symbols]
  BY <1>4, <1>5
<1> HIDE DEF c
<1>8. c \in Seq(Symbols) /\ Len(c) = n
  BY <1>7
<1> QED
  BY <1>5, <1>6, <1>8 DEF c

\* Three pieces put together, by position.
LEMMA Pieces ==
  ASSUME NEW S, NEW x \in Seq(S), NEW c \in S, NEW y \in Seq(S)
  PROVE  LET z == x \o <<c>> \o y
         IN  /\ z \in Seq(S) /\ Len(z) = Len(x) + 1 + Len(y)
             /\ \A i \in 1..Len(x) : z[i] = x[i]
             /\ z[Len(x) + 1] = c
             /\ \A i \in 1..Len(y) : z[Len(x) + 1 + i] = y[i]
<1> DEFINE w == x \o <<c>>
           z == w \o y
<1>0. Len(x) \in Nat /\ Len(y) \in Nat
  OBVIOUS
<1>1. w \in Seq(S) /\ Len(w) = Len(x) + 1 /\ w[Len(x) + 1] = c /\ \A i \in 1..Len(x) : w[i] = x[i]
  BY <1>0
<1> HIDE DEF w
<1>2. /\ z \in Seq(S) /\ Len(z) = Len(w) + Len(y)
      /\ \A i \in 1..(Len(w) + Len(y)) : z[i] = IF i <= Len(w) THEN w[i] ELSE y[i - Len(w)]
  BY <1>1, ConcatProperties
<1> HIDE DEF z
<1>3. ASSUME NEW i \in 1..Len(x) PROVE z[i] = x[i]
  <2>1. i \in 1..(Len(w) + Len(y)) /\ i <= Len(w)
    BY <1>0, <1>1
  <2> QED
    BY <1>1, <1>2, <2>1
<1>4. z[Len(x) + 1] = c
  <2>1. Len(x) + 1 \in 1..(Len(w) + Len(y)) /\ Len(x) + 1 <= Len(w)
    BY <1>0, <1>1
  <2> QED
    BY <1>1, <1>2, <2>1
<1>5. ASSUME NEW i \in 1..Len(y) PROVE z[Len(x) + 1 + i] = y[i]
  <2>1. Len(w) + i \in 1..(Len(w) + Len(y)) /\ ~(Len(w) + i <= Len(w)) /\ (Len(w) + i) - Len(w) = i
    BY <1>0, <1>1
  <2>2. z[Len(w) + i] = y[i]
    BY <1>2, <2>1
  <2> QED
    BY <1>1, <2>2
<1>6. Len(z) = Len(x) + 1 + Len(y)
  BY <1>0, <1>1, <1>2
<1> QED
  BY <1>2, <1>3, <1>4, <1>5, <1>6 DEF z, w

\* One round of the mapper's loop.
LEMMA ColonsStep ==
  ASSUME NEW name \in Seq(Chars), NEW start \in 0..Len(name)
  PROVE  LET end == find(name, ".", start) IN
           Colons(name, start) = IF end = npos THEN substr(name, start, Len(name))
                                 ELSE substr(name, start, end - start) \o <<"::">> \o Colons(name, end + 1)
<1> DEFINE end == find(name, ".", start)
           N == Len(name)
           t == Colons(name, start)
<1>0. N \in Nat /\ start \in Nat
  OBVIOUS
<1>1. t \in Seq(Symbols) /\ Len(t) = N - start
      /\ \A i \in 1..(N - start) : t[i] = IF name[start + i] = "." THEN "::" ELSE name[start + i]
  BY ColonsType
<1>2. CASE end = npos /\ \A i \in start..(N - 1) : name[i + 1] # "."
  <2> DEFINE x == substr(name, start, N)
  <2>1. PICK e \in 0..(N - start) : e = N - start /\ e = IF start + N <= N THEN N ELSE N - start
    <3>1. N - start \in 0..(N - start) /\ (start + N <= N => N = N - start)
      BY <1>0
    <3> QED
      BY <3>1
  <2>2. x \in Seq(Chars) /\ Len(x) = e /\ \A i \in 1..e : x[i] = name[start + i]
    <3>1. Clipped(name, start, N, e)
      BY <1>0, <2>1 DEF Clipped
    <3>2. IsSubstr(x, name, start, e)
      BY <3>1, SubstrWithin
    <3> QED
      BY <3>2 DEF IsSubstr
  <2>3. ASSUME NEW i \in 1..(N - start) PROVE t[i] = x[i]
    <3>1. start + i - 1 \in start..(N - 1) /\ (start + i - 1) + 1 = start + i
      BY <1>0
    <3>2. name[start + i] # "."
      BY <1>2, <3>1
    <3> QED
      BY <1>1, <2>1, <2>2, <3>2
  <2>4. x \in Seq(Symbols)
    BY <2>2, SeqWider DEF Symbols
  <2> HIDE DEF x, t
  <2>5. t = x
    BY <1>1, <2>1, <2>2, <2>3, <2>4, SeqEqual
  <2> QED
    BY <1>2, <2>5 DEF x, t
<1>3. CASE /\ end \in start..(N - 1) /\ name[end + 1] = "."
           /\ \A i \in start..(end - 1) : name[i + 1] # "."
  <2> DEFINE x == substr(name, start, end - start)
             y == Colons(name, end + 1)
             z == x \o <<"::">> \o y
  <2> HIDE DEF end
  <2>0. end \in Nat /\ end + 1 \in 0..N /\ end # npos /\ end - start \in Nat
    BY <1>0, <1>3 DEF npos
  <2>1. PICK e \in 0..(N - start) : e = end - start /\ e = IF start + (end - start) <= N THEN end - start ELSE N - start
    BY <1>0, <1>3, <2>0
  <2>2. x \in Seq(Chars) /\ Len(x) = e /\ \A i \in 1..e : x[i] = name[start + i]
    <3>1. Clipped(name, start, end - start, e)
      BY <1>0, <2>0, <2>1 DEF Clipped
    <3>2. IsSubstr(x, name, start, e)
      BY <3>1, SubstrWithin
    <3> QED
      BY <3>2 DEF IsSubstr
  <2>3. /\ y \in Seq(Symbols) /\ Len(y) = N - (end + 1)
        /\ \A i \in 1..(N - (end + 1)) : y[i] = IF name[end + 1 + i] = "." THEN "::" ELSE name[end + 1 + i]
    BY <2>0, ColonsType
  <2>4. x \in Seq(Symbols) /\ "::" \in Symbols
    BY <2>2, SeqWider DEF Symbols
  <2> HIDE DEF x, y, t
  <2>5. /\ z \in Seq(Symbols) /\ Len(z) = Len(x) + 1 + Len(y)
        /\ \A i \in 1..Len(x) : z[i] = x[i]
        /\ z[Len(x) + 1] = "::"
        /\ \A i \in 1..Len(y) : z[Len(x) + 1 + i] = y[i]
    <3>1. PICK c \in Symbols : c = "::"
      BY <2>4
    <3>2. x \in Seq(Symbols) /\ y \in Seq(Symbols)
      BY <2>3, <2>4
    <3> DEFINE w == x \o <<c>> \o y
    <3>3. /\ w \in Seq(Symbols) /\ Len(w) = Len(x) + 1 + Len(y)
          /\ \A i \in 1..Len(x) : w[i] = x[i]
          /\ w[Len(x) + 1] = c
          /\ \A i \in 1..Len(y) : w[Len(x) + 1 + i] = y[i]
      BY <3>2, Pieces
    <3>4. z = w
      BY <3>1
    <3> HIDE DEF w, z
    <3> QED
      BY <3>1, <3>3, <3>4
  <2> HIDE DEF z
  <2>6. Len(z) = N - start
    BY <1>0, <2>0, <2>1, <2>2, <2>3, <2>5
  <2>7. ASSUME NEW i \in 1..(N - start) PROVE t[i] = z[i]
    <3>1. CASE i \in 1..e
      <4>1. start + i - 1 \in start..(end - 1) /\ (start + i - 1) + 1 = start + i
        BY <1>0, <2>0, <2>1, <3>1
      <4>2. name[start + i] # "."
        BY <1>3, <4>1
      <4> QED
        BY <1>1, <2>2, <2>5, <3>1, <4>2
    <3>2. CASE i = e + 1
      <4>1. start + i = end + 1
        BY <1>0, <2>0, <2>1, <3>2
      <4> QED
        BY <1>1, <1>3, <2>2, <2>5, <3>2, <4>1
    <3>3. CASE i > e + 1
      <4>1. PICK j \in 1..Len(y) : j = i - (e + 1) /\ i = Len(x) + 1 + j /\ start + i = end + 1 + j
        BY <1>0, <2>0, <2>1, <2>2, <2>3, <3>3
      <4>2. z[i] = y[j]
        BY <2>5, <4>1
      <4>3. y[j] = IF name[end + 1 + j] = "." THEN "::" ELSE name[end + 1 + j]
        BY <2>3
      <4> QED
        BY <1>1, <4>1, <4>2, <4>3
    <3>4. i \in 1..e \/ i = e + 1 \/ i > e + 1
      BY <1>0, <2>1
    <3> QED
      BY <3>1, <3>2, <3>3, <3>4
  <2>8. t = z
    BY <1>1, <2>5, <2>6, <2>7, SeqEqual
  <2> QED
    BY <2>0, <2>8 DEF x, y, z, t, end
<1> QED
  BY <1>0, <1>2, <1>3, FindFirst

\* mapper writes "::" for every dot.
LEMMA MapperColons ==
  ASSUME NEW package, NEW full, Relative(package, full) \in Seq(Chars)
  PROVE  Mapper(package, full) = Colons(Relative(package, full), 0)
<1> DEFINE name == Relative(package, full)
           Loop(f, start) ==
             LET end == find(name, ".", start) IN
               IF end = npos THEN substr(name, start, Len(name))
               ELSE substr(name, start, end - start) \o <<"::">> \o f[end + 1]
           Solves(f) == f = [start \in 0..Len(name) |-> Loop(f, start)]
           from == CHOOSE f : Solves(f)
           t == [start \in 0..Len(name) |-> Colons(name, start)]
<1>0. Len(name) \in Nat /\ name \in Seq(Chars)
  OBVIOUS
<1>1. Mapper(package, full) = from[0]
  BY DEF Mapper
<1> HIDE DEF name
<1>2. ASSUME NEW start \in 0..Len(name), NEW f, find(name, ".", start) # npos => f[find(name, ".", start) + 1] = Colons(name, find(name, ".", start) + 1)
      PROVE  Loop(f, start) = Colons(name, start)
  BY <1>0, <1>2, ColonsStep
<1>3. ASSUME NEW start \in 0..Len(name), find(name, ".", start) # npos
      PROVE  find(name, ".", start) + 1 \in 0..Len(name) /\ find(name, ".", start) + 1 > start
  <2>1. find(name, ".", start) \in start..(Len(name) - 1)
    BY <1>0, <1>3, FindFirst
  <2> QED
    BY <1>0, <2>1
<1> HIDE DEF Loop
<1>4. Solves(t)
  <2>1. ASSUME NEW start \in 0..Len(name) PROVE Loop(t, start) = Colons(name, start)
    BY <1>2, <1>3
  <2> QED
    BY <2>1
<1>5. Solves(from)
  <2> HIDE DEF Solves
  <2> QED
    BY <1>4
<1> HIDE DEF from
<1>6. \A start \in 0..Len(name) : from[start] = Loop(from, start)
  BY <1>5
<1>7. ASSUME NEW start \in 0..Len(name) PROVE from[start] = Colons(name, start)
  <2> DEFINE Bad == {k \in Nat : \E s \in 0..Len(name) : k = Len(name) - s /\ from[s] # Colons(name, s)}
  <2>0. from[start] # Colons(name, start) => Len(name) - start \in Bad
    BY <1>0
  <2> SUFFICES ASSUME Bad # {} PROVE FALSE
    BY <2>0
  <2>1. PICK k \in Bad : \A j \in Bad : k <= j
    BY LeastNat
  <2>2. PICK s \in 0..Len(name) : k = Len(name) - s /\ from[s] # Colons(name, s)
    OBVIOUS
  <2>3. ASSUME find(name, ".", s) # npos
        PROVE  from[find(name, ".", s) + 1] = Colons(name, find(name, ".", s) + 1)
    <3>1. PICK u \in 0..Len(name) : u = find(name, ".", s) + 1 /\ u > s
      BY <1>3, <2>3
    <3>2. Len(name) - u \in Nat /\ ~(k <= Len(name) - u)
      BY <1>0, <2>2, <3>1
    <3>3. Len(name) - u \notin Bad
      BY <2>1, <3>2
    <3> QED
      BY <3>1, <3>2, <3>3
  <2> QED
    BY <1>2, <1>6, <2>2, <2>3
<1> QED
  BY <1>0, <1>1, <1>7 DEF name

\* A type of the package is declared relative to it, and one whose name does not
\* begin with the characters of the package with its full name.
LEMMA RelativeName ==
  ASSUME NEW package \in Seq(Chars), NEW full \in Seq(Chars), full # package
  PROVE  LET name == Relative(package, full) IN
           /\ name \in Seq(Chars)
           /\ OwnType(package, full) => full = FullName(package, name)
           /\ ~IsPrefix(package, full) => name = full
<1>0. Len(package) \in Nat /\ Len(full) \in Nat
  OBVIOUS
<1>1. CASE ~(package # <<>> /\ IsPrefix(package, full))
  BY <1>1 DEF Relative, OwnType, FullName
<1>2. CASE package # <<>> /\ IsPrefix(package, full)
  <2> DEFINE n == Len(package)
             name == substr(full, n + 1, Len(full))
  <2>1. n <= Len(full) /\ \A i \in 1..n : package[i] = full[i]
    <3>1. n <= Len(full) /\ SubSeq(package, 1, n) = SubSeq(full, 1, n)
      BY <1>2 DEF IsPrefix
    <3>2. ASSUME NEW i \in 1..n PROVE SubSeq(package, 1, n)[i] = package[i] /\ SubSeq(full, 1, n)[i] = full[i]
      BY <1>0, <3>1
    <3> QED
      BY <3>1, <3>2
  <2>2. n < Len(full)
    <3>1. ASSUME n = Len(full) PROVE FALSE
      BY <1>0, <2>1, <3>1, SeqEqual
    <3>2. n \in Nat /\ n # Len(full) /\ n <= Len(full)
      BY <1>0, <2>1, <3>1
    <3> HIDE DEF n
    <3> QED
      BY <1>0, <3>2
  <2>a. PICK from \in 0..Len(full) : from = n + 1
    <3>1. n + 1 \in 0..Len(full)
      BY <1>0, <2>2
    <3> QED
      BY <3>1
  <2>3. PICK e \in 0..(Len(full) - from) :
          /\ from = n + 1 /\ e = Len(full) - from
          /\ e = IF from + Len(full) <= Len(full) THEN Len(full) ELSE Len(full) - from
    <3>1. Len(full) - from \in 0..(Len(full) - from) /\ ~(from + Len(full) <= Len(full))
      BY <1>0, <2>a
    <3> QED
      BY <2>a, <3>1
  <2>4. name \in Seq(Chars) /\ Len(name) = e /\ \A i \in 1..e : name[i] = full[from + i]
    <3>1. name = substr(full, from, Len(full))
      BY <2>3
    <3>2. /\ substr(full, from, Len(full)) \in Seq(Chars) /\ Len(substr(full, from, Len(full))) = e
          /\ \A i \in 1..e : substr(full, from, Len(full))[i] = full[from + i]
      <4>1. Clipped(full, from, Len(full), e)
        BY <1>0, <2>3 DEF Clipped
      <4>2. IsSubstr(substr(full, from, Len(full)), full, from, e)
        BY <4>1, SubstrWithin
      <4> QED
        BY <4>2 DEF IsSubstr
    <3> HIDE DEF name
    <3> QED
      BY <3>1, <3>2
  <2>5. Relative(package, full) = name
    BY <1>2 DEF Relative
  <2> HIDE DEF name
  <2>6. CASE full[n + 1] # "."
    BY <1>2, <2>4, <2>5, <2>6 DEF OwnType
  <2>7. CASE full[n + 1] = "."
    <3>1. PICK c \in Chars : c = "."
      BY FilesAssumption
    <3> DEFINE z == package \o <<c>> \o name
    <3>a. package \in Seq(Chars) /\ name \in Seq(Chars) /\ c \in Chars
      BY <2>4
    <3>2. /\ z \in Seq(Chars) /\ Len(z) = Len(package) + 1 + Len(name)
          /\ \A i \in 1..Len(package) : z[i] = package[i]
          /\ z[Len(package) + 1] = c
          /\ \A i \in 1..Len(name) : z[Len(package) + 1 + i] = name[i]
      BY <3>a, Pieces
    <3> HIDE DEF z
    <3>b. n \in Nat /\ Len(full) = n + 1 + e /\ e \in Nat /\ Len(z) = n + 1 + e
      <4>1. n \in Nat /\ Len(full) \in Nat /\ from = n + 1 /\ e = Len(full) - from /\ e \in 0..(Len(full) - from)
        BY <1>0, <2>3
      <4>2. Len(z) = n + 1 + e
        BY <2>4, <3>2
      <4> HIDE DEF n
      <4>3. Len(full) = n + 1 + e /\ e \in Nat
        BY <4>1
      <4> QED
        BY <4>1, <4>2, <4>3
    <3>3. Len(z) = Len(full)
      BY <3>b
    <3>4. ASSUME NEW i \in 1..Len(full) PROVE full[i] = z[i]
      <4>1. CASE i \in 1..n
        BY <2>1, <3>2, <4>1
      <4>2. CASE i = n + 1
        BY <2>7, <3>1, <3>2, <4>2
      <4>3. CASE i > n + 1
        <5>1. PICK j \in 1..e : j = i - (n + 1) /\ i = n + 1 + j
          <6>1. i - (n + 1) \in 1..e /\ i = n + 1 + (i - (n + 1))
            <7> HIDE DEF n
            <7> QED
              BY <3>b, <4>3
          <6> QED
            BY <6>1
        <5> QED
          BY <2>3, <2>4, <3>2, <5>1
      <4> QED
        BY <1>0, <4>1, <4>2, <4>3
    <3>5. full = z
      BY <3>2, <3>3, <3>4, SeqEqual
    <3> QED
      BY <1>2, <2>4, <2>5, <3>1, <3>5 DEF z, FullName
  <2> QED
    BY <2>6, <2>7
<1> QED
  BY <1>1, <1>2

\* The types that an RPC is declared with.
LEMMA MappedType ==
  ASSUME NEW package \in Seq(Chars), NEW full \in Seq(Chars), full # package
  PROVE  LET name == Dots(Mapper(package, full)) IN
           /\ OwnType(package, full) => full = FullName(package, name)
           /\ ~IsPrefix(package, full) => name = full
<1> DEFINE name == Relative(package, full)
           t == Colons(name, 0)
           d == Dots(t)
<1>1. name \in Seq(Chars)
  BY RelativeName
<1>2. Mapper(package, full) = t
  BY <1>1, MapperColons
<1>3. d = name
  <2>0. Len(name) \in Nat
    BY <1>1
  <2> HIDE DEF name
  <2>1. /\ t \in Seq(Symbols) /\ Len(t) = Len(name)
        /\ \A i \in 1..Len(name) : t[i] = IF name[i] = "." THEN "::" ELSE name[i]
    <3>1. PICK z \in 0..Len(name) : z = 0 /\ Len(name) - z = Len(name) /\ \A i \in 1..Len(name) : z + i = i
      BY <2>0
    <3>2. /\ Colons(name, z) \in Seq(Symbols) /\ Len(Colons(name, z)) = Len(name) - z
          /\ \A i \in 1..(Len(name) - z) : Colons(name, z)[i] = IF name[z + i] = "." THEN "::" ELSE name[z + i]
      BY <1>1, ColonsType
    <3> QED
      BY <3>1, <3>2
  <2> HIDE DEF t
  <2>2. ASSUME NEW i \in 1..Len(name) PROVE (IF t[i] = "::" THEN "." ELSE t[i]) = name[i]
    <3>1. name[i] # "::"
      BY <1>1, ElementOfSeq, FilesAssumption
    <3> QED
      BY <2>1, <3>1
  <2>3. d = [i \in 1..Len(name) |-> IF t[i] = "::" THEN "." ELSE t[i]]
    BY <2>1 DEF Dots
  <2>4. \A i \in 1..Len(name) : d[i] = name[i]
    BY <2>2, <2>3
  <2>5. d \in Seq(Chars) /\ Len(d) = Len(name)
    <3>1. \A i \in 1..Len(name) : name[i] \in Chars
      BY <1>1, ElementOfSeq
    <3>2. d \in [1..Len(name) -> Chars]
      BY <2>2, <2>3, <3>1
    <3> HIDE DEF d
    <3> QED
      BY <2>0, <3>2
  <2> HIDE DEF d
  <2> QED
    BY <1>1, <2>4, <2>5, SeqEqual
<1> QED
  BY <1>2, <1>3, RelativeName

\* The lookup of a name relative to the package begins with the package, the
\* innermost of the namespaces around.
LEMMA RelativeDenotes ==
  ASSUME NEW package \in Seq(Chars), NEW name, NEW full, full = FullName(package, name)
  PROVE  Denotes(package, name, full)
<1>0. Len(package) \in Nat
  OBVIOUS
<1>1. package \in Surrounding(package)
  <2>1. CASE package = <<>>
    BY <2>1 DEF Surrounding
  <2>2. CASE package # <<>>
    <3>1. Len(package) \in 1..Len(package) /\ package = SubSeq(package, 1, Len(package))
      BY <1>0, <2>2
    <3> QED
      BY <3>1 DEF Surrounding, Enclosing
  <2> QED
    BY <2>1, <2>2
<1>2. ASSUME NEW r \in Surrounding(package) PROVE ~(Len(r) > Len(package))
  <2>1. CASE r = <<>>
    BY <1>0, <2>1
  <2>2. CASE r # <<>>
    <3>1. PICK i \in 1..Len(package) : r = SubSeq(package, 1, i)
      BY <2>2 DEF Surrounding, Enclosing
    <3>2. Len(r) = i
      BY <3>1
    <3> QED
      BY <1>0, <3>1, <3>2
  <2> QED
    BY <2>1, <2>2
<1> QED
  BY <1>1, <1>2 DEF Denotes
-----------------------------------------------------------------------------
(* The namespaces of a package.                                            *)

\* The loops that write one declaration in each round: the function exists, and
\* what it writes is a sequence.
IsChain(S, D, n, r, nx, hd) ==
  /\ n \in Nat /\ r \in [D -> 0..n] /\ hd \in [D -> S]
  /\ \A s \in D : nx[s] \in D => r[nx[s]] < r[s]

Chain(f, D, nx, hd) == [s \in D |-> IF nx[s] \in D THEN <<hd[s]>> \o f[nx[s]] ELSE <<hd[s]>>]

LEMMA Chains ==
  ASSUME NEW S, NEW D, NEW n, NEW r, NEW nx, NEW hd, IsChain(S, D, n, r, nx, hd)
  PROVE  /\ \E f : f = Chain(f, D, nx, hd)
         /\ \A f : f = Chain(f, D, nx, hd) => f \in [D -> Seq(S)]
<1> USE DEF Chain
<1>a. /\ n \in Nat /\ r \in [D -> 0..n] /\ hd \in [D -> S]
      /\ \A s \in D : nx[s] \in D => r[nx[s]] < r[s]
  BY DEF IsChain
<1> DEFINE b == [s \in D |-> <<hd[s]>>]
           g == [s \in D |-> [x \in Seq(S) |-> <<hd[s]>> \o x]]
<1>0. \A s \in D : hd[s] \in S
  BY <1>a
<1>1. \A s \in D : b[s] \in Seq(S) /\ \A x \in Seq(S) : g[s][x] = <<hd[s]>> \o x /\ g[s][x] \in Seq(S)
  BY <1>0
<1>b. \A s \in D : b[s] = <<hd[s]>>
  OBVIOUS
<1> HIDE DEF b, g
<1>2. \E f : f = Chain(f, D, nx, hd)
  <2>1. IsRecursion(Seq(S), D, n, r, nx, b, g)
    BY <1>a, <1>1 DEF IsRecursion
  <2>2. PICK f : IsSolution(f, Seq(S), D, nx, b, g)
    BY <2>1, RecursiveFunction
  <2>3. f \in [D -> Seq(S)] /\ \A s \in D : f[s] = IF nx[s] \in D THEN g[s][f[nx[s]]] ELSE b[s]
    BY <2>2 DEF IsSolution
  <2>4. ASSUME NEW s \in D PROVE f[s] = IF nx[s] \in D THEN <<hd[s]>> \o f[nx[s]] ELSE <<hd[s]>>
    <3>1. nx[s] \in D => f[nx[s]] \in Seq(S)
      BY <2>3
    <3> QED
      BY <1>1, <1>b, <2>3, <3>1
  <2>5. f = [s \in D |-> IF nx[s] \in D THEN <<hd[s]>> \o f[nx[s]] ELSE <<hd[s]>>]
    BY <2>3, <2>4
  <2> QED
    BY <2>5
<1>3. ASSUME NEW f, f = Chain(f, D, nx, hd)
      PROVE  f \in [D -> Seq(S)]
  <2>1. ASSUME NEW s \in D PROVE f[s] \in Seq(S)
    <3> DEFINE Bad == {k \in Nat : \E u \in D : k = r[u] /\ f[u] \notin Seq(S)}
    <3>0. f[s] \notin Seq(S) => r[s] \in Bad
      BY <1>a
    <3> SUFFICES ASSUME Bad # {} PROVE FALSE
      BY <3>0
    <3>1. PICK k \in Bad : \A j \in Bad : k <= j
      BY LeastNat
    <3>2. PICK u \in D : k = r[u] /\ f[u] \notin Seq(S)
      OBVIOUS
    <3>3. f[u] = IF nx[u] \in D THEN <<hd[u]>> \o f[nx[u]] ELSE <<hd[u]>>
      BY <1>3
    <3>4. nx[u] \in D /\ f[nx[u]] \notin Seq(S)
      BY <1>0, <3>2, <3>3
    <3>5. r[nx[u]] \in Bad /\ r[nx[u]] < r[u]
      BY <1>a, <3>4
    <3>6. r[u] \in Nat /\ r[nx[u]] \in Nat
      BY <1>a, <3>4
    <3> QED
      BY <3>1, <3>2, <3>5, <3>6
  <2>2. DOMAIN f = D /\ f = [s \in DOMAIN f |-> f[s]]
    BY <1>3
  <2> QED
    BY <2>1, <2>2
<1> QED
  BY <1>2, <1>3

Parts == Seq(Chars \ {"."})

LEMMA PartBetween ==
  ASSUME NEW p \in Seq(Chars), NEW s \in 0..Len(p), NEW n \in Nat,
         \A i \in s..(Len(p) - 1) : i < s + n => p[i + 1] # "."
  PROVE  substr(p, s, n) \in Parts
<1>0. Len(p) \in Nat
  OBVIOUS
<1>1. PICK e \in 0..(Len(p) - s) : e = IF s + n <= Len(p) THEN n ELSE Len(p) - s
  <2>1. (IF s + n <= Len(p) THEN n ELSE Len(p) - s) \in 0..(Len(p) - s)
    BY <1>0
  <2> QED
    BY <2>1
<1> DEFINE t == substr(p, s, n)
<1>2. t \in Seq(Chars) /\ Len(t) = e /\ \A i \in 1..e : t[i] = p[s + i]
  <2>1. Clipped(p, s, n, e)
    BY <1>1 DEF Clipped
  <2>2. IsSubstr(t, p, s, e)
    BY <2>1, SubstrWithin
  <2> QED
    BY <2>2 DEF IsSubstr
<1> HIDE DEF t
<1>3. ASSUME NEW i \in 1..Len(t) PROVE t[i] \in Chars \ {"."}
  <2>1. s + i - 1 \in s..(Len(p) - 1) /\ s + i - 1 < s + n /\ (s + i - 1) + 1 = s + i
    BY <1>0, <1>1, <1>2
  <2>2. p[s + i] # "."
    BY <2>1
  <2>3. t[i] \in Chars
    BY <1>2, ElementOfSeq
  <2> QED
    BY <1>2, <2>2, <2>3
<1>4. t \in Seq(Chars \ {"."})
  <2>1. t \in [1..Len(t) -> Chars \ {"."}] /\ Len(t) \in Nat
    BY <1>2, <1>3
  <2> QED
    BY <2>1
<1> QED
  BY <1>4 DEF t, Parts

Opens == {Open(x) : x \in Parts}
Closes == {Close(x) : x \in Parts}

\* The loop that opens the namespaces.
OpenFrom(p, from, s) ==
  LET end == find(p, ".", s) IN
    IF end = npos THEN <<Open(substr(p, s, Len(p)))>>
    ELSE <<Open(substr(p, s, end - s))>> \o from[end + 1]

LEMMA OpeningsLoop ==
  ASSUME NEW p \in Seq(Chars), p # <<>>
  PROVE  \E from \in [0..Len(p) -> Seq(Opens)] :
           Openings(p) = from[0] /\ \A s \in 0..Len(p) : from[s] = OpenFrom(p, from, s)
<1> DEFINE D == 0..Len(p)
           nx == [s \in D |-> IF find(p, ".", s) = npos THEN npos ELSE find(p, ".", s) + 1]
           hd == [s \in D |-> IF find(p, ".", s) = npos THEN Open(substr(p, s, Len(p)))
                                                       ELSE Open(substr(p, s, find(p, ".", s) - s))]
           r == [s \in D |-> Len(p) - s]
           IsLoop(f) == f = [s \in D |-> OpenFrom(p, f, s)]
           from == CHOOSE f : IsLoop(f)
<1>0. Len(p) \in Nat
  OBVIOUS
<1>1. Openings(p) = from[0]
  BY DEF Openings, OpenFrom
<1>2. ASSUME NEW s \in D
      PROVE  /\ hd[s] \in Opens
             /\ find(p, ".", s) = npos => nx[s] \notin D
             /\ find(p, ".", s) # npos => nx[s] \in D /\ nx[s] > s /\ nx[s] = find(p, ".", s) + 1
  <2> DEFINE end == find(p, ".", s)
  <2>1. CASE end = npos /\ \A i \in s..(Len(p) - 1) : p[i + 1] # "."
    <3>1. substr(p, s, Len(p)) \in Parts
      BY <1>0, <2>1, PartBetween
    <3>2. npos \notin D
      BY <1>0 DEF npos
    <3> QED
      BY <2>1, <3>1, <3>2 DEF Opens
  <2>2. CASE /\ end \in s..(Len(p) - 1) /\ p[end + 1] = "."
             /\ \A i \in s..(end - 1) : p[i + 1] # "."
    <3> HIDE DEF end
    <3>1. end - s \in Nat /\ end # npos /\ end + 1 \in D /\ end + 1 > s
      BY <1>0, <2>2 DEF npos
    <3>2. \A i \in s..(Len(p) - 1) : i < s + (end - s) => i \in s..(end - 1)
      BY <1>0, <2>2
    <3>3. substr(p, s, end - s) \in Parts
      BY <2>2, <3>1, <3>2, PartBetween
    <3>4. nx[s] = end + 1 /\ hd[s] = Open(substr(p, s, end - s))
      BY <3>1 DEF end
    <3> QED
      BY <3>1, <3>3, <3>4 DEF Opens, end
  <2>3. s \in Nat
    OBVIOUS
  <2> QED
    BY <2>1, <2>2, <2>3, FindFirst
<1>3. IsChain(Opens, D, Len(p), r, nx, hd)
  <2>1. r \in [D -> 0..Len(p)]
    BY <1>0
  <2>2. hd \in [D -> Opens]
    <3>1. \A s \in D : hd[s] \in Opens
      BY <1>2
    <3>2. hd = [s \in D |-> hd[s]]
      OBVIOUS
    <3> HIDE DEF hd
    <3> QED
      BY <3>1, <3>2
  <2>3. ASSUME NEW s \in D, nx[s] \in D PROVE r[nx[s]] < r[s]
    <3>1. nx[s] > s
      BY <1>2, <2>3
    <3> HIDE DEF nx
    <3> QED
      BY <1>0, <2>3, <3>1
  <2> HIDE DEF D, r, nx, hd
  <2> QED
    BY <1>0, <2>1, <2>2, <2>3 DEF IsChain
<1>4. ASSUME NEW f, NEW s \in D
      PROVE  OpenFrom(p, f, s) = IF nx[s] \in D THEN <<hd[s]>> \o f[nx[s]] ELSE <<hd[s]>>
  <2>1. CASE find(p, ".", s) = npos
    <3>1. nx[s] \notin D /\ hd[s] = Open(substr(p, s, Len(p)))
      BY <1>2, <2>1
    <3> HIDE DEF hd, nx
    <3> QED
      BY <2>1, <3>1 DEF OpenFrom
  <2>2. CASE find(p, ".", s) # npos
    <3>1. nx[s] \in D /\ nx[s] = find(p, ".", s) + 1 /\ hd[s] = Open(substr(p, s, find(p, ".", s) - s))
      BY <1>2, <2>2
    <3> HIDE DEF hd, nx
    <3> QED
      BY <2>2, <3>1 DEF OpenFrom
  <2> QED
    BY <2>1, <2>2
<1> HIDE DEF nx, hd, r
<1>5. \A f : IsLoop(f) <=> f = Chain(f, D, nx, hd)
  <2>1. \A f : [s \in D |-> OpenFrom(p, f, s)] = Chain(f, D, nx, hd)
    BY <1>4 DEF Chain
  <2> QED
    BY <2>1
<1> HIDE DEF IsLoop
<1>6. IsLoop(from) /\ from \in [D -> Seq(Opens)]
  BY <1>3, <1>5, Chains
<1> HIDE DEF from
<1>7. \A s \in D : from[s] = OpenFrom(p, from, s)
  BY <1>6 DEF IsLoop
<1> QED
  BY <1>1, <1>6, <1>7

\* The loop that closes them.
CloseTo(p, to, end) ==
  LET pos == rfind(p, ".", end) IN
    IF pos = npos THEN <<Close(substr(p, 0, end + 1))>>
    ELSE <<Close(substr(p, pos + 1, end - pos))>> \o to[pos - 1]

LEMMA ClosingsLoop ==
  ASSUME NEW p \in Seq(Chars), p # <<>>, p[1] # "."
  PROVE  \E to \in [0..Len(p) -> Seq(Closes)] :
           Closings(p) = to[Len(p)] /\ \A s \in 0..Len(p) : to[s] = CloseTo(p, to, s)
<1> DEFINE D == 0..Len(p)
           nx == [s \in D |-> IF rfind(p, ".", s) = npos THEN npos ELSE rfind(p, ".", s) - 1]
           hd == [s \in D |-> IF rfind(p, ".", s) = npos THEN Close(substr(p, 0, s + 1))
                              ELSE Close(substr(p, rfind(p, ".", s) + 1, s - rfind(p, ".", s)))]
           r == [s \in D |-> s]
           IsLoop(f) == f = [s \in D |-> CloseTo(p, f, s)]
           to == CHOOSE f : IsLoop(f)
<1>0. Len(p) \in Nat
  OBVIOUS
<1>1. Closings(p) = to[Len(p)]
  BY DEF Closings, CloseTo
<1>2. ASSUME NEW s \in D
      PROVE  /\ hd[s] \in Closes
             /\ rfind(p, ".", s) = npos => nx[s] \notin D
             /\ rfind(p, ".", s) # npos => nx[s] \in D /\ nx[s] < s /\ nx[s] = rfind(p, ".", s) - 1
  <2> DEFINE pos == rfind(p, ".", s)
  <2>0. s \in Nat /\ s + 1 \in Nat /\ 0 \in 0..Len(p)
    BY <1>0
  <2>1. CASE pos = npos /\ \A i \in 0..(Len(p) - 1) : i <= s => p[i + 1] # "."
    <3>1. \A i \in 0..(Len(p) - 1) : i < 0 + (s + 1) => p[i + 1] # "."
      BY <1>0, <2>0, <2>1
    <3>2. substr(p, 0, s + 1) \in Parts
      BY <2>0, <3>1, PartBetween
    <3>3. npos \notin D
      BY <1>0 DEF npos
    <3> QED
      BY <2>1, <3>2, <3>3 DEF Closes
  <2>2. CASE /\ pos \in 0..(Len(p) - 1) /\ pos <= s /\ p[pos + 1] = "."
             /\ \A i \in (pos + 1)..(Len(p) - 1) : i <= s => p[i + 1] # "."
    <3> HIDE DEF pos
    <3>1. s - pos \in Nat /\ pos # npos /\ pos + 1 \in 0..Len(p)
      BY <1>0, <2>0, <2>2 DEF npos
    <3>2. pos # 0
      BY <2>2
    <3>3. pos - 1 \in D /\ pos - 1 < s
      BY <1>0, <2>0, <2>2, <3>2
    <3>4. \A i \in (pos + 1)..(Len(p) - 1) : i < (pos + 1) + (s - pos) => p[i + 1] # "."
      <4>1. \A i \in (pos + 1)..(Len(p) - 1) : i < (pos + 1) + (s - pos) => i <= s
        BY <1>0, <2>0, <2>2
      <4> QED
        BY <2>2, <4>1
    <3>5. substr(p, pos + 1, s - pos) \in Parts
      BY <3>1, <3>4, PartBetween
    <3>6. nx[s] = pos - 1 /\ hd[s] = Close(substr(p, pos + 1, s - pos))
      BY <3>1 DEF pos
    <3> QED
      BY <3>1, <3>3, <3>5, <3>6 DEF Closes, pos
  <2> QED
    BY <2>0, <2>1, <2>2, FindLast
<1>3. IsChain(Closes, D, Len(p), r, nx, hd)
  <2>1. r \in [D -> 0..Len(p)]
    BY <1>0
  <2>2. hd \in [D -> Closes]
    <3>1. \A s \in D : hd[s] \in Closes
      BY <1>2
    <3>2. hd = [s \in D |-> hd[s]]
      OBVIOUS
    <3> HIDE DEF hd
    <3> QED
      BY <3>1, <3>2
  <2>3. ASSUME NEW s \in D, nx[s] \in D PROVE r[nx[s]] < r[s]
    <3>1. nx[s] < s
      BY <1>2, <2>3
    <3> HIDE DEF nx
    <3> QED
      BY <1>0, <2>3, <3>1
  <2> HIDE DEF D, r, nx, hd
  <2> QED
    BY <1>0, <2>1, <2>2, <2>3 DEF IsChain
<1>4. ASSUME NEW f, NEW s \in D
      PROVE  CloseTo(p, f, s) = IF nx[s] \in D THEN <<hd[s]>> \o f[nx[s]] ELSE <<hd[s]>>
  <2>1. CASE rfind(p, ".", s) = npos
    <3>1. nx[s] \notin D /\ hd[s] = Close(substr(p, 0, s + 1))
      BY <1>2, <2>1
    <3> HIDE DEF hd, nx
    <3> QED
      BY <2>1, <3>1 DEF CloseTo
  <2>2. CASE rfind(p, ".", s) # npos
    <3>1. /\ nx[s] \in D /\ nx[s] = rfind(p, ".", s) - 1
          /\ hd[s] = Close(substr(p, rfind(p, ".", s) + 1, s - rfind(p, ".", s)))
      BY <1>2, <2>2
    <3> HIDE DEF hd, nx
    <3> QED
      BY <2>2, <3>1 DEF CloseTo
  <2> QED
    BY <2>1, <2>2
<1> HIDE DEF nx, hd, r
<1>5. \A f : IsLoop(f) <=> f = Chain(f, D, nx, hd)
  <2>1. \A f : [s \in D |-> CloseTo(p, f, s)] = Chain(f, D, nx, hd)
    BY <1>4 DEF Chain
  <2> QED
    BY <2>1
<1> HIDE DEF IsLoop
<1>6. IsLoop(to) /\ to \in [D -> Seq(Closes)]
  BY <1>3, <1>5, Chains
<1> HIDE DEF to
<1>7. \A s \in D : to[s] = CloseTo(p, to, s)
  BY <1>6 DEF IsLoop
<1> QED
  BY <1>1, <1>6, <1>7
-----------------------------------------------------------------------------
(* The names of namespaces, joined.                                        *)

Names == Seq(Chars)

JoinStep(stack, to, i) == IF i = 1 THEN stack[1] ELSE to[i - 1] \o <<".">> \o stack[i]

LEMMA JoinedLoop ==
  ASSUME NEW X \in Seq(Names)
  PROVE  \E to \in [1..Len(X) -> Names] :
           Joined(X) = to[Len(X)] /\ \A i \in 1..Len(X) : to[i] = JoinStep(X, to, i)
<1> DEFINE D == 1..Len(X)
           nx == [i \in D |-> i - 1]
           r == [i \in D |-> i]
           b == [i \in D |-> X[1]]
           g == [i \in D |-> [x \in Names |-> x \o <<".">> \o X[i]]]
           IsLoop(f) == f = [i \in D |-> JoinStep(X, f, i)]
           to == CHOOSE f : IsLoop(f)
<1>0. Len(X) \in Nat /\ \A i \in D : X[i] \in Names
  BY ElementOfSeq
<1>1. Joined(X) = to[Len(X)]
  BY DEF Joined, JoinStep
<1>2. \A i \in D : \A x \in Names : g[i][x] = x \o <<".">> \o X[i] /\ g[i][x] \in Names
  <2>1. ASSUME NEW i \in D, NEW x \in Names PROVE x \o <<".">> \o X[i] \in Names
    BY <1>0, FilesAssumption DEF Names
  <2> QED
    BY <2>1
<1>3. ASSUME NEW i \in D
      PROVE  /\ nx[i] = i - 1 /\ (nx[i] \in D <=> i # 1) /\ (i # 1 => i - 1 \in D /\ i - 1 < i)
             /\ b[i] = X[1] /\ b[i] \in Names
  <2>1. 1 \in D
    BY <1>0
  <2> QED
    BY <1>0, <2>1
<1>4. IsRecursion(Names, D, Len(X), r, nx, b, g)
  <2>1. r \in [D -> 0..Len(X)] /\ \A i \in D : r[i] = i
    BY <1>0
  <2> HIDE DEF r, nx, b, g
  <2>a. \A i \in D : \A x \in Names : g[i][x] \in Names
    BY <1>2
  <2>b. ASSUME NEW i \in D, nx[i] \in D PROVE r[nx[i]] < r[i]
    <3>1. nx[i] = i - 1 /\ r[nx[i]] = nx[i] /\ r[i] = i
      BY <1>3, <2>1, <2>b
    <3> QED
      BY <3>1
  <2>2. \A i \in D : nx[i] \in D => r[nx[i]] < r[i] /\ \A x \in Names : g[i][x] \in Names
    BY <2>a, <2>b
  <2>3. \A i \in D : nx[i] \notin D => b[i] \in Names
    BY <1>3
  <2> HIDE DEF D
  <2> QED
    BY <1>0, <2>1, <2>2, <2>3 DEF IsRecursion
<1> HIDE DEF nx, b, g, r
<1>5. PICK h : IsSolution(h, Names, D, nx, b, g)
  <2> HIDE DEF D
  <2> QED
    BY <1>4, RecursiveFunction
<1>6. h \in [D -> Names] /\ \A i \in D : h[i] = JoinStep(X, h, i)
  <2>1. h \in [D -> Names] /\ \A i \in D : h[i] = IF nx[i] \in D THEN g[i][h[nx[i]]] ELSE b[i]
    BY <1>5 DEF IsSolution
  <2>2. ASSUME NEW i \in D PROVE h[i] = JoinStep(X, h, i)
    <3>1. CASE i = 1
      BY <1>3, <2>1, <3>1 DEF JoinStep
    <3>2. CASE i # 1
      <4>1. h[i] = g[i][h[i - 1]] /\ h[i - 1] \in Names
        BY <1>3, <2>1, <3>2
      <4> QED
        BY <1>2, <3>2, <4>1 DEF JoinStep
    <3> QED
      BY <3>1, <3>2
  <2> QED
    BY <2>1, <2>2
<1>7. IsLoop(h)
  BY <1>6
<1>8. IsLoop(to)
  <2> HIDE DEF IsLoop
  <2> QED
    BY <1>7
<1> HIDE DEF to
<1>9. \A i \in D : to[i] = JoinStep(X, to, i)
  BY <1>8
<1>10. ASSUME NEW i \in D PROVE to[i] = h[i]
  <2> DEFINE Bad == {k \in D : to[k] # h[k]}
  <2> SUFFICES ASSUME Bad # {} PROVE FALSE
    OBVIOUS
  <2>1. PICK k \in Bad : \A j \in Bad : k <= j
    <3>1. Bad \in SUBSET Nat
      OBVIOUS
    <3> QED
      BY <3>1, LeastNat
  <2>2. k \in D /\ k # 1 => k - 1 \in D /\ to[k - 1] = h[k - 1]
    <3>1. k \in D /\ k # 1 => k - 1 \in D /\ ~(k <= k - 1)
      OBVIOUS
    <3> QED
      BY <2>1, <3>1
  <2> QED
    BY <1>6, <1>9, <2>1, <2>2 DEF JoinStep
<1>11. to \in [D -> Names]
  <2>1. to = [i \in D |-> to[i]]
    BY <1>8
  <2> QED
    BY <1>6, <1>10, <2>1
<1> QED
  BY <1>1, <1>9, <1>11

\* One more namespace.
LEMMA JoinedAppend ==
  ASSUME NEW X \in Seq(Names), NEW y \in Names
  PROVE  /\ Joined(Append(X, y)) = IF X = <<>> THEN y ELSE Joined(X) \o <<".">> \o y
         /\ X # <<>> => Joined(X) \in Names
<1> DEFINE n == Len(X)
           Y == Append(X, y)
<1>1. /\ n \in Nat /\ Y \in Seq(Names) /\ Len(Y) = n + 1 /\ Y[n + 1] = y
      /\ \A i \in 1..n : Y[i] = X[i]
      /\ X = <<>> <=> n = 0
  OBVIOUS
<1> HIDE DEF Y
<1>2. PICK f \in [1..n -> Names] :
        Joined(X) = f[n] /\ \A i \in 1..n : f[i] = JoinStep(X, f, i)
  BY JoinedLoop
<1>3. PICK h \in [1..Len(Y) -> Names] :
        Joined(Y) = h[Len(Y)] /\ \A i \in 1..Len(Y) : h[i] = JoinStep(Y, h, i)
  BY <1>1, JoinedLoop
<1> HIDE DEF n
<1>4. ASSUME NEW i \in 1..n PROVE h[i] = f[i]
  <2> DEFINE Bad == {k \in 1..n : h[k] # f[k]}
  <2> SUFFICES ASSUME Bad # {} PROVE FALSE
    OBVIOUS
  <2>1. PICK k \in Bad : \A j \in Bad : k <= j
    <3>1. Bad \in SUBSET Nat
      OBVIOUS
    <3> QED
      BY <3>1, LeastNat
  <2>2. k \in 1..n /\ h[k] # f[k] /\ k \in 1..Len(Y) /\ 1 \in 1..n
    BY <1>1
  <2>3. k # 1 => h[k - 1] = f[k - 1]
    <3>1. k # 1 => k - 1 \in 1..n /\ ~(k <= k - 1)
      BY <1>1, <2>2
    <3> QED
      BY <2>1, <3>1
  <2>4. Y[k] = X[k] /\ Y[1] = X[1]
    BY <1>1, <2>2
  <2>5. h[k] = JoinStep(Y, h, k) /\ f[k] = JoinStep(X, f, k)
    BY <1>2, <1>3, <2>2
  <2> QED
    BY <2>2, <2>3, <2>4, <2>5 DEF JoinStep
<1>5. n + 1 \in 1..Len(Y) /\ (n + 1) - 1 = n /\ (n + 1 = 1 <=> n = 0) /\ (n # 0 => n \in 1..n)
  BY <1>1
<1>6. Joined(Y) = JoinStep(Y, h, n + 1)
  BY <1>1, <1>3, <1>5
<1>7. CASE n = 0
  <2>1. Joined(Y) = Y[1] /\ Y[1] = y
    BY <1>1, <1>6, <1>7 DEF JoinStep
  <2> QED
    BY <1>1, <1>7, <2>1 DEF Y
<1>8. CASE n # 0
  <2>1. Joined(Y) = h[n] \o <<".">> \o y /\ h[n] = Joined(X) /\ f[n] \in Names
    BY <1>1, <1>2, <1>4, <1>5, <1>6, <1>8 DEF JoinStep
  <2> QED
    BY <1>1, <1>2, <1>8, <2>1 DEF Y
<1> QED
  BY <1>7, <1>8
-----------------------------------------------------------------------------
(* The namespaces are closed in the opposite order.                        *)

LEMMA LastDot ==
  ASSUME NEW p \in Seq(Chars), NEW s \in 1..Len(p), p[s] = ".", NEW e \in Nat, s - 1 <= e,
         \A i \in s..(Len(p) - 1) : i <= e => p[i + 1] # "."
  PROVE  rfind(p, ".", e) = s - 1
<1> DEFINE pos == rfind(p, ".", e)
<1>0. Len(p) \in Nat /\ s - 1 \in 0..(Len(p) - 1) /\ (s - 1) + 1 = s
  OBVIOUS
<1>1. \/ \A i \in 0..(Len(p) - 1) : i <= e => p[i + 1] # "."
      \/ /\ pos \in 0..(Len(p) - 1) /\ pos <= e /\ p[pos + 1] = "."
         /\ \A i \in (pos + 1)..(Len(p) - 1) : i <= e => p[i + 1] # "."
  BY FindLast
<1> HIDE DEF pos
<1>2. /\ pos \in 0..(Len(p) - 1) /\ pos <= e /\ p[pos + 1] = "."
      /\ \A i \in (pos + 1)..(Len(p) - 1) : i <= e => p[i + 1] # "."
  <2>1. p[(s - 1) + 1] = "."
    BY <1>0
  <2> QED
    BY <1>0, <1>1, <2>1
<1>3. ~(pos < s - 1)
  <2>1. ASSUME pos < s - 1 PROVE FALSE
    <3>1. s - 1 \in (pos + 1)..(Len(p) - 1)
      BY <1>0, <1>2, <2>1
    <3>2. p[(s - 1) + 1] # "."
      BY <1>2, <3>1
    <3> QED
      BY <1>0, <3>2
  <2> QED
    BY <2>1
<1>4. ~(pos > s - 1)
  <2>1. ASSUME pos > s - 1 PROVE FALSE
    <3>1. pos \in s..(Len(p) - 1)
      BY <1>0, <1>2, <2>1
    <3> QED
      BY <1>2, <3>1
  <2> QED
    BY <2>1
<1>5. pos = s - 1
  BY <1>0, <1>2, <1>3, <1>4
<1> QED
  BY <1>5 DEF pos

LEMMA NoDot ==
  ASSUME NEW p \in Seq(Chars), NEW e \in Nat,
         \A i \in 0..(Len(p) - 1) : i <= e => p[i + 1] # "."
  PROVE  rfind(p, ".", e) = npos
<1> DEFINE pos == rfind(p, ".", e)
<1>1. \/ pos = npos
      \/ pos \in 0..(Len(p) - 1) /\ pos <= e /\ p[pos + 1] = "."
  BY FindLast
<1> HIDE DEF pos
<1>2. pos = npos
  BY <1>1
<1> QED
  BY <1>2 DEF pos

\* Clipped at the end, substr is the rest.
LEMMA SubstrRest ==
  ASSUME NEW p \in Seq(Chars), NEW s \in 0..Len(p), NEW n \in Nat, s + n >= Len(p)
  PROVE  substr(p, s, n) = substr(p, s, Len(p) - s)
<1>1. Len(p) \in Nat /\ s + n \in Int /\ s + (Len(p) - s) = Len(p)
  OBVIOUS
<1>2. Min({s + n, Len(p)}) = Len(p) /\ Min({s + (Len(p) - s), Len(p)}) = Len(p)
  BY <1>1, Minimum2
<1> QED
  BY <1>2 DEF substr

\* A prefix, by position.
LEMMA SubstrPrefix ==
  ASSUME NEW p \in Seq(Chars), NEW e \in 0..Len(p)
  PROVE  /\ substr(p, 0, e) \in Seq(Chars) /\ Len(substr(p, 0, e)) = e
         /\ \A i \in 1..e : substr(p, 0, e)[i] = p[i]
<1>1. Len(p) \in Nat /\ Min({0 + e, Len(p)}) = e
  BY Minimum2
<1>2. substr(p, 0, e) = SubSeq(p, 1, e)
  <2>1. substr(p, 0, e) = SubSeq(p, 0 + 1, Min({0 + e, Len(p)})) /\ 0 + 1 = 1
    BY DEF substr
  <2> QED
    BY <1>1, <2>1
<1>3. SubSeq(p, 1, e) \in Seq(Chars) /\ Len(SubSeq(p, 1, e)) = e /\ \A i \in 1..e : SubSeq(p, 1, e)[i] = p[i]
  BY <1>1
<1> QED
  BY <1>2, <1>3

LEMMA SubstrMiddle ==
  ASSUME NEW p \in Seq(Chars), NEW s \in 0..Len(p), NEW e \in s..Len(p)
  PROVE  /\ substr(p, s, e - s) \in Seq(Chars) /\ Len(substr(p, s, e - s)) = e - s
         /\ \A i \in 1..(e - s) : substr(p, s, e - s)[i] = p[s + i]
<1>0. Len(p) \in Nat
  OBVIOUS
<1>1. PICK d \in Nat, u \in Nat : d = e - s /\ u = e - s
  <2>1. e - s \in Nat
    BY <1>0
  <2> QED
    BY <2>1
<1>2. Clipped(p, s, d, u)
  <2>1. u \in 0..(Len(p) - s) /\ s + d <= Len(p) /\ u = d
    BY <1>0, <1>1
  <2> QED
    BY <2>1 DEF Clipped
<1>3. /\ substr(p, s, d) \in Seq(Chars) /\ Len(substr(p, s, d)) = u
      /\ \A i \in 1..u : substr(p, s, d)[i] = p[s + i]
  <2>1. IsSubstr(substr(p, s, d), p, s, u)
    BY <1>2, SubstrWithin
  <2> QED
    BY <2>1 DEF IsSubstr
<1> QED
  BY <1>1, <1>3

\* The beginning up to a dot and the part after it.
LEMMA SubstrJoin ==
  ASSUME NEW p \in Seq(Chars), NEW s \in 1..Len(p), p[s] = ".", NEW e \in s..Len(p)
  PROVE  substr(p, 0, s - 1) \o <<".">> \o substr(p, s, e - s) = substr(p, 0, e)
<1> DEFINE x == substr(p, 0, s - 1)
           y == substr(p, s, e - s)
           t == substr(p, 0, e)
<1>0. /\ Len(p) \in Nat /\ s - 1 \in 0..Len(p) /\ e \in 0..Len(p) /\ s \in 0..Len(p)
      /\ e - s \in Nat /\ e - s \in 0..(Len(p) - s) /\ s + (e - s) <= Len(p)
  OBVIOUS
<1>1. x \in Seq(Chars) /\ Len(x) = s - 1 /\ \A i \in 1..(s - 1) : x[i] = p[i]
  BY <1>0, SubstrPrefix
<1>2. t \in Seq(Chars) /\ Len(t) = e /\ \A i \in 1..e : t[i] = p[i]
  BY <1>0, SubstrPrefix
<1>3. y \in Seq(Chars) /\ Len(y) = e - s /\ \A i \in 1..(e - s) : y[i] = p[s + i]
  BY <1>0, SubstrMiddle
<1>4. PICK c \in Chars : c = "."
  BY FilesAssumption
<1> HIDE DEF x, y, t
<1> DEFINE z == x \o <<c>> \o y
<1>5. /\ z \in Seq(Chars) /\ Len(z) = Len(x) + 1 + Len(y)
      /\ \A i \in 1..Len(x) : z[i] = x[i]
      /\ z[Len(x) + 1] = c
      /\ \A i \in 1..Len(y) : z[Len(x) + 1 + i] = y[i]
  <2>1. x \in Seq(Chars) /\ y \in Seq(Chars) /\ c \in Chars
    BY <1>1, <1>3
  <2> QED
    BY <2>1, Pieces
<1> HIDE DEF z
<1>6. Len(z) = e
  BY <1>0, <1>1, <1>3, <1>5
<1>7. ASSUME NEW i \in 1..e PROVE z[i] = t[i]
  <2>1. CASE i \in 1..(s - 1)
    BY <1>1, <1>2, <1>5, <2>1
  <2>2. CASE i = s
    <3>1. Len(x) + 1 = i
      BY <1>1, <2>2
    <3> QED
      BY <1>2, <1>4, <1>5, <2>2, <3>1
  <2>3. CASE i > s
    <3>1. PICK j \in 1..Len(y) : j = i - s /\ Len(x) + 1 + j = i /\ s + j = i
      <4>1. i - s \in 1..Len(y) /\ Len(x) + 1 + (i - s) = i /\ s + (i - s) = i
        BY <1>0, <1>1, <1>3, <2>3
      <4> QED
        BY <4>1
    <3>2. z[i] = y[j] /\ y[j] = p[s + j]
      BY <1>3, <1>5, <3>1
    <3> QED
      BY <1>2, <3>1, <3>2
  <2> QED
    BY <2>1, <2>2, <2>3
<1>8. z = t
  BY <1>2, <1>5, <1>6, <1>7, SeqEqual
<1> QED
  BY <1>4, <1>8 DEF x, y, z, t

\* The declarations that open the namespaces of a stack, and that close them.
Opened(X) == [i \in 1..Len(X) |-> Open(X[i])]
Closed(X) == [i \in 1..Len(X) |-> Close(X[Len(X) + 1 - i])]

LEMMA OpenedType ==
  ASSUME NEW X \in Seq(Parts)
  PROVE  /\ Opened(X) \in Seq(Opens) /\ Len(Opened(X)) = Len(X)
         /\ \A i \in 1..Len(X) : Opened(X)[i] = Open(X[i])
<1>1. Len(X) \in Nat /\ \A i \in 1..Len(X) : X[i] \in Parts
  BY ElementOfSeq
<1> DEFINE f == Opened(X)
<1>2. f \in [1..Len(X) -> Opens] /\ \A i \in 1..Len(X) : f[i] = Open(X[i])
  BY <1>1 DEF Opened, Opens
<1> HIDE DEF f
<1>3. f \in Seq(Opens) /\ Len(f) = Len(X)
  BY <1>1, <1>2
<1> QED
  BY <1>2, <1>3 DEF f

LEMMA ClosedType ==
  ASSUME NEW X \in Seq(Parts)
  PROVE  /\ Closed(X) \in Seq(Closes) /\ Len(Closed(X)) = Len(X)
         /\ \A i \in 1..Len(X) : Closed(X)[i] = Close(X[Len(X) + 1 - i])
<1>1. Len(X) \in Nat /\ \A i \in 1..Len(X) : X[i] \in Parts
  BY ElementOfSeq
<1>2. \A i \in 1..Len(X) : X[Len(X) + 1 - i] \in Parts
  <2>1. \A i \in 1..Len(X) : Len(X) + 1 - i \in 1..Len(X)
    BY <1>1
  <2> QED
    BY <1>1, <2>1
<1> DEFINE f == Closed(X)
<1>3. f \in [1..Len(X) -> Closes] /\ \A i \in 1..Len(X) : f[i] = Close(X[Len(X) + 1 - i])
  BY <1>2 DEF Closed, Closes
<1> HIDE DEF f
<1>4. f \in Seq(Closes) /\ Len(f) = Len(X)
  <2>1. PICK n \in Nat : n = Len(X) /\ f \in [1..n -> Closes]
    BY <1>1, <1>3
  <2> QED
    BY <2>1
<1> QED
  BY <1>3, <1>4 DEF f

LEMMA OpenedAppend ==
  ASSUME NEW X \in Seq(Parts), NEW x \in Parts, NEW rest \in Seq(Opens)
  PROVE  Opened(X) \o (<<Open(x)>> \o rest) = Opened(Append(X, x)) \o rest
<1> DEFINE a == Opened(X)
           Y == Append(X, x)
           b == Opened(Y)
           o == Open(x)
<1>1. Len(X) \in Nat /\ Y \in Seq(Parts) /\ Len(Y) = Len(X) + 1 /\ Y[Len(X) + 1] = x /\ \A i \in 1..Len(X) : Y[i] = X[i]
  BY AppendProperties
<1>2. o \in Opens
  BY DEF Opens
<1>3. a \in Seq(Opens) /\ Len(a) = Len(X) /\ \A i \in 1..Len(X) : a[i] = Open(X[i])
  BY OpenedType
<1> HIDE DEF Y
<1>4. b \in Seq(Opens) /\ Len(b) = Len(Y) /\ \A i \in 1..Len(Y) : b[i] = Open(Y[i])
  BY <1>1, OpenedType
<1> HIDE DEF a, b
<1>5. b = Append(a, o)
  <2> DEFINE c == Append(a, o)
  <2> HIDE DEF o
  <2>1. c \in Seq(Opens) /\ Len(c) = Len(a) + 1 /\ c[Len(a) + 1] = o /\ \A i \in 1..Len(a) : c[i] = a[i]
    BY <1>2, <1>3, AppendProperties
  <2> HIDE DEF c
  <2>2. ASSUME NEW i \in 1..Len(b) PROVE b[i] = c[i]
    <3>1. i \in 1..Len(X) \/ i = Len(X) + 1
      BY <1>1, <1>4
    <3>2. CASE i \in 1..Len(X)
      BY <1>1, <1>3, <1>4, <2>1, <3>2
    <3>3. CASE i = Len(X) + 1
      BY <1>1, <1>3, <1>4, <2>1, <3>3 DEF o
    <3> QED
      BY <3>1, <3>2, <3>3
  <2>3. Len(b) = Len(c)
    BY <1>1, <1>3, <1>4, <2>1
  <2>4. b = c
    BY <1>4, <2>1, <2>2, <2>3, SeqEqual
  <2> QED
    BY <2>4 DEF c
<1> HIDE DEF o
<1>6. a \o (<<o>> \o rest) = (a \o <<o>>) \o rest
  <2>1. <<o>> \in Seq(Opens)
    BY <1>2
  <2> QED
    BY <1>3, <2>1, ConcatAssociative
<1>7. a \o <<o>> = Append(a, o)
  BY <1>2, <1>3, AppendIsConcat
<1> QED
  BY <1>5, <1>6, <1>7 DEF a, b, o, Y

LEMMA ClosedAppend ==
  ASSUME NEW X \in Seq(Parts), NEW x \in Parts
  PROVE  Closed(Append(X, x)) = <<Close(x)>> \o Closed(X)
<1> DEFINE a == Closed(X)
           Y == Append(X, x)
           b == Closed(Y)
           o == Close(x)
<1>1. Len(X) \in Nat /\ Y \in Seq(Parts) /\ Len(Y) = Len(X) + 1 /\ Y[Len(X) + 1] = x /\ \A i \in 1..Len(X) : Y[i] = X[i]
  BY AppendProperties
<1>2. o \in Closes
  BY DEF Closes
<1>3. a \in Seq(Closes) /\ Len(a) = Len(X) /\ \A i \in 1..Len(X) : a[i] = Close(X[Len(X) + 1 - i])
  BY ClosedType
<1> HIDE DEF Y
<1>4. b \in Seq(Closes) /\ Len(b) = Len(Y) /\ \A i \in 1..Len(Y) : b[i] = Close(Y[Len(Y) + 1 - i])
  BY <1>1, ClosedType
<1> HIDE DEF a, b
<1> DEFINE s == <<o>>
           c == s \o a
<1>5. s \in Seq(Closes) /\ Len(s) = 1 /\ s[1] = o
  <2> HIDE DEF o
  <2> QED
    BY <1>2
<1> HIDE DEF s
<1>6. /\ c \in Seq(Closes) /\ Len(c) = Len(s) + Len(a)
      /\ \A i \in 1..(Len(s) + Len(a)) : c[i] = IF i <= Len(s) THEN s[i] ELSE a[i - Len(s)]
  <2>1. s \in Seq(Closes) /\ a \in Seq(Closes)
    BY <1>3, <1>5
  <2> QED
    BY <2>1, ConcatProperties
<1> HIDE DEF c
<1>7. Len(b) = Len(c)
  BY <1>1, <1>3, <1>4, <1>5, <1>6
<1>8. ASSUME NEW i \in 1..Len(b) PROVE b[i] = c[i]
  <2>1. CASE i = 1
    <3>1. Len(Y) + 1 - i = Len(X) + 1 /\ i \in 1..(Len(s) + Len(a)) /\ i <= Len(s)
      BY <1>1, <1>3, <1>5, <2>1
    <3>2. b[i] = Close(Y[Len(X) + 1])
      BY <1>4, <3>1
    <3> QED
      BY <1>1, <1>5, <1>6, <2>1, <3>1, <3>2
  <2>2. CASE i # 1
    <3>1. PICK j \in 1..Len(X) : j = i - 1
      BY <1>1, <1>4, <2>2
    <3>2. /\ Len(Y) + 1 - i = Len(X) + 1 - j /\ Len(X) + 1 - j \in 1..Len(X)
          /\ i \in 1..(Len(s) + Len(a)) /\ ~(i <= Len(s)) /\ i - Len(s) = j
      BY <1>1, <1>3, <1>4, <1>5, <3>1
    <3>3. b[i] = Close(Y[Len(X) + 1 - j]) /\ Y[Len(X) + 1 - j] = X[Len(X) + 1 - j]
      BY <1>1, <1>4, <3>2
    <3>4. c[i] = a[j] /\ a[j] = Close(X[Len(X) + 1 - j])
      BY <1>3, <1>6, <3>2
    <3> QED
      BY <3>3, <3>4
  <2> QED
    BY <2>1, <2>2
<1>9. b = c
  BY <1>4, <1>6, <1>7, <1>8, SeqEqual
<1> QED
  BY <1>9 DEF a, b, c, s, o, Y

\* Up to position s, where a part begins, the namespaces X have been opened, and
\* closing from before the dot at s - 1 closes them.
Reached(p, from, to, s, X) ==
  /\ X \in Seq(Parts)
  /\ from[0] = Opened(X) \o from[s]
  /\ s = 0 => X = <<>>
  /\ s # 0 => /\ s >= 2 /\ p[s] = "." /\ X # <<>>
              /\ to[s - 2] = Closed(X) /\ Joined(X) = substr(p, 0, s - 1)

\* The part x from s to e, closed from k.
IsPart(p, s, e, k, x) ==
  /\ s \in 0..Len(p) /\ e \in s..Len(p)
  /\ x \in Parts /\ x = substr(p, s, e - s) /\ \A i \in s..(e - 1) : p[i + 1] # "."
  /\ k \in 0..Len(p) /\ (k = e - 1 \/ (k = e /\ e = Len(p)))

\* It is the first that is closed from there.
LEMMA PartClosed ==
  ASSUME NEW p \in Seq(Chars), NEW from, NEW to, NEW X, NEW s, NEW e, NEW k, NEW x,
         Reached(p, from, to, s, X), IsPart(p, s, e, k, x),
         \A u \in 0..Len(p) : to[u] = CloseTo(p, to, u)
  PROVE  to[k] = Closed(Append(X, x)) /\ Joined(Append(X, x)) = substr(p, 0, e)
<1>a. /\ s \in 0..Len(p) /\ e \in s..Len(p)
      /\ x \in Parts /\ x = substr(p, s, e - s) /\ \A i \in s..(e - 1) : p[i + 1] # "."
      /\ k \in 0..Len(p) /\ (k = e - 1 \/ (k = e /\ e = Len(p)))
  BY DEF IsPart
<1>0. Len(p) \in Nat /\ s \in Nat /\ e \in Nat /\ k \in Nat /\ e - s \in Nat
  BY <1>a
<1>1. X \in Seq(Parts) /\ X \in Seq(Names) /\ x \in Names
  <2>1. Parts \subseteq Names
    BY SeqWider DEF Parts, Names
  <2> QED
    BY <1>a, <2>1, SeqWider DEF Reached
<1>2. Closed(Append(X, x)) = <<Close(x)>> \o Closed(X)
  BY <1>a, <1>1, ClosedAppend
<1>3. Joined(Append(X, x)) = IF X = <<>> THEN x ELSE Joined(X) \o <<".">> \o x
  BY <1>1, JoinedAppend
<1>4. \A i \in s..(Len(p) - 1) : i <= k => p[i + 1] # "."
  <2>1. \A i \in s..(Len(p) - 1) : i <= k => i \in s..(e - 1)
    BY <1>0, <1>a
  <2> QED
    BY <1>a, <2>1
<1>5. CASE s = 0
  <2>1. X = <<>> /\ x = substr(p, 0, e)
    BY <1>0, <1>a, <1>5 DEF Reached
  <2>2. rfind(p, ".", k) = npos
    BY <1>0, <1>4, <1>5, NoDot
  <2>3. to[k] = <<Close(substr(p, 0, k + 1))>>
    BY <1>a, <2>2 DEF CloseTo
  <2>4. substr(p, 0, k + 1) = x
    <3>1. CASE k = e - 1
      <4>1. k + 1 = e
        BY <1>0, <3>1
      <4> QED
        BY <2>1, <4>1
    <3>2. CASE k = e /\ e = Len(p)
      <4>1. PICK z \in 0..Len(p), n \in Nat : z = 0 /\ n = k + 1 /\ z + n >= Len(p) /\ Len(p) - z = e
        BY <1>0, <3>2
      <4>2. substr(p, z, n) = substr(p, z, Len(p) - z)
        BY <1>a, <4>1, SubstrRest
      <4> QED
        BY <2>1, <4>1, <4>2
    <3> QED
      BY <1>a, <3>1, <3>2
  <2>5. Closed(X) = <<>> /\ <<Close(x)>> \o <<>> = <<Close(x)>>
    <3>1. Closed(X) \in Seq(Closes) /\ Len(Closed(X)) = 0
      BY <1>1, <2>1, ClosedType
    <3> QED
      BY <3>1, EmptySeq
  <2> QED
    BY <1>2, <1>3, <2>1, <2>3, <2>4, <2>5
<1>6. CASE s # 0
  <2>1. s >= 2 /\ p[s] = "." /\ X # <<>> /\ to[s - 2] = Closed(X) /\ Joined(X) = substr(p, 0, s - 1)
    BY <1>6 DEF Reached
  <2>2. s \in 1..Len(p) /\ s - 1 <= k
    BY <1>0, <1>a, <1>6
  <2>3. rfind(p, ".", k) = s - 1
    BY <1>0, <1>4, <2>1, <2>2, LastDot
  <2>4. s - 1 # npos /\ (s - 1) + 1 = s /\ (s - 1) - 1 = s - 2
    BY <2>2 DEF npos
  <2>5. to[k] = <<Close(substr(p, s, k - (s - 1)))>> \o to[s - 2]
    <3>1. to[k] = CloseTo(p, to, k)
      BY <1>a
    <3>2. CloseTo(p, to, k) = <<Close(substr(p, (s - 1) + 1, k - (s - 1)))>> \o to[(s - 1) - 1]
      BY <2>3, <2>4 DEF CloseTo
    <3> QED
      BY <2>4, <3>1, <3>2
  <2>6. substr(p, s, k - (s - 1)) = x
    <3>1. CASE k = e - 1
      <4>1. k - (s - 1) = e - s
        BY <1>0, <3>1
      <4> QED
        BY <1>a, <4>1
    <3>2. CASE k = e /\ e = Len(p)
      <4>1. PICK n \in Nat : n = k - (s - 1) /\ s + n >= Len(p)
        <5>1. k - (s - 1) \in Nat /\ s + (k - (s - 1)) >= Len(p)
          BY <1>0, <2>2, <3>2
        <5> QED
          BY <5>1
      <4>2. substr(p, s, n) = substr(p, s, Len(p) - s)
        BY <1>a, <4>1, SubstrRest
      <4> QED
        BY <1>a, <3>2, <4>1, <4>2
    <3> QED
      BY <1>a, <3>1, <3>2
  <2>7. substr(p, 0, s - 1) \o <<".">> \o substr(p, s, e - s) = substr(p, 0, e)
    BY <1>a, <2>1, <2>2, SubstrJoin
  <2> QED
    BY <1>a, <1>2, <1>3, <2>1, <2>5, <2>6, <2>7
<1> QED
  BY <1>5, <1>6

\* The next part.
LEMMA ReachedNext ==
  ASSUME NEW p \in Seq(Chars), p # <<>>, p[1] # ".",
         NEW from \in [0..Len(p) -> Seq(Opens)], NEW to, NEW X, NEW s \in 0..Len(p),
         Reached(p, from, to, s, X),
         \A u \in 0..Len(p) : from[u] = OpenFrom(p, from, u),
         \A k \in 0..Len(p) : to[k] = CloseTo(p, to, k),
         find(p, ".", s) # npos
  PROVE  \E u \in 0..Len(p) : \E Y : u > s /\ Reached(p, from, to, u, Y)
<1> DEFINE e == find(p, ".", s)
           x == substr(p, s, e - s)
           Y == Append(X, x)
<1>0. Len(p) \in Nat /\ s \in Nat
  OBVIOUS
<1>1. e \in s..(Len(p) - 1) /\ p[e + 1] = "." /\ \A i \in s..(e - 1) : p[i + 1] # "."
  BY <1>0, FindFirst
<1>a. from[s] = <<Open(x)>> \o from[e + 1]
  <2>1. from[s] = OpenFrom(p, from, s)
    OBVIOUS
  <2> QED
    BY <2>1 DEF OpenFrom
<1> HIDE DEF e
<1>2. e \in Nat /\ e - s \in Nat /\ e \in s..Len(p) /\ e + 1 \in 0..Len(p) /\ e + 1 > s /\ (e + 1) - 2 = e - 1 /\ (e + 1) - 1 = e
  BY <1>0, <1>1
<1>3. e # 0
  BY <1>1
<1>4. e - 1 \in 0..Len(p) /\ e + 1 >= 2 /\ e + 1 # 0
  BY <1>0, <1>2, <1>3
<1>5. x \in Parts
  <2>1. \A i \in s..(Len(p) - 1) : i < s + (e - s) => i \in s..(e - 1)
    BY <1>0, <1>1
  <2>2. \A i \in s..(Len(p) - 1) : i < s + (e - s) => p[i + 1] # "."
    BY <1>1, <2>1
  <2> QED
    BY <1>2, <2>2, PartBetween
<1>b. X \in Seq(Parts) /\ from[0] = Opened(X) \o from[s]
  BY DEF Reached
<1>6. x = substr(p, s, e - s)
  OBVIOUS
<1> HIDE DEF x
<1>7. to[e - 1] = Closed(Y) /\ Joined(Y) = substr(p, 0, e)
  <2>1. PICK k \in 0..Len(p) : k = e - 1
    BY <1>4
  <2>a. IsPart(p, s, e, k, x)
    BY <1>1, <1>2, <1>5, <1>6, <2>1 DEF IsPart
  <2>2. to[k] = Closed(Append(X, x)) /\ Joined(Append(X, x)) = substr(p, 0, e)
    BY <2>a, PartClosed
  <2> QED
    BY <2>1, <2>2
<1>8. from[0] = Opened(Y) \o from[e + 1]
  <2>1. from[e + 1] \in Seq(Opens)
    BY <1>2
  <2> QED
    BY <1>5, <1>a, <1>b, <2>1, OpenedAppend
<1>9. Y \in Seq(Parts) /\ Y # <<>>
  BY <1>5, <1>b, AppendProperties
<1> HIDE DEF Y
<1>10. Reached(p, from, to, e + 1, Y)
  BY <1>1, <1>2, <1>4, <1>7, <1>8, <1>9 DEF Reached
<1> QED
  BY <1>2, <1>10

\* The package is the stack X of namespaces: they are opened in this order and
\* closed in the opposite one.
IsStackOf(p, X) ==
  /\ X \in Seq(Parts) /\ Openings(p) = Opened(X) /\ Closings(p) = Closed(X)
  /\ p = <<>> <=> X = <<>>
  /\ p # <<>> => Joined(X) = p

LEMMA PackageStack ==
  ASSUME NEW p \in Seq(Chars), p # <<>> => p[1] # "."
  PROVE  \E X : IsStackOf(p, X)
<1>1. CASE p = <<>>
  <2>1. Openings(p) = <<>> /\ Closings(p) = <<>>
    BY <1>1 DEF Openings, Closings
  <2>2. <<>> \in Seq(Parts)
    OBVIOUS
  <2>3. Opened(<<>>) = <<>> /\ Closed(<<>>) = <<>>
    <3>1. Opened(<<>>) \in Seq(Opens) /\ Len(Opened(<<>>)) = 0
      BY <2>2, OpenedType
    <3>2. Closed(<<>>) \in Seq(Closes) /\ Len(Closed(<<>>)) = 0
      BY <2>2, ClosedType
    <3> QED
      BY <3>1, <3>2, EmptySeq
  <2>4. IsStackOf(p, <<>>)
    BY <1>1, <2>1, <2>2, <2>3 DEF IsStackOf
  <2> QED
    BY <2>4
<1>2. CASE p # <<>>
  <2>0. Len(p) \in Nat /\ p[1] # "."
    BY <1>2
  <2>1. PICK from \in [0..Len(p) -> Seq(Opens)] :
          Openings(p) = from[0] /\ \A s \in 0..Len(p) : from[s] = OpenFrom(p, from, s)
    BY <1>2, OpeningsLoop
  <2>2. PICK to \in [0..Len(p) -> Seq(Closes)] :
          Closings(p) = to[Len(p)] /\ \A s \in 0..Len(p) : to[s] = CloseTo(p, to, s)
    BY <1>2, <2>0, ClosingsLoop
  <2> DEFINE R == {s \in 0..Len(p) : \E X : Reached(p, from, to, s, X)}
  <2>3. 0 \in R
    <3>1. 0 \in 0..Len(p) /\ from[0] \in Seq(Opens)
      BY <2>0
    <3>2. <<>> \in Seq(Parts)
      OBVIOUS
    <3>3. Opened(<<>>) = <<>>
      <4>1. Opened(<<>>) \in Seq(Opens) /\ Len(Opened(<<>>)) = 0
        BY <3>2, OpenedType
      <4> QED
        BY <4>1, EmptySeq
    <3>4. <<>> \o from[0] = from[0]
      BY <3>1, ConcatEmptySeq
    <3>5. Reached(p, from, to, 0, <<>>)
      BY <3>2, <3>3, <3>4 DEF Reached
    <3> QED
      BY <3>1, <3>5
  <2>4. PICK s \in R : \A u \in R : u <= s
    <3>1. R \in SUBSET (0..Len(p)) /\ R # {}
      BY <2>3
    <3> HIDE DEF R
    <3> QED
      BY <2>0, <3>1, GreatestNat
  <2>5. s \in 0..Len(p)
    OBVIOUS
  <2>6. PICK X : Reached(p, from, to, s, X)
    BY <2>4
  <2>7. find(p, ".", s) = npos
    <3> SUFFICES ASSUME find(p, ".", s) # npos PROVE FALSE
      OBVIOUS
    <3>1. PICK u \in 0..Len(p) : u > s /\ \E Y : Reached(p, from, to, u, Y)
      BY <1>2, <2>0, <2>1, <2>2, <2>5, <2>6, ReachedNext
    <3>2. u \in R /\ ~(u <= s)
      BY <2>0, <2>5, <3>1
    <3> QED
      BY <2>4, <3>2
  <2> DEFINE x == substr(p, s, Len(p) - s)
             Y == Append(X, x)
  <2>a. Len(p) - s \in Nat /\ s \in Nat /\ s + Len(p) >= Len(p) /\ Len(p) \in s..Len(p) /\ Len(p) \in 0..Len(p)
    BY <2>0, <2>5
  <2>8. \A i \in s..(Len(p) - 1) : p[i + 1] # "."
    <3>1. find(p, ".", s) \notin s..(Len(p) - 1)
      BY <2>0, <2>5, <2>7 DEF npos
    <3> QED
      BY <2>a, <3>1, FindFirst
  <2>9. x \in Parts
    BY <2>5, <2>8, <2>a, PartBetween
  <2>10. substr(p, s, Len(p)) = x
    BY <2>0, <2>5, <2>a, SubstrRest
  <2>11. from[s] = <<Open(x)>>
    <3>1. from[s] = OpenFrom(p, from, s)
      BY <2>1, <2>5
    <3> HIDE DEF x
    <3> QED
      BY <2>7, <2>10, <3>1 DEF OpenFrom
  <2>b. x = substr(p, s, Len(p) - s)
    OBVIOUS
  <2> HIDE DEF x
  <2>12. to[Len(p)] = Closed(Y) /\ Joined(Y) = substr(p, 0, Len(p))
    <3>1. PICK e \in s..Len(p), k \in 0..Len(p) : e = Len(p) /\ k = Len(p)
      BY <2>a
    <3>2. \A i \in s..(e - 1) : p[i + 1] # "."
      BY <2>8, <3>1
    <3>3. x = substr(p, s, e - s)
      BY <2>b, <3>1
    <3>a. IsPart(p, s, e, k, x)
      BY <2>5, <2>9, <3>1, <3>2, <3>3 DEF IsPart
    <3>4. to[k] = Closed(Append(X, x)) /\ Joined(Append(X, x)) = substr(p, 0, e)
      BY <2>2, <2>6, <3>a, PartClosed
    <3> QED
      BY <3>1, <3>4
  <2>13. X \in Seq(Parts) /\ from[0] = Opened(X) \o from[s]
    BY <2>6 DEF Reached
  <2>14. from[0] = Opened(Y)
    <3>1. <<>> \in Seq(Opens) /\ <<Open(x)>> \o <<>> = <<Open(x)>>
      OBVIOUS
    <3>2. Opened(X) \o (<<Open(x)>> \o <<>>) = Opened(Y) \o <<>>
      BY <2>9, <2>13, <3>1, OpenedAppend
    <3>3. Y \in Seq(Parts)
      BY <2>9, <2>13, AppendProperties
    <3> HIDE DEF Y
    <3>4. Opened(Y) \o <<>> = Opened(Y)
      BY <3>3, OpenedType, ConcatEmptySeq
    <3> QED
      BY <2>11, <2>13, <3>1, <3>2, <3>4
  <2>15. substr(p, 0, Len(p)) = p
    <3> DEFINE q == substr(p, 0, Len(p))
    <3>1. q \in Seq(Chars) /\ Len(q) = Len(p) /\ \A i \in 1..Len(p) : q[i] = p[i]
      BY <2>a, SubstrPrefix
    <3> HIDE DEF q
    <3>2. q = p
      BY <3>1, SeqEqual
    <3> QED
      BY <3>2 DEF q
  <2>16. Y \in Seq(Parts) /\ Y # <<>>
    BY <2>9, <2>13, AppendProperties
  <2> HIDE DEF Y
  <2>17. IsStackOf(p, Y)
    BY <1>2, <2>1, <2>2, <2>12, <2>14, <2>15, <2>16 DEF IsStackOf
  <2> QED
    BY <2>17
<1> QED
  BY <1>1, <1>2
-----------------------------------------------------------------------------
(* The namespaces that are open.                                           *)

LEMMA InsideType ==
  ASSUME NEW N, <<".">> \in N, NEW stack \in Seq(N), NEW d, d.name \in N
  PROVE  Inside(stack, d) \in Seq(N)
<1>1. Append(stack, d.name) \in Seq(N) /\ Append(stack, <<".">>) \in Seq(N)
  BY AppendProperties
<1>2. stack # <<>> => Front(stack) \in Seq(N)
  BY DEF Front
<1> QED
  BY <1>1, <1>2 DEF Inside

LEMMA ScopesLoop ==
  ASSUME NEW ds, Len(ds) \in Nat
  PROVE  /\ Scopes(ds)[0] = <<>>
         /\ \A i \in 1..Len(ds) : Scopes(ds)[i] = Inside(Scopes(ds)[i - 1], ds[i])
<1> DEFINE n == Len(ds)
           D == 0..n
           N == {ds[i].name : i \in 1..n} \cup {<<".">>}
           nx == [i \in D |-> i - 1]
           r == [i \in D |-> i]
           b == [i \in D |-> <<>>]
           g == [i \in D |-> [x \in Seq(N) |-> Inside(x, ds[i])]]
           Loop(f, i) == IF i = 0 THEN <<>> ELSE Inside(f[i - 1], ds[i])
           IsLoop(f) == f = [i \in D |-> Loop(f, i)]
           after == CHOOSE f : IsLoop(f)
<1>1. Scopes(ds) = after
  BY DEF Scopes
<1>2. ASSUME NEW i \in 1..n, NEW x \in Seq(N) PROVE g[i][x] = Inside(x, ds[i]) /\ g[i][x] \in Seq(N)
  <2>1. i \in D /\ ds[i].name \in N /\ <<".">> \in N
    OBVIOUS
  <2>2. g[i][x] = Inside(x, ds[i])
    BY <2>1
  <2> HIDE DEF N, g
  <2> QED
    BY <2>1, <2>2, InsideType
<1> HIDE DEF N
<1>3. ASSUME NEW i \in D
      PROVE  nx[i] = i - 1 /\ (nx[i] \in D <=> i # 0) /\ (i # 0 => i \in 1..n /\ i - 1 \in D) /\ b[i] = <<>>
  OBVIOUS
<1>4. IsRecursion(Seq(N), D, n, r, nx, b, g)
  <2>1. r \in [D -> 0..n] /\ \A i \in D : r[i] = i
    OBVIOUS
  <2> HIDE DEF r, nx, b, g
  <2>2. ASSUME NEW i \in D, nx[i] \in D PROVE r[nx[i]] < r[i]
    <3>1. nx[i] = i - 1 /\ r[nx[i]] = nx[i] /\ r[i] = i
      BY <1>3, <2>1, <2>2
    <3> QED
      BY <3>1
  <2>3. \A i \in D : nx[i] \in D => \A x \in Seq(N) : g[i][x] \in Seq(N)
    BY <1>2, <1>3
  <2>4. \A i \in D : nx[i] \notin D => b[i] \in Seq(N)
    <3>1. <<>> \in Seq(N)
      OBVIOUS
    <3>2. \A i \in D : b[i] = <<>>
      BY <1>3
    <3> QED
      BY <3>1, <3>2
  <2> HIDE DEF D
  <2> QED
    BY <2>1, <2>2, <2>3, <2>4 DEF IsRecursion
<1> HIDE DEF nx, b, g, r
<1>5. PICK h : IsSolution(h, Seq(N), D, nx, b, g)
  <2> HIDE DEF D
  <2> QED
    BY <1>4, RecursiveFunction
<1>6. h \in [D -> Seq(N)] /\ \A i \in D : h[i] = Loop(h, i)
  <2>1. h \in [D -> Seq(N)] /\ \A i \in D : h[i] = IF nx[i] \in D THEN g[i][h[nx[i]]] ELSE b[i]
    BY <1>5 DEF IsSolution
  <2>2. ASSUME NEW i \in D PROVE h[i] = Loop(h, i)
    <3>1. CASE i = 0
      BY <1>3, <2>1, <3>1
    <3>2. CASE i # 0
      <4>1. h[i] = g[i][h[i - 1]] /\ h[i - 1] \in Seq(N)
        BY <1>3, <2>1, <3>2
      <4> QED
        BY <1>2, <1>3, <3>2, <4>1
    <3> QED
      BY <3>1, <3>2
  <2> QED
    BY <2>1, <2>2
<1> HIDE DEF Loop
<1>7. IsLoop(h)
  BY <1>6
<1>8. IsLoop(after)
  <2> HIDE DEF IsLoop
  <2> QED
    BY <1>7
<1> HIDE DEF after
<1>9. \A i \in D : after[i] = Loop(after, i)
  BY <1>8
<1>10. 0 \in D /\ \A i \in 1..n : i \in D /\ i # 0
  OBVIOUS
<1> HIDE DEF D
<1> QED
  BY <1>1, <1>9, <1>10 DEF Loop

\* Later declarations change nothing.
LEMMA ScopesPrefix ==
  ASSUME NEW ds, Len(ds) \in Nat, NEW es, Len(es) \in Nat, Len(ds) <= Len(es),
         \A i \in 1..Len(ds) : es[i] = ds[i],
         NEW i \in 0..Len(ds)
  PROVE  Scopes(es)[i] = Scopes(ds)[i]
<1> DEFINE Bad == {k \in 0..Len(ds) : Scopes(es)[k] # Scopes(ds)[k]}
<1> SUFFICES ASSUME Bad # {} PROVE FALSE
  OBVIOUS
<1>1. PICK k \in Bad : \A j \in Bad : k <= j
  <2>1. Bad \in SUBSET Nat
    OBVIOUS
  <2> QED
    BY <2>1, LeastNat
<1>2. k \in 0..Len(ds) /\ Scopes(es)[k] # Scopes(ds)[k]
  OBVIOUS
<1>3. k # 0
  BY <1>2, ScopesLoop
<1>4. k \in 1..Len(ds) /\ k \in 1..Len(es) /\ k - 1 \in 0..Len(ds) /\ ~(k <= k - 1)
  BY <1>2, <1>3
<1>5. Scopes(es)[k - 1] = Scopes(ds)[k - 1]
  BY <1>1, <1>4
<1>6. Scopes(es)[k] = Inside(Scopes(es)[k - 1], es[k]) /\ Scopes(ds)[k] = Inside(Scopes(ds)[k - 1], ds[k])
  BY <1>4, ScopesLoop
<1> QED
  BY <1>2, <1>4, <1>5, <1>6

LEMMA InsideOpen ==
  ASSUME NEW stack, NEW d, d.kind = "open"
  PROVE  Inside(stack, d) = Append(stack, d.name)
  BY DEF Inside

LEMMA InsideClose ==
  ASSUME NEW stack, NEW d, d.kind = "close", stack # <<>>, stack[Len(stack)] = d.name
  PROVE  Inside(stack, d) = Front(stack)
<1>1. d.kind # "open"
  OBVIOUS
<1> QED
  BY <1>1 DEF Inside

LEMMA InsideOther ==
  ASSUME NEW stack, NEW d, d.kind \notin {"open", "close"}
  PROVE  Inside(stack, d) = stack
  BY DEF Inside

\* The namespaces of the package are opened.
LEMMA ScopesOpened ==
  ASSUME NEW X \in Seq(Parts)
  PROVE  Scopes(Opened(X))[Len(X)] = X
<1> DEFINE ds == Opened(X)
           Top(i) == SubSeq(X, 1, i)
<1>0. Len(X) \in Nat /\ Len(ds) = Len(X) /\ \A i \in 1..Len(X) : ds[i] = Open(X[i])
  BY OpenedType
<1> HIDE DEF ds
<1>1. /\ Scopes(ds)[0] = <<>>
      /\ \A i \in 1..Len(X) : Scopes(ds)[i] = Inside(Scopes(ds)[i - 1], ds[i])
  BY <1>0, ScopesLoop
<1>2. ASSUME NEW i \in 1..Len(X), Scopes(ds)[i - 1] = Top(i - 1) PROVE Scopes(ds)[i] = Top(i)
  <2>1. ds[i].kind = "open" /\ ds[i].name = X[i]
    <3>1. ds[i] = Open(X[i])
      BY <1>0
    <3> QED
      BY <3>1 DEF Open
  <2>2. Append(Top(i - 1), X[i]) = Top(i)
    BY <1>0
  <2>3. Inside(Top(i - 1), ds[i]) = Append(Top(i - 1), X[i])
    BY <2>1, InsideOpen
  <2> QED
    BY <1>1, <1>2, <2>2, <2>3
<1>3. Scopes(ds)[0] = Top(0)
  BY <1>1
<1>4. Scopes(ds)[Len(X)] = Top(Len(X))
  <2> DEFINE Bad == {i \in 0..Len(X) : Scopes(ds)[i] # Top(i)}
  <2> HIDE DEF Top
  <2> SUFFICES ASSUME Bad # {} PROVE FALSE
    BY <1>0
  <2>1. PICK k \in Bad : \A j \in Bad : k <= j
    <3>1. Bad \in SUBSET Nat
      OBVIOUS
    <3> QED
      BY <3>1, LeastNat
  <2>2. k \in 0..Len(X) /\ Scopes(ds)[k] # Top(k)
    OBVIOUS
  <2>3. k \in 1..Len(X) /\ k - 1 \in 0..Len(X) /\ ~(k <= k - 1)
    BY <1>0, <1>3, <2>2
  <2>4. Scopes(ds)[k - 1] = Top(k - 1)
    BY <2>1, <2>3
  <2> QED
    BY <1>2, <2>2, <2>3, <2>4
<1>5. Top(Len(X)) = X
  BY <1>0
<1> QED
  BY <1>4, <1>5 DEF ds

\* The namespaces of the package are closed.
LEMMA ScopesClosed ==
  ASSUME NEW X \in Seq(Parts), NEW ds, NEW m \in Nat, Len(ds) = m + Len(X),
         Scopes(ds)[m] = X, \A i \in 1..Len(X) : ds[m + i] = Close(X[Len(X) + 1 - i])
  PROVE  Scopes(ds)[Len(ds)] = <<>>
<1> DEFINE Top(i) == SubSeq(X, 1, Len(X) - i)
<1>0. Len(X) \in Nat /\ Len(ds) \in Nat
  OBVIOUS
<1>1. \A i \in 1..Len(ds) : Scopes(ds)[i] = Inside(Scopes(ds)[i - 1], ds[i])
  BY <1>0, ScopesLoop
<1>2. ASSUME NEW i \in 1..Len(X), Scopes(ds)[m + (i - 1)] = Top(i - 1) PROVE Scopes(ds)[m + i] = Top(i)
  <2> DEFINE st == Top(i - 1)
  <2>1. ds[m + i].kind = "close" /\ ds[m + i].name = X[Len(X) + 1 - i]
    <3>1. ds[m + i] = Close(X[Len(X) + 1 - i])
      OBVIOUS
    <3> QED
      BY <3>1 DEF Close
  <2>2. m + i \in 1..Len(ds) /\ (m + i) - 1 = m + (i - 1)
    BY <1>0
  <2>3. PICK n \in 1..Len(X) : n = Len(X) + 1 - i /\ Len(X) - (i - 1) = n /\ Len(X) - i = n - 1
    BY <1>0
  <2>4. st = SubSeq(X, 1, n) /\ Top(i) = SubSeq(X, 1, n - 1)
    BY <2>3
  <2> HIDE DEF st
  <2>5. st # <<>> /\ Len(st) = n /\ st[Len(st)] = X[n]
    <3>1. Len(SubSeq(X, 1, n)) = n /\ SubSeq(X, 1, n)[n] = X[n]
      BY <1>0
    <3>2. Len(st) = n /\ st[n] = X[n]
      BY <2>4, <3>1
    <3>3. st # <<>>
      BY <3>2
    <3> QED
      BY <3>2, <3>3
  <2>6. Front(st) = SubSeq(X, 1, n - 1)
    <3>1. Front(st) = SubSeq(st, 1, n - 1)
      BY <2>5 DEF Front
    <3>2. SubSeq(SubSeq(X, 1, n), 1, n - 1) = SubSeq(X, 1, n - 1)
      BY <1>0
    <3> QED
      BY <2>4, <3>1, <3>2
  <2>7. Inside(st, ds[m + i]) = Front(st)
    BY <2>1, <2>3, <2>5, InsideClose
  <2>8. Scopes(ds)[m + i] = Inside(st, ds[m + i])
    BY <1>1, <1>2, <2>2 DEF st
  <2> QED
    BY <2>4, <2>6, <2>7, <2>8
<1>3. Scopes(ds)[m + 0] = Top(0)
  <2>1. SubSeq(X, 1, Len(X)) = X /\ Len(X) - 0 = Len(X) /\ m + 0 = m
    BY <1>0
  <2> QED
    BY <2>1
<1>4. Scopes(ds)[m + Len(X)] = Top(Len(X))
  <2> DEFINE Bad == {i \in 0..Len(X) : Scopes(ds)[m + i] # Top(i)}
  <2> HIDE DEF Top
  <2> SUFFICES ASSUME Bad # {} PROVE FALSE
    BY <1>0
  <2>1. PICK k \in Bad : \A j \in Bad : k <= j
    <3>1. Bad \in SUBSET Nat
      OBVIOUS
    <3> QED
      BY <3>1, LeastNat
  <2>2. k \in 0..Len(X) /\ Scopes(ds)[m + k] # Top(k)
    OBVIOUS
  <2>a. k # 0
    BY <1>3, <2>2
  <2>3. k \in 1..Len(X) /\ k - 1 \in 0..Len(X) /\ ~(k <= k - 1)
    BY <1>0, <2>a, <2>2
  <2>4. Scopes(ds)[m + (k - 1)] = Top(k - 1)
    BY <2>1, <2>3
  <2> QED
    BY <1>2, <2>2, <2>3, <2>4
<1>5. Top(Len(X)) = <<>>
  <2>1. Len(X) - Len(X) = 0 /\ SubSeq(X, 1, 0) = <<>>
    BY <1>0
  <2> QED
    BY <2>1
<1> QED
  BY <1>4, <1>5
-----------------------------------------------------------------------------
(* The inductive invariant.                                                *)

\* The methods that a file may declare.
ProperMethods(f) == {m \in Methods : m.input # f.package /\ m.output # f.package}

\* The declarations that its header may hold.
Decls(f) ==
  Opens \cup Closes
    \cup {Rpc(f.package, m) : m \in ProperMethods(f)}
    \cup {ServiceDecl(f.package, f.services[j]) : j \in 1..Len(f.services)}

LEMMA FileFacts ==
  ASSUME NEW f \in Files
  PROVE  /\ f.package \in Seq(Chars) /\ (f.package # <<>> => f.package[1] # ".")
         /\ f.services \in Seq(Services) /\ Len(f.services) \in Nat
         /\ \A j \in 1..Len(f.services) :
              /\ f.services[j].name \in Parts
              /\ f.services[j].methods \in Seq(Methods) /\ Len(f.services[j].methods) \in Nat
              /\ \A k \in 1..Len(f.services[j].methods) : f.services[j].methods[k] \in ProperMethods(f)
<1>1. /\ f.package \in Seq(Chars) /\ (f.package # <<>> => f.package[1] # ".")
      /\ f.services \in Seq(Services)
      /\ \A i \in 1..Len(f.services) : \A j \in 1..Len(f.services[i].methods) :
           f.package \notin {f.services[i].methods[j].input, f.services[i].methods[j].output}
  BY FilesAssumption
<1>2. ASSUME NEW j \in 1..Len(f.services)
      PROVE  f.services[j].name \in Parts /\ f.services[j].methods \in Seq(Methods)
  <2>1. f.services[j] \in Services
    BY <1>1, ElementOfSeq
  <2> QED
    BY <2>1 DEF Services, Parts
<1>3. ASSUME NEW j \in 1..Len(f.services), NEW k \in 1..Len(f.services[j].methods)
      PROVE  f.services[j].methods[k] \in ProperMethods(f)
  <2>1. f.services[j].methods[k] \in Methods
    BY <1>2, ElementOfSeq
  <2> QED
    BY <1>1, <2>1 DEF ProperMethods
<1> QED
  BY <1>1, <1>2, <1>3

\* The namespaces of the package.
Stack(p) == [i \in 1..Len(Openings(p)) |-> Openings(p)[i].name]

LEMMA StackOf ==
  ASSUME NEW f \in Files
  PROVE  IsStackOf(f.package, Stack(f.package))
<1>1. PICK X : IsStackOf(f.package, X)
  BY FileFacts, PackageStack
<1>2. X \in Seq(Parts) /\ Openings(f.package) = Opened(X)
  BY <1>1 DEF IsStackOf
<1>3. Len(Opened(X)) = Len(X) /\ \A i \in 1..Len(X) : Opened(X)[i] = Open(X[i])
  BY <1>2, OpenedType
<1>4. Stack(f.package) = [i \in 1..Len(X) |-> Opened(X)[i].name]
  BY <1>2, <1>3 DEF Stack
<1>5. \A i \in 1..Len(X) : Opened(X)[i].name = X[i]
  <2>1. \A i \in 1..Len(X) : Open(X[i]).name = X[i]
    BY DEF Open
  <2> QED
    BY <1>3, <2>1
<1>6. Stack(f.package) = X
  <2>1. X = [i \in 1..Len(X) |-> X[i]]
    BY <1>2
  <2> QED
    BY <1>4, <1>5, <2>1
<1> QED
  BY <1>1, <1>6

\* RPCs and services are inside the namespaces of the package and of a service,
\* the one that a service is registered as.
InService(f, stack, d) ==
  d.kind \in {"rpc", "service"} =>
    \E j \in 1..Len(f.services) :
      /\ stack = Append(Stack(f.package), f.services[j].name)
      /\ d.kind = "service" => d.name = FullName(f.package, f.services[j].name)

GeneratorInv ==
  /\ file \in Files /\ at \in -1..(Len(file.services) + 1) /\ out \in Seq(Decls(file))
  /\ at = -1 => out = <<>>
  /\ at \in 0..Len(file.services) => Scopes(out)[Len(out)] = Stack(file.package)
  /\ at > Len(file.services) => Scopes(out)[Len(out)] = <<>>
  /\ \A i \in 1..Len(out) : InService(file, Scopes(out)[i], out[i])

LEMMA DeclKinds ==
  ASSUME NEW f, NEW d \in Decls(f)
  PROVE  /\ d.kind = "rpc" => \E m \in ProperMethods(f) : d = Rpc(f.package, m)
         /\ d \in Opens => d.kind = "open"
         /\ d \in Closes => d.kind = "close"
<1>1. d \in Opens => d.kind = "open"
  BY DEF Opens, Open
<1>2. d \in Closes => d.kind = "close"
  BY DEF Closes, Close
<1>3. \A j : ServiceDecl(f.package, f.services[j]).kind = "service"
  BY DEF ServiceDecl
<1> QED
  BY <1>1, <1>2, <1>3 DEF Decls

\* The types of RPCs.
LEMMA TypesOfDecls == GeneratorInv => OwnTypesMapped
<1> SUFFICES ASSUME GeneratorInv, NEW i \in 1..Len(out), out[i].kind = "rpc", NEW k \in 1..2
             PROVE  LET full == out[i].full[k]
                        name == Dots(out[i].types[k])
                    IN  /\ OwnType(file.package, full) => Denotes(file.package, name, full)
                        /\ ~IsPrefix(file.package, full) => name = full
  BY DEF OwnTypesMapped
<1>1. file \in Files /\ out \in Seq(Decls(file))
  BY DEF GeneratorInv
<1>2. out[i] \in Decls(file)
  BY <1>1, ElementOfSeq
<1>3. PICK m \in ProperMethods(file) : out[i] = Rpc(file.package, m)
  BY <1>2, DeclKinds
<1>4. /\ m.input \in Seq(Chars) /\ m.output \in Seq(Chars)
      /\ m.input # file.package /\ m.output # file.package
  BY DEF ProperMethods, Methods
<1>5. out[i].types = <<Mapper(file.package, m.input), Mapper(file.package, m.output)>> /\ out[i].full = <<m.input, m.output>>
  BY <1>3 DEF Rpc
<1>6. PICK full \in Seq(Chars) : full # file.package /\ out[i].full[k] = full /\ out[i].types[k] = Mapper(file.package, full)
  <2>1. CASE k = 1
    BY <1>4, <1>5, <2>1
  <2>2. CASE k = 2
    BY <1>4, <1>5, <2>2
  <2> QED
    BY <2>1, <2>2
<1>7. file.package \in Seq(Chars)
  BY <1>1, FileFacts
<1>8. PICK name : name = Dots(out[i].types[k])
  OBVIOUS
<1>9. /\ OwnType(file.package, full) => full = FullName(file.package, name)
      /\ ~IsPrefix(file.package, full) => name = full
  BY <1>6, <1>7, <1>8, MappedType
<1>10. OwnType(file.package, full) => Denotes(file.package, name, full)
  BY <1>7, <1>9, RelativeDenotes
<1> QED
  BY <1>6, <1>8, <1>9, <1>10

\* The namespaces of the package and of a service spell the name of the service.
LEMMA StackSpells ==
  ASSUME NEW f \in Files, NEW j \in 1..Len(f.services)
  PROVE  Spells(Append(Stack(f.package), f.services[j].name), FullName(f.package, f.services[j].name))
<1> DEFINE X == Stack(f.package)
           y == f.services[j].name
           Y == Append(X, y)
<1>1. /\ X \in Seq(Parts) /\ (f.package = <<>> <=> X = <<>>)
      /\ (f.package # <<>> => Joined(X) = f.package)
  BY StackOf DEF IsStackOf
<1>2. y \in Parts
  BY FileFacts
<1>3. Joined(Y) = IF X = <<>> THEN y ELSE Joined(X) \o <<".">> \o y
  <2>1. Parts \subseteq Names
    BY SeqWider DEF Parts, Names
  <2>2. X \in Seq(Names) /\ y \in Names
    BY <1>1, <1>2, <2>1, SeqWider
  <2> HIDE DEF X, y
  <2> QED
    BY <2>2, JoinedAppend
<1>4. Joined(Y) = FullName(f.package, y)
  BY <1>1, <1>3 DEF FullName
<1> HIDE DEF X, y
<1>5. Y \in Seq(Parts) /\ Y # <<>>
  BY <1>1, <1>2, AppendProperties
<1> HIDE DEF Y
<1>6. ASSUME NEW k \in 1..Len(Y), NEW i \in 1..Len(Y[k]) PROVE Y[k][i] # "."
  <2>1. Y[k] \in Seq(Chars \ {"."})
    BY <1>5, ElementOfSeq DEF Parts
  <2>2. Y[k][i] \in Chars \ {"."}
    BY <2>1, ElementOfSeq
  <2> QED
    BY <2>2
<1>7. Spells(Y, FullName(f.package, y))
  BY <1>4, <1>5, <1>6 DEF Spells
<1> QED
  BY <1>7 DEF X, y, Y

LEMMA NestedByInv == GeneratorInv => NamespacesNested
<1> SUFFICES ASSUME GeneratorInv PROVE NamespacesNested
  OBVIOUS
<1>1. /\ file \in Files
      /\ at > Len(file.services) => Scopes(out)[Len(out)] = <<>>
      /\ \A i \in 1..Len(out) : InService(file, Scopes(out)[i], out[i])
  BY DEF GeneratorInv
<1>2. ASSUME NEW i \in 1..Len(out), out[i].kind = "service" PROVE Spells(Scopes(out)[i], out[i].name)
  <2>1. PICK j \in 1..Len(file.services) :
          /\ Scopes(out)[i] = Append(Stack(file.package), file.services[j].name)
          /\ out[i].name = FullName(file.package, file.services[j].name)
    BY <1>1, <1>2 DEF InService
  <2> QED
    BY <1>1, <2>1, StackSpells
<1>3. ASSUME NEW i \in 1..Len(out), out[i].kind = "rpc"
      PROVE  \E j \in 1..Len(file.services) :
               Spells(Scopes(out)[i], FullName(file.package, file.services[j].name))
  <2>1. PICK j \in 1..Len(file.services) : Scopes(out)[i] = Append(Stack(file.package), file.services[j].name)
    BY <1>1, <1>3 DEF InService
  <2> QED
    BY <1>1, <2>1, StackSpells
<1> QED
  BY <1>1, <1>2, <1>3 DEF NamespacesNested

\* A prefix stays inside its services.
LEMMA InServiceKept ==
  ASSUME NEW f, NEW S, NEW ds \in Seq(S), NEW es \in Seq(S), Len(ds) <= Len(es),
         \A i \in 1..Len(ds) : es[i] = ds[i] /\ InService(f, Scopes(ds)[i], ds[i])
  PROVE  \A i \in 0..Len(ds) :
           Scopes(es)[i] = Scopes(ds)[i] /\ (i # 0 => InService(f, Scopes(es)[i], es[i]))
<1>0. Len(ds) \in Nat /\ Len(es) \in Nat
  OBVIOUS
<1>1. \A i \in 1..Len(ds) : es[i] = ds[i]
  OBVIOUS
<1>2. \A i \in 0..Len(ds) : Scopes(es)[i] = Scopes(ds)[i]
  BY <1>0, <1>1, ScopesPrefix
<1>3. ASSUME NEW i \in 0..Len(ds), i # 0 PROVE InService(f, Scopes(es)[i], es[i])
  <2>1. i \in 1..Len(ds)
    BY <1>0, <1>3
  <2> QED
    BY <1>2, <2>1
<1> QED
  BY <1>2, <1>3

LEMMA InitInv == GeneratorInit => GeneratorInv
<1> SUFFICES ASSUME GeneratorInit PROVE GeneratorInv
  OBVIOUS
<1>1. file \in Files /\ at = -1 /\ out = <<>>
  BY DEF GeneratorInit
<1>2. Len(file.services) \in Nat
  BY <1>1, FileFacts
<1>3. at \in -1..(Len(file.services) + 1) /\ at \notin 0..Len(file.services) /\ ~(at > Len(file.services))
  BY <1>1, <1>2
<1>4. out \in Seq(Decls(file)) /\ Len(out) = 0
  BY <1>1
<1> QED
  BY <1>1, <1>3, <1>4 DEF GeneratorInv

LEMMA OpenInv == GeneratorInv /\ OpenNamespaces => GeneratorInv'
<1> SUFFICES ASSUME GeneratorInv, OpenNamespaces PROVE GeneratorInv'
  OBVIOUS
<1>1. file \in Files /\ file' = file /\ at' = 0 /\ out' = Openings(file.package)
  BY DEF GeneratorInv, OpenNamespaces
<1>2. Len(file.services) \in Nat
  BY <1>1, FileFacts
<1> DEFINE X == Stack(file.package)
<1>3. X \in Seq(Parts) /\ out' = Opened(X)
  BY <1>1, StackOf DEF IsStackOf
<1> HIDE DEF X
<1>4. out' \in Seq(Opens) /\ Len(out') = Len(X) /\ \A i \in 1..Len(X) : out'[i] = Open(X[i])
  BY <1>3, OpenedType
<1>5. Scopes(out')[Len(out')] = X
  BY <1>3, <1>4, ScopesOpened
<1>6. out' \in Seq(Decls(file))
  BY <1>4, SeqWider DEF Decls
<1>7. ASSUME NEW i \in 1..Len(out') PROVE InService(file, Scopes(out')[i], out'[i])
  <2>1. out'[i].kind = "open"
    <3>1. out'[i] = Open(X[i])
      BY <1>4
    <3>2. Open(X[i]).kind = "open"
      BY DEF Open
    <3> QED
      BY <3>1, <3>2
  <2> QED
    BY <2>1 DEF InService
<1>8. at' \in -1..(Len(file.services) + 1) /\ at' # -1 /\ ~(at' > Len(file.services))
  BY <1>1, <1>2
<1> QED
  BY <1>1, <1>5, <1>6, <1>7, <1>8 DEF GeneratorInv, X

LEMMA CloseInv == GeneratorInv /\ CloseNamespaces => GeneratorInv'
<1> SUFFICES ASSUME GeneratorInv, CloseNamespaces PROVE GeneratorInv'
  OBVIOUS
<1> DEFINE X == Stack(file.package)
           D == Decls(file)
<1>1. /\ file \in Files /\ file' = file /\ at = Len(file.services) /\ at' = at + 1
      /\ out' = out \o Closings(file.package) /\ out \in Seq(D)
      /\ \A i \in 1..Len(out) : InService(file, Scopes(out)[i], out[i])
  BY DEF GeneratorInv, CloseNamespaces
<1>2. Len(file.services) \in Nat
  BY <1>1, FileFacts
<1>3. X \in Seq(Parts) /\ Closings(file.package) = Closed(X)
  BY <1>1, StackOf DEF IsStackOf
<1>a. Scopes(out)[Len(out)] = X
  <2>1. at \in 0..Len(file.services)
    BY <1>1, <1>2
  <2> QED
    BY <2>1 DEF GeneratorInv
<1>b. Closes \subseteq D
  BY DEF Decls
<1> HIDE DEF X, D
<1> DEFINE cs == Closed(X)
           es == out \o cs
<1>4. cs \in Seq(Closes) /\ Len(cs) = Len(X) /\ \A i \in 1..Len(X) : cs[i] = Close(X[Len(X) + 1 - i])
  BY <1>3, ClosedType
<1>5. cs \in Seq(D)
  BY <1>4, <1>b, SeqWider
<1> HIDE DEF cs
<1>6. /\ es \in Seq(D) /\ Len(es) = Len(out) + Len(cs)
      /\ \A i \in 1..(Len(out) + Len(cs)) : es[i] = IF i <= Len(out) THEN out[i] ELSE cs[i - Len(out)]
  <2>1. out \in Seq(D)
    BY <1>1
  <2> QED
    BY <1>5, <2>1, ConcatProperties
<1> HIDE DEF es
<1>7. Len(out) \in Nat /\ Len(X) \in Nat /\ Len(cs) = Len(X)
  BY <1>1, <1>3, <1>4
<1>8. \A i \in 1..Len(out) : es[i] = out[i]
  BY <1>6, <1>7
<1>9. \A i \in 1..Len(X) : es[Len(out) + i] = Close(X[Len(X) + 1 - i])
  <2>1. ASSUME NEW i \in 1..Len(X) PROVE es[Len(out) + i] = cs[i]
    <3>1. Len(out) + i \in 1..(Len(out) + Len(cs)) /\ ~(Len(out) + i <= Len(out)) /\ (Len(out) + i) - Len(out) = i
      BY <1>7
    <3> QED
      BY <1>6, <3>1
  <2> QED
    BY <1>4, <2>1
<1>10. \A i \in 0..Len(out) :
         Scopes(es)[i] = Scopes(out)[i] /\ (i # 0 => InService(file, Scopes(es)[i], es[i]))
  <2>1. Len(out) <= Len(es) /\ out \in Seq(D)
    BY <1>1, <1>6, <1>7
  <2>2. \A i \in 1..Len(out) : es[i] = out[i] /\ InService(file, Scopes(out)[i], out[i])
    BY <1>1, <1>8
  <2> QED
    BY <1>6, <2>1, <2>2, InServiceKept
<1>11. Scopes(es)[Len(es)] = <<>>
  <2>1. Scopes(es)[Len(out)] = X
    BY <1>7, <1>a, <1>10
  <2> QED
    BY <1>3, <1>6, <1>7, <1>9, <2>1, ScopesClosed
<1>12. ASSUME NEW i \in 1..Len(es) PROVE InService(file, Scopes(es)[i], es[i])
  <2>1. CASE i \in 1..Len(out)
    <3>1. i \in 0..Len(out) /\ i # 0
      BY <1>7, <2>1
    <3> QED
      BY <1>10, <3>1
  <2>2. CASE i \notin 1..Len(out)
    <3>1. PICK k \in 1..Len(X) : i = Len(out) + k
      <4>1. i - Len(out) \in 1..Len(X) /\ i = Len(out) + (i - Len(out))
        BY <1>6, <1>7, <2>2
      <4> QED
        BY <4>1
    <3>2. es[i] = Close(X[Len(X) + 1 - k])
      BY <1>9, <3>1
    <3>3. es[i].kind = "close"
      BY <3>2 DEF Close
    <3> QED
      BY <3>3 DEF InService
  <2> QED
    BY <2>1, <2>2
<1>13. out' = es
  BY <1>1, <1>3 DEF es, cs
<1>14. at' \in -1..(Len(file.services) + 1) /\ at' # -1 /\ at' \notin 0..Len(file.services)
  BY <1>1, <1>2
<1> QED
  BY <1>1, <1>6, <1>11, <1>12, <1>13, <1>14 DEF GeneratorInv, D

\* One service more: the declarations ds, then the namespace o, the RPCs rs, the
\* type d and the brace c.
WithService(es, S, ds, n, o, rs, k, d, c) ==
  /\ es \in Seq(S) /\ Len(es) = n + k + 3
  /\ \A i \in 1..n : es[i] = ds[i]
  /\ es[n + 1] = o
  /\ \A i \in 1..k : es[n + 1 + i] = rs[i]
  /\ es[n + k + 2] = d /\ es[n + k + 3] = c

LEMMA ServiceDecls ==
  ASSUME NEW S, NEW ds \in Seq(S), NEW o \in S, NEW rs \in Seq(S), NEW d \in S, NEW c \in S
  PROVE  WithService(ds \o <<o>> \o rs \o <<d, c>>, S, ds, Len(ds), o, rs, Len(rs), d, c)
<1>0. PICK n \in Nat, k \in Nat : n = Len(ds) /\ k = Len(rs)
  OBVIOUS
<1> DEFINE z == ds \o <<o>> \o rs
           t == <<d, c>>
           es == z \o t
<1>1. /\ z \in Seq(S) /\ Len(z) = Len(ds) + 1 + Len(rs)
      /\ \A i \in 1..Len(ds) : z[i] = ds[i]
      /\ z[Len(ds) + 1] = o
      /\ \A i \in 1..Len(rs) : z[Len(ds) + 1 + i] = rs[i]
  BY Pieces
<1>2. t \in Seq(S) /\ Len(t) = 2 /\ t[1] = d /\ t[2] = c
  OBVIOUS
<1> HIDE DEF z, t
<1>3. /\ es \in Seq(S) /\ Len(es) = Len(z) + Len(t)
      /\ \A i \in 1..(Len(z) + Len(t)) : es[i] = IF i <= Len(z) THEN z[i] ELSE t[i - Len(z)]
  <2>1. z \in Seq(S) /\ t \in Seq(S)
    BY <1>1, <1>2
  <2> QED
    BY <2>1, ConcatProperties
<1> HIDE DEF es
<1>4. Len(z) = n + k + 1 /\ Len(z) + Len(t) = n + k + 3 /\ Len(z) \in Nat
  BY <1>0, <1>1, <1>2
<1>5. \A i \in 1..Len(z) : es[i] = z[i]
  <2>1. \A i \in 1..Len(z) : i \in 1..(Len(z) + Len(t)) /\ i <= Len(z)
    BY <1>4
  <2> QED
    BY <1>3, <2>1
<1>6. es[n + k + 2] = d /\ es[n + k + 3] = c
  <2>1. /\ n + k + 2 \in 1..(Len(z) + Len(t)) /\ ~(n + k + 2 <= Len(z)) /\ n + k + 2 - Len(z) = 1
        /\ n + k + 3 \in 1..(Len(z) + Len(t)) /\ ~(n + k + 3 <= Len(z)) /\ n + k + 3 - Len(z) = 2
    BY <1>4
  <2> QED
    BY <1>2, <1>3, <2>1
<1>7. \A i \in 1..n : es[i] = ds[i]
  <2>1. \A i \in 1..n : i \in 1..Len(z)
    BY <1>4
  <2> QED
    BY <1>0, <1>1, <1>5, <2>1
<1>8. es[n + 1] = o
  <2>1. n + 1 \in 1..Len(z)
    BY <1>4
  <2> QED
    BY <1>0, <1>1, <1>5, <2>1
<1>9. ASSUME NEW i \in 1..k PROVE es[n + 1 + i] = rs[i]
  <2>1. n + 1 + i \in 1..Len(z)
    BY <1>4
  <2>2. z[n + 1 + i] = rs[i]
    BY <1>0, <1>1
  <2> QED
    BY <1>5, <2>1, <2>2
<1>10. WithService(es, S, ds, n, o, rs, k, d, c)
  BY <1>3, <1>4, <1>6, <1>7, <1>8, <1>9 DEF WithService
<1> QED
  BY <1>0, <1>10 DEF es, z, t

\* The namespaces that are open within a service.
ServiceKinds(es, n, k, y) ==
  /\ es[n + 1].kind = "open" /\ es[n + 1].name = y
  /\ \A i \in 1..k : es[n + 1 + i].kind = "rpc"
  /\ es[n + k + 2].kind = "service"
  /\ es[n + k + 3].kind = "close" /\ es[n + k + 3].name = y

AfterService(es, n, k, S, X, y) ==
  /\ n \in Nat /\ k \in Nat /\ Len(es) = n + k + 3
  /\ X \in Seq(S) /\ y \in S /\ Scopes(es)[n] = X /\ ServiceKinds(es, n, k, y)

LEMMA ServiceScopes ==
  ASSUME NEW es, NEW n, NEW k, NEW S, NEW X, NEW y, AfterService(es, n, k, S, X, y)
  PROVE  /\ \A i \in 0..k : Scopes(es)[n + 1 + i] = Append(X, y)
         /\ Scopes(es)[n + k + 2] = Append(X, y)
         /\ Scopes(es)[n + k + 3] = X
<1> DEFINE Y == Append(X, y)
<1> USE DEF AfterService
<1>a. n \in Nat /\ k \in Nat /\ Len(es) = n + k + 3 /\ X \in Seq(S) /\ y \in S /\ Scopes(es)[n] = X
  OBVIOUS
<1>b. ServiceKinds(es, n, k, y)
  OBVIOUS
<1> HIDE DEF AfterService
<1>0. Len(es) \in Nat
  BY <1>a
<1>1. \A i \in 1..Len(es) : Scopes(es)[i] = Inside(Scopes(es)[i - 1], es[i])
  BY <1>0, ScopesLoop
<1>2. Scopes(es)[n + 1] = Y
  <2>1. n + 1 \in 1..Len(es) /\ (n + 1) - 1 = n
    BY <1>a
  <2>2. Scopes(es)[n + 1] = Inside(X, es[n + 1])
    BY <1>1, <1>a, <2>1
  <2> QED
    BY <2>2, <1>b, InsideOpen DEF ServiceKinds
<1>3. Y \in Seq(S) /\ Y # <<>> /\ Len(Y) = Len(X) + 1 /\ Y[Len(X) + 1] = y /\ Front(Y) = X
  <2>1. Len(X) \in Nat /\ Y \in Seq(S) /\ Y # <<>> /\ Len(Y) = Len(X) + 1 /\ Y[Len(X) + 1] = y
    BY <1>a, AppendProperties
  <2>2. SubSeq(Y, 1, (Len(X) + 1) - 1) = X
    BY <1>a
  <2> QED
    BY <2>1, <2>2 DEF Front
<1> HIDE DEF Y
<1>4. ASSUME NEW i \in 0..k PROVE Scopes(es)[n + 1 + i] = Y
  <2> DEFINE Bad == {q \in 0..k : Scopes(es)[n + 1 + q] # Y}
  <2> SUFFICES ASSUME Bad # {} PROVE FALSE
    OBVIOUS
  <2>1. PICK q \in Bad : \A j \in Bad : q <= j
    <3>1. Bad \in SUBSET Nat
      BY <1>a
    <3> QED
      BY <3>1, LeastNat
  <2>2. q \in 0..k /\ Scopes(es)[n + 1 + q] # Y
    OBVIOUS
  <2>3. q # 0
    <3>1. n + 1 + 0 = n + 1
      BY <1>a
    <3> QED
      BY <1>2, <2>2, <3>1
  <2>4. /\ q \in 1..k /\ q - 1 \in 0..k /\ ~(q <= q - 1) /\ n + 1 + q \in 1..Len(es)
        /\ (n + 1 + q) - 1 = n + 1 + (q - 1)
    BY <1>a, <2>2, <2>3
  <2>5. Scopes(es)[n + 1 + (q - 1)] = Y
    BY <2>1, <2>4
  <2>6. Scopes(es)[n + 1 + q] = Inside(Y, es[n + 1 + q])
    BY <1>1, <2>4, <2>5
  <2>7. es[n + 1 + q].kind \notin {"open", "close"}
    BY <1>b, <2>4 DEF ServiceKinds
  <2> QED
    BY <2>2, <2>6, <2>7, InsideOther
<1>5. Scopes(es)[n + k + 2] = Y
  <2>1. n + k + 2 \in 1..Len(es) /\ (n + k + 2) - 1 = n + 1 + k /\ k \in 0..k
    BY <1>a
  <2>2. Scopes(es)[n + k + 2] = Inside(Y, es[n + k + 2])
    BY <1>1, <1>4, <2>1
  <2>3. es[n + k + 2].kind \notin {"open", "close"}
    BY <1>b DEF ServiceKinds
  <2> QED
    BY <2>2, <2>3, InsideOther
<1>6. Scopes(es)[n + k + 3] = X
  <2>1. n + k + 3 \in 1..Len(es) /\ (n + k + 3) - 1 = n + k + 2
    BY <1>a
  <2>2. Scopes(es)[n + k + 3] = Inside(Y, es[n + k + 3])
    BY <1>1, <1>5, <2>1
  <2>3. Inside(Y, es[n + k + 3]) = Front(Y)
    BY <1>3, <1>b, InsideClose DEF ServiceKinds
  <2> QED
    BY <1>3, <2>2, <2>3
<1> QED
  BY <1>4, <1>5, <1>6 DEF Y

LEMMA ServiceInv == GeneratorInv /\ GenerateService => GeneratorInv'
<1> SUFFICES ASSUME GeneratorInv, GenerateService PROVE GeneratorInv'
  OBVIOUS
<1> DEFINE p == file.package
           X == Stack(p)
           D == Decls(file)
<1>0. /\ file \in Files /\ file' = file /\ at \in 0..(Len(file.services) - 1) /\ at' = at + 1
      /\ out \in Seq(D)
      /\ \A i \in 1..Len(out) : InService(file, Scopes(out)[i], out[i])
  BY DEF GeneratorInv, GenerateService
<1>1. Len(file.services) \in Nat
  BY <1>0, FileFacts
<1>2. PICK j \in 1..Len(file.services) : j = at + 1
  BY <1>0, <1>1
<1> DEFINE s == file.services[j]
           o == Open(s.name)
           rs == [i \in 1..Len(s.methods) |-> Rpc(p, s.methods[i])]
           d == ServiceDecl(p, s)
           c == Close(s.name)
           es == out \o <<o>> \o rs \o <<d, c>>
<1>3. out' = es
  <2>1. out' = out \o <<Open(file.services[at + 1].name)>>
                 \o [i \in 1..Len(file.services[at + 1].methods) |-> Rpc(file.package, file.services[at + 1].methods[i])]
                 \o <<ServiceDecl(file.package, file.services[at + 1]), Close(file.services[at + 1].name)>>
    BY DEF GenerateService
  <2> QED
    BY <1>2, <2>1
<1>4. Scopes(out)[Len(out)] = X
  <2>1. at \in 0..Len(file.services)
    BY <1>0, <1>1
  <2> QED
    BY <2>1 DEF GeneratorInv
<1>5. X \in Seq(Parts)
  BY <1>0, StackOf DEF IsStackOf
<1>6. /\ s.name \in Parts /\ Len(s.methods) \in Nat
      /\ \A i \in 1..Len(s.methods) : s.methods[i] \in ProperMethods(file)
  BY <1>0, FileFacts
<1>7. o \in D /\ d \in D /\ c \in D
  BY <1>6 DEF Decls, Opens, Closes
<1>8. rs \in Seq(D) /\ Len(rs) = Len(s.methods) /\ \A i \in 1..Len(s.methods) : rs[i].kind = "rpc"
  <2>1. \A i \in 1..Len(s.methods) : Rpc(p, s.methods[i]) \in D /\ Rpc(p, s.methods[i]).kind = "rpc"
    <3>1. \A i \in 1..Len(s.methods) : Rpc(p, s.methods[i]) \in D
      BY <1>6 DEF Decls
    <3>2. \A m : Rpc(p, m).kind = "rpc"
      BY DEF Rpc
    <3> QED
      BY <3>1, <3>2
  <2>2. PICK k \in Nat : k = Len(s.methods)
    BY <1>6
  <2>3. rs \in [1..k -> D] /\ \A i \in 1..k : rs[i] = Rpc(p, s.methods[i])
    BY <2>1, <2>2
  <2> HIDE DEF D, rs
  <2>4. rs \in Seq(D) /\ Len(rs) = k
    BY <2>3
  <2> QED
    BY <2>1, <2>2, <2>3, <2>4
<1>9. o.kind = "open" /\ o.name = s.name /\ c.kind = "close" /\ c.name = s.name
  BY DEF Open, Close
<1>10. d.kind = "service" /\ d.name = FullName(p, s.name)
  BY DEF ServiceDecl
<1> HIDE DEF o, rs, d, c, D, X
<1>11. PICK n \in Nat, k \in Nat : n = Len(out) /\ k = Len(rs) /\ k = Len(s.methods)
  <2>1. Len(out) \in Nat
    BY <1>0
  <2> QED
    BY <1>6, <1>8, <2>1
<1>12. /\ es \in Seq(D) /\ Len(es) = n + k + 3
       /\ \A i \in 1..n : es[i] = out[i]
       /\ es[n + 1] = o
       /\ \A i \in 1..k : es[n + 1 + i] = rs[i]
       /\ es[n + k + 2] = d /\ es[n + k + 3] = c
  <2>1. out \in Seq(D) /\ rs \in Seq(D) /\ o \in D /\ d \in D /\ c \in D
    BY <1>0, <1>7, <1>8
  <2>2. WithService(es, D, out, Len(out), o, rs, Len(rs), d, c)
    BY <2>1, ServiceDecls
  <2> HIDE DEF es
  <2>3. WithService(es, D, out, n, o, rs, k, d, c)
    BY <1>11, <2>2
  <2> QED
    BY <2>3 DEF WithService
<1> HIDE DEF es
<1>13. \A i \in 0..n : Scopes(es)[i] = Scopes(out)[i] /\ (i # 0 => InService(file, Scopes(es)[i], es[i]))
  <2>1. Len(out) <= Len(es) /\ out \in Seq(D) /\ es \in Seq(D)
    BY <1>0, <1>11, <1>12
  <2>2. \A i \in 1..Len(out) : es[i] = out[i] /\ InService(file, Scopes(out)[i], out[i])
    BY <1>0, <1>11, <1>12
  <2>3. \A i \in 0..Len(out) : Scopes(es)[i] = Scopes(out)[i] /\ (i # 0 => InService(file, Scopes(es)[i], es[i]))
    BY <2>1, <2>2, InServiceKept
  <2> QED
    BY <1>11, <2>3
<1>14. Scopes(es)[n] = X
  BY <1>4, <1>11, <1>13
<1> DEFINE y == s.name
<1>15. ServiceKinds(es, n, k, y) /\ es[n + k + 2].name = FullName(p, y)
  <2>1. es[n + 1].kind = "open" /\ es[n + 1].name = y
    BY <1>9, <1>12
  <2>2. \A i \in 1..k : es[n + 1 + i].kind = "rpc"
    <3>1. \A i \in 1..k : rs[i].kind = "rpc"
      BY <1>8, <1>11
    <3>2. \A i \in 1..k : es[n + 1 + i] = rs[i]
      BY <1>12
    <3> QED
      BY <3>1, <3>2
  <2>3. es[n + k + 2].kind = "service" /\ es[n + k + 2].name = FullName(p, y)
    BY <1>10, <1>12
  <2>4. es[n + k + 3].kind = "close" /\ es[n + k + 3].name = y
    BY <1>9, <1>12
  <2> QED
    BY <2>1, <2>2, <2>3, <2>4 DEF ServiceKinds
<1>16. y \in Parts
  BY <1>6
<1>20. y = file.services[j].name
  OBVIOUS
<1> HIDE DEF y
<1>17. /\ \A i \in 0..k : Scopes(es)[n + 1 + i] = Append(X, y)
       /\ Scopes(es)[n + k + 2] = Append(X, y)
       /\ Scopes(es)[n + k + 3] = X
  <2>1. AfterService(es, n, k, Parts, X, y)
    BY <1>5, <1>12, <1>14, <1>15, <1>16 DEF AfterService
  <2> QED
    BY <2>1, ServiceScopes
<1>18. ASSUME NEW i \in 1..Len(es) PROVE InService(file, Scopes(es)[i], es[i])
  <2>0. i \in 1..n \/ i = n + 1 \/ (i > n + 1 /\ i <= n + 1 + k) \/ i = n + k + 2 \/ i = n + k + 3
    BY <1>12
  <2>1. CASE i \in 1..n
    <3>1. i \in 0..n /\ i # 0
      BY <2>1
    <3> QED
      BY <1>13, <3>1
  <2>2. CASE i = n + 1
    BY <1>15, <2>2 DEF InService, ServiceKinds
  <2>3. CASE i > n + 1 /\ i <= n + 1 + k
    <3>1. PICK q \in 1..k : i = n + 1 + q
      <4>1. i - (n + 1) \in 1..k /\ i = n + 1 + (i - (n + 1))
        BY <1>12, <2>3
      <4> QED
        BY <4>1
    <3>2. Scopes(es)[i] = Append(X, y) /\ es[i].kind = "rpc"
      <4>1. q \in 0..k
        OBVIOUS
      <4>2. Scopes(es)[n + 1 + q] = Append(X, y)
        BY <1>17, <4>1
      <4>3. es[n + 1 + q].kind = "rpc"
        BY <1>15 DEF ServiceKinds
      <4> QED
        BY <3>1, <4>2, <4>3
    <3> QED
      BY <1>20, <3>2 DEF InService, X
  <2>4. CASE i = n + k + 2
    <3>1. Scopes(es)[i] = Append(X, y) /\ es[i].name = FullName(p, y)
      BY <1>15, <1>17, <2>4
    <3> QED
      BY <1>20, <3>1 DEF InService, X
  <2>5. CASE i = n + k + 3
    BY <1>15, <2>5 DEF InService, ServiceKinds
  <2> QED
    BY <2>0, <2>1, <2>2, <2>3, <2>4, <2>5
<1>19. at' \in -1..(Len(file.services) + 1) /\ at' # -1 /\ ~(at' > Len(file.services))
  BY <1>0, <1>1
<1>21. Scopes(es)[Len(es)] = X
  BY <1>12, <1>17
<1> QED
  BY <1>0, <1>3, <1>12, <1>18, <1>19, <1>21 DEF GeneratorInv, D, X
-----------------------------------------------------------------------------
(* The theorems.                                                           *)

\* Every step of Generate keeps the invariant: what is written are the namespaces
\* of the package, the services in them, and in the end the closing braces.
THEOREM GeneratorInvariant == GeneratorSpec => []GeneratorInv
<1>1. GeneratorInv /\ [GeneratorNext]_generatorVars => GeneratorInv'
  <2> SUFFICES ASSUME GeneratorInv, [GeneratorNext]_generatorVars PROVE GeneratorInv'
    OBVIOUS
  <2>1. CASE OpenNamespaces
    BY <2>1, OpenInv
  <2>2. CASE GenerateService
    BY <2>2, ServiceInv
  <2>3. CASE CloseNamespaces
    BY <2>3, CloseInv
  <2>4. CASE UNCHANGED generatorVars
    BY <2>4 DEF GeneratorInv, generatorVars
  <2> QED
    BY <2>1, <2>2, <2>3, <2>4 DEF GeneratorNext
<1> QED
  BY <1>1, InitInv, PTL DEF GeneratorSpec

\* Whatever package a file has, the namespaces around a service and its RPCs are
\* the parts of the full name that the service is registered with, every closing
\* brace closes the namespace that it names, and none is open in the end
\* (Grpcxx::Generate, the two loops over the package).
THEOREM NamespacesCorrect == GeneratorSpec => []NamespacesNested
  BY GeneratorInvariant, NestedByInv, PTL

\* For names of any length: an RPC is declared with names that C++ resolves to its
\* types when these are of the file's own package (or there is none), and a type
\* whose full name does not begin with the characters of the package keeps that
\* name (mapper in Grpcxx::Generate).
THEOREM OwnTypesCorrect == GeneratorSpec => []OwnTypesMapped
  BY GeneratorInvariant, TypesOfDecls, PTL
=============================================================================
