------------------------------ MODULE Recursion ------------------------------
(***************************************************************************)
(* Natural numbers have least elements, and functions that are defined by  *)
(* recursion exist.  The proofs use these facts where other provers would  *)
(* use induction: what fails for some number fails for a least one.        *)
(***************************************************************************)
EXTENDS Integers, WellFoundedInduction, TLAPS

\* A set of natural numbers that is not empty has a least element.
LEMMA LeastNat ==
  ASSUME NEW S \in SUBSET Nat, S # {}
  PROVE  \E i \in S : \A j \in S : i <= j
<1>1. \E i \in S : \A j \in S : ~(<<j, i>> \in OpToRel(<, Nat))
  BY NatLessThanWellFounded, WFMin
<1>2. \A i, j \in Nat : i < j => <<i, j>> \in OpToRel(<, Nat)
  BY DEF OpToRel
<1>3. PICK i \in S : \A j \in S : ~(j < i)
  BY <1>1, <1>2
<1> QED
  BY <1>3

\* A set of natural numbers up to n that is not empty has a greatest element.
LEMMA GreatestNat ==
  ASSUME NEW n \in Nat, NEW S \in SUBSET (0..n), S # {}
  PROVE  \E i \in S : \A j \in S : j <= i
<1> DEFINE R == {n - i : i \in S}
<1>1. R \in SUBSET Nat /\ R # {}
  OBVIOUS
<1> HIDE DEF R
<1>2. PICK r \in R : \A q \in R : r <= q
  BY <1>1, LeastNat
<1> USE DEF R
<1>3. PICK i \in S : r = n - i
  OBVIOUS
<1>4. ASSUME NEW j \in S PROVE j <= i
  <2>1. n - j \in R /\ r <= n - j
    BY <1>2
  <2> QED
    BY <1>3, <2>1
<1> QED
  BY <1>4

\* A recursion on D: f[s] = g[s][f[nx[s]]], and f[s] = b[s] where nx leaves D.
\* nx leads to a smaller rank r, and the values are in T.
IsRecursion(T, D, n, r, nx, b, g) ==
  /\ n \in Nat /\ r \in [D -> 0..n]
  /\ \A s \in D : nx[s] \in D => r[nx[s]] < r[s] /\ \A x \in T : g[s][x] \in T
  /\ \A s \in D : nx[s] \notin D => b[s] \in T

IsSolution(f, T, D, nx, b, g) ==
  f \in [D -> T] /\ \A s \in D : f[s] = IF nx[s] \in D THEN g[s][f[nx[s]]] ELSE b[s]

\* A recursion defines a function.
LEMMA RecursiveFunction ==
  ASSUME NEW T, NEW D, NEW n, NEW r, NEW nx, NEW b, NEW g, IsRecursion(T, D, n, r, nx, b, g)
  PROVE  \E f : IsSolution(f, T, D, nx, b, g)
<1>0. /\ n \in Nat /\ r \in [D -> 0..n]
      /\ \A s \in D : nx[s] \in D => r[nx[s]] < r[s] /\ \A x \in T : g[s][x] \in T
      /\ \A s \in D : nx[s] \notin D => b[s] \in T
  BY DEF IsRecursion
<1> DEFINE Below(k) == {s \in D : r[s] < k}
           Agrees(f, k) == \A s \in Below(k) : f[s] = IF nx[s] \in D THEN g[s][f[nx[s]]] ELSE b[s]
           Solved(k) == \E f \in [Below(k) -> T] : Agrees(f, k)
<1>1. Solved(0)
  <2>1. Below(0) = {}
    BY <1>0
  <2>2. [s \in {} |-> b[s]] \in [{} -> T]
    OBVIOUS
  <2> QED
    BY <2>1, <2>2
<1>2. ASSUME NEW k \in Nat, Solved(k) PROVE Solved(k + 1)
  <2>1. PICK f \in [Below(k) -> T] : Agrees(f, k)
    BY <1>2
  <2> DEFINE h == [s \in Below(k + 1) |-> IF nx[s] \in D THEN g[s][f[nx[s]]] ELSE b[s]]
  <2>2. ASSUME NEW s \in Below(k + 1), nx[s] \in D
        PROVE  nx[s] \in Below(k) /\ nx[s] \in Below(k + 1) /\ f[nx[s]] \in T
    <3>1. s \in D /\ r[s] \in Nat /\ r[s] < k + 1 /\ r[nx[s]] \in Nat /\ r[nx[s]] < r[s]
      BY <1>0, <2>2
    <3>2. r[nx[s]] < k /\ r[nx[s]] < k + 1
      BY <3>1
    <3> QED
      BY <2>1, <2>2, <3>2
  <2>3. h \in [Below(k + 1) -> T]
    <3>1. ASSUME NEW s \in Below(k + 1) PROVE (IF nx[s] \in D THEN g[s][f[nx[s]]] ELSE b[s]) \in T
      BY <1>0, <2>2
    <3> QED
      BY <3>1
  <2>4. ASSUME NEW s \in Below(k + 1), nx[s] \in D PROVE h[nx[s]] = f[nx[s]]
    BY <2>1, <2>2, <2>4
  <2>5. Agrees(h, k + 1)
    BY <2>4
  <2> QED
    BY <2>3, <2>5
<1> HIDE DEF Solved
<1>3. Solved(n + 1)
  <2> DEFINE Bad == {k \in Nat : ~Solved(k)}
  <2>1. SUFFICES ASSUME Bad # {} PROVE FALSE
    BY <1>0
  <2>2. PICK k \in Bad : \A j \in Bad : k <= j
    BY <2>1, LeastNat
  <2>3. k # 0
    BY <1>1
  <2>4. k - 1 \in Nat /\ k - 1 \notin Bad
    BY <2>2, <2>3
  <2>5. Solved((k - 1) + 1)
    BY <1>2, <2>4
  <2> QED
    BY <2>5
<1>4. Below(n + 1) = D
  <2>1. \A s \in D : r[s] \in 0..n
    BY <1>0
  <2> QED
    BY <1>0, <2>1
<1>5. PICK f \in [Below(n + 1) -> T] : Agrees(f, n + 1)
  BY <1>3 DEF Solved
<1>6. IsSolution(f, T, D, nx, b, g)
  BY <1>4, <1>5 DEF IsSolution
<1> QED
  BY <1>6
=============================================================================
