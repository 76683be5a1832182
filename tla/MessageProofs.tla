---------------------------- MODULE MessageProofs ----------------------------
(***************************************************************************)
(* Proofs about Message, for any number of values of a byte, any lengths   *)
(* and any cut of the stream.                                              *)
(***************************************************************************)
EXTENDS Message, SequenceTheorems, TLAPS

-----------------------------------------------------------------------------
(* The four length bytes.                                                  *)

LEMMA Products ==
  ASSUME NEW a \in Nat, NEW b \in Nat, NEW d \in Nat
  PROVE  /\ a * d \in Nat
         /\ a <= b => a * d <= b * d
         /\ (a + b) * d = a * d + b * d
         /\ d * a = a * d
         /\ a + 1 <= b => a * d + d <= b * d
  OBVIOUS

\* Quotient and remainder are unique.
LEMMA DivUnique ==
  ASSUME NEW a \in Nat, NEW d \in Nat \ {0}, NEW p \in Nat, NEW x \in Nat, x < d, a = p * d + x
  PROVE  a \div d = p /\ a % d = x
  OBVIOUS

LEMMA DivMod ==
  ASSUME NEW a \in Nat, NEW d \in Nat \ {0}
  PROVE  /\ a \div d \in Nat /\ a % d \in 0..(d - 1)
         /\ a = (a \div d) * d + (a % d)
<1> DEFINE q == a \div d
           r == a % d
<1>1. r = a - d * q
  BY Z3
<1>2. r \in 0..(d - 1)
  OBVIOUS
<1>3. q \in Nat
  OBVIOUS
<1> HIDE DEF q, r
<1>4. a = q * d + r
  BY <1>1, <1>2, <1>3
<1> QED
  BY <1>2, <1>3, <1>4 DEF q, r

\* Cutting off a byte after a multiple of bytes: one division.
LEMMA DivDiv ==
  ASSUME NEW a \in Nat, NEW d \in Nat \ {0}, NEW b \in Nat \ {0}
  PROVE  (a \div d) \div b = a \div (b * d)
<1>1. PICK q \in Nat, x \in 0..(d - 1) : q = a \div d /\ a = q * d + x
  BY DivMod
<1>2. PICK p \in Nat, y \in 0..(b - 1) : p = q \div b /\ q = p * b + y
  BY DivMod
<1>3. q * d = (p * b) * d + y * d
  BY <1>2
<1>4. a = p * (b * d) + (y * d + x)
  <2>1. (p * b) * d = p * (b * d)
    OBVIOUS
  <2> QED
    BY <1>1, <1>3, <2>1
<1>5. y * d + d <= b * d
  <2>1. y \in Nat /\ y + 1 <= b
    OBVIOUS
  <2> QED
    BY <2>1, Products
<1>6. b * d \in Nat \ {0} /\ y * d + x \in Nat /\ y * d + x < b * d
  <2>1. y * d \in Nat /\ b * d \in Nat
    OBVIOUS
  <2> QED
    BY <1>5, <2>1
<1>7. a \div (b * d) = p
  <2>1. PICK m \in Nat \ {0}, z \in Nat : m = b * d /\ z = y * d + x /\ z < m /\ a = p * m + z
    BY <1>4, <1>6
  <2> QED
    BY <2>1, DivUnique
<1> QED
  BY <1>1, <1>2, <1>7

\* One more byte behind a number below M.
LEMMA Horner ==
  ASSUME NEW M \in Nat, NEW B \in Nat, NEW x \in 0..(M - 1), NEW y \in 0..(B - 1)
  PROVE  x * B + y \in 0..(M * B - 1)
<1>1. x * B + B <= M * B /\ x * B \in Nat /\ M * B \in Nat
  <2>1. x \in Nat /\ x + 1 <= M
    OBVIOUS
  <2> QED
    BY <2>1, Products
<1> QED
  BY <1>1

Max4 == Base * Base * Base * Base

LEMMA EncodeBytes ==
  ASSUME NEW n \in 0..(Max4 - 1)
  PROVE  LET b == Encode(n)
         IN  /\ \A i \in 1..4 : b[i] \in 0..(Base - 1)
             /\ ((b[1] * Base + b[2]) * Base + b[3]) * Base + b[4] = n
<1> DEFINE B == Base
           b == Encode(n)
           n1 == n \div B
           n2 == n \div (B * B)
           n3 == n \div (B * B * B)
<1>1. B \in Nat \ {0} /\ n \in Nat
  BY MessageAssumption DEF Max4
<1>2. B * B \in Nat \ {0} /\ B * B * B \in Nat \ {0} /\ Max4 = B * (B * B * B)
  BY <1>1 DEF Max4
<1>3. b[1] = n3 /\ b[2] = n2 % B /\ b[3] = n1 % B /\ b[4] = n % B
  BY DEF Encode
<1> HIDE DEF B, b
<1>4. n1 \in Nat /\ n2 \in Nat /\ n3 \in Nat
  BY <1>1, <1>2, DivMod
<1>5. n2 = n1 \div B /\ n3 = n2 \div B
  <2>1. n2 = n1 \div B
    BY <1>1, DivDiv
  <2>2. PICK d \in Nat \ {0} : d = B * B
    BY <1>2
  <2>3. (n \div d) \div B = n \div (B * d)
    BY <1>1, DivDiv
  <2>4. B * d = B * B * B
    BY <1>1, <2>2
  <2> QED
    BY <2>1, <2>2, <2>3, <2>4
<1>6. n3 \in 0..(B - 1)
  <2>1. PICK d \in Nat \ {0} : d = B * B * B
    BY <1>2
  <2>2. PICK x \in 0..(d - 1) : n = n3 * d + x
    BY <1>1, <2>1, DivMod
  <2>3. n < B * d
    BY <1>1, <1>2, <2>1
  <2>4. ASSUME n3 >= B PROVE FALSE
    <3>1. B * d <= n3 * d
      BY <1>1, <1>4, <2>4, Products
    <3>2. B * d \in Nat /\ n3 * d \in Nat
      BY <1>1, <1>4
    <3> QED
      BY <1>1, <2>2, <2>3, <3>1, <3>2
  <2> QED
    BY <1>1, <1>4, <2>4
<1> HIDE DEF n1, n2, n3
<1>7. /\ n2 = n3 * B + (n2 % B) /\ n2 % B \in 0..(B - 1)
      /\ n1 = n2 * B + (n1 % B) /\ n1 % B \in 0..(B - 1)
  BY <1>1, <1>4, <1>5, DivMod
<1>8. n = n1 * B + (n % B) /\ n % B \in 0..(B - 1)
  BY <1>1, DivMod DEF n1
<1>9. \A i \in 1..4 : b[i] \in 0..(B - 1)
  <2>1. \A i \in 1..4 : i = 1 \/ i = 2 \/ i = 3 \/ i = 4
    OBVIOUS
  <2> QED
    BY <1>3, <1>6, <1>7, <1>8, <2>1
<1>10. ((b[1] * B + b[2]) * B + b[3]) * B + b[4] = n
  <2>1. n2 = b[1] * B + b[2] /\ n1 = n2 * B + b[3] /\ n = n1 * B + b[4]
    BY <1>3, <1>7, <1>8
  <2> QED
    BY <2>1
<1> QED
  BY <1>9, <1>10 DEF B, b

\* What parse() makes of the length n: never less, and n where char is unsigned.
LEMMA DecodeValue ==
  ASSUME NEW n \in 0..(Max4 - 1)
  PROVE  /\ Decode(Encode(n)) \in 0..(Max4 - 1)
         /\ Decode(Encode(n)) >= n
         /\ ~signed => Decode(Encode(n)) = n
<1> DEFINE b == Encode(n)
           Byte(i) == IF \E j \in 2..3 : j > i /\ (signed /\ 2 * b[j] >= Base) THEN Base - 1 ELSE b[i]
<1>1. Base \in Nat \ {0} /\ n \in Nat
  BY MessageAssumption DEF Max4
<1>2. /\ \A i \in 1..4 : b[i] \in 0..(Base - 1)
      /\ ((b[1] * Base + b[2]) * Base + b[3]) * Base + b[4] = n
  BY EncodeBytes
<1>3. Decode(b) = ((Byte(1) * Base + Byte(2)) * Base + Byte(3)) * Base + Byte(4)
  BY DEF Decode
<1> HIDE DEF b
<1>4. \A i \in 1..4 : Byte(i) \in 0..(Base - 1) /\ Byte(i) >= b[i] /\ (~signed => Byte(i) = b[i])
  BY <1>1, <1>2
<1> DEFINE v1 == Byte(1)
           v2 == v1 * Base + Byte(2)
           v3 == v2 * Base + Byte(3)
           v4 == v3 * Base + Byte(4)
           w2 == b[1] * Base + b[2]
           w3 == w2 * Base + b[3]
<1>5. /\ Byte(1) \in 0..(Base - 1) /\ Byte(2) \in 0..(Base - 1)
      /\ Byte(3) \in 0..(Base - 1) /\ Byte(4) \in 0..(Base - 1)
      /\ Byte(1) >= b[1] /\ Byte(2) >= b[2] /\ Byte(3) >= b[3] /\ Byte(4) >= b[4]
      /\ b[1] \in Nat /\ b[2] \in Nat /\ b[3] \in Nat /\ b[4] \in Nat
      /\ ~signed => Byte(1) = b[1] /\ Byte(2) = b[2] /\ Byte(3) = b[3] /\ Byte(4) = b[4]
  BY <1>1, <1>2, <1>4
<1>6. Decode(b) = v4 /\ n = w3 * Base + b[4]
  BY <1>2, <1>3
<1> HIDE DEF Byte
<1>7. ~signed => v4 = n
  BY <1>5, <1>6
<1>8. v4 \in 0..(Max4 - 1)
  <2>1. v2 \in 0..(Base * Base - 1)
    BY <1>1, <1>5, Horner
  <2> HIDE DEF v2
  <2>2. v3 \in 0..(Base * Base * Base - 1)
    <3>1. PICK M \in Nat : M = Base * Base
      BY <1>1
    <3> QED
      BY <1>1, <1>5, <2>1, <3>1, Horner
  <2> HIDE DEF v3
  <2>3. PICK M \in Nat : M = Base * Base * Base
    BY <1>1
  <2> QED
    BY <1>1, <1>5, <2>2, <2>3, Horner DEF Max4
<1>9. v4 >= n
  <2>1. v1 \in Nat /\ v2 \in Nat /\ v3 \in Nat /\ w2 \in Nat /\ w3 \in Nat
    <3>1. \A x, y \in Nat : x * Base + y \in Nat
      BY <1>1
    <3>2. v1 \in Nat /\ Byte(2) \in Nat /\ Byte(3) \in Nat
      BY <1>1, <1>5
    <3>3. v2 \in Nat /\ w2 \in Nat
      BY <1>5, <3>1, <3>2
    <3> HIDE DEF v2, w2
    <3> QED
      BY <1>5, <3>1, <3>2, <3>3
  <2>2. \A x, y \in Nat : x >= y => x * Base >= y * Base /\ x * Base \in Nat /\ y * Base \in Nat
    BY <1>1, Products
  <2>3. v2 >= w2
    <3>1. v1 * Base >= b[1] * Base /\ v1 * Base \in Nat /\ b[1] * Base \in Nat
      BY <1>5, <2>1, <2>2
    <3> QED
      BY <1>1, <1>5, <3>1
  <2>4. v3 >= w3
    <3> HIDE DEF v1, v2, w2
    <3>1. v2 * Base >= w2 * Base /\ v2 * Base \in Nat /\ w2 * Base \in Nat
      BY <2>1, <2>2, <2>3
    <3> QED
      BY <1>1, <1>5, <3>1
  <2> HIDE DEF v1, v2, v3, w2, w3
  <2>5. v3 * Base >= w3 * Base /\ v3 * Base \in Nat /\ w3 * Base \in Nat
    BY <2>1, <2>2, <2>4
  <2> QED
    BY <1>1, <1>5, <1>6, <2>5
<1> QED
  BY <1>6, <1>7, <1>8, <1>9 DEF b
-----------------------------------------------------------------------------
(* The inductive invariant.                                                *)

\* The positions of k bytes behind the first m of the stream.
Span(m, k) == [i \in 1..k |-> m + i]

\* _prefix has the first psize bytes of the stream and _data those behind them,
\* all that have come unless the request is invalid.  A prefix that came in one
\* chunk has its proper size.
CutInv ==
  /\ psize <= pos
  /\ length # NoLength => length = Decode(Encode(len)) /\ psize >= PrefixSize
  /\ ~invalid /\ psize >= PrefixSize => length # NoLength
  /\ ~invalid /\ psize < PrefixSize => pos = psize
  /\ \E k \in 0..(pos - psize) : data = Span(psize, k) /\ (~invalid => k = pos - psize)
  /\ pos = 0 => first = 0
  /\ first >= PrefixSize => psize = PrefixSize \/ (psize = 0 /\ invalid)
  /\ done => pos = total

MessageInv == MessageTypeOK /\ CutInv

LEMMA SpanType ==
  ASSUME NEW m \in Nat, NEW k \in Nat, NEW t \in Nat, m + k <= t
  PROVE  Span(m, k) \in Seq(1..t) /\ Len(Span(m, k)) = k /\ \A i \in 1..k : Span(m, k)[i] = m + i
<1>1. \A i \in 1..k : m + i \in 1..t
  OBVIOUS
<1> QED
  BY <1>1 DEF Span

LEMMA SpanConcat ==
  ASSUME NEW m \in Nat, NEW k \in Nat, NEW j \in Nat
  PROVE  Span(m, k) \o Span(m + k, j) = Span(m, k + j)
<1> DEFINE a == Span(m, k)
           b == Span(m + k, j)
           c == Span(m, k + j)
           t == m + k + j
<1>1. t \in Nat /\ m + k \in Nat /\ k + j \in Nat /\ m + k <= t /\ m + k + j <= t /\ m + (k + j) <= t
  OBVIOUS
<1>2. a \in Seq(1..t) /\ Len(a) = k /\ \A i \in 1..k : a[i] = m + i
  BY <1>1, SpanType
<1>3. b \in Seq(1..t) /\ Len(b) = j /\ \A i \in 1..j : b[i] = m + k + i
  BY <1>1, SpanType
<1>4. c \in Seq(1..t) /\ Len(c) = k + j /\ \A i \in 1..(k + j) : c[i] = m + i
  BY <1>1, SpanType
<1> HIDE DEF a, b, c, t
<1>5. /\ a \o b \in Seq(1..t) /\ Len(a \o b) = k + j
      /\ \A i \in 1..(k + j) : (a \o b)[i] = IF i <= k THEN a[i] ELSE b[i - k]
  BY <1>2, <1>3, ConcatProperties
<1>6. ASSUME NEW i \in 1..(k + j) PROVE (a \o b)[i] = c[i]
  <2>1. CASE i <= k
    BY <1>2, <1>4, <1>5, <2>1
  <2>2. CASE i > k
    <3>1. i - k \in 1..j /\ m + k + (i - k) = m + i
      BY <2>2
    <3>2. (a \o b)[i] = b[i - k] /\ ~(i <= k)
      BY <1>5, <2>2
    <3>3. b[i - k] = m + k + (i - k)
      BY <1>3, <3>1
    <3> QED
      BY <1>4, <3>1, <3>2, <3>3
  <2>3. i <= k \/ i > k
    OBVIOUS
  <2> QED
    BY <2>1, <2>2, <2>3
<1>7. a \o b = c
  BY <1>4, <1>5, <1>6, SeqEqual
<1> QED
  BY <1>7 DEF a, b, c

LEMMA SpanEmpty == \A m : Span(m, 0) = <<>>
  BY DEF Span

\* bytes() keeps what is in _data and appends what belongs there.
LEMMA DataAfterSpan ==
  ASSUME MessageInv, ~invalid, NEW n \in 1..total
  PROVE  /\ PrefixPart(n) \in 0..n /\ PrefixPart(n) <= PrefixSize
         /\ DataAfter(n) = Span(psize + PrefixPart(n), pos + n - (psize + PrefixPart(n)))
<1>1. total \in Nat /\ pos \in 0..total /\ psize \in 0..9 /\ n \in Nat \ {0} /\ PrefixSize = 5 /\ pos \in Nat /\ psize \in Nat
  BY DEF MessageInv, MessageTypeOK, PrefixSize
<1>2. PrefixPart(n) \in 0..n /\ PrefixPart(n) <= PrefixSize
  BY <1>1 DEF PrefixPart
<1>3. data = Span(psize, pos - psize) /\ psize <= pos
  BY <1>1 DEF MessageInv, CutInv
<1>4. PICK p \in 0..n : p = PrefixPart(n)
  BY <1>2
<1>5. DataAfter(n) = data \o Span(pos + p, n - p)
  BY <1>4 DEF DataAfter, Span
<1>6. CASE psize >= PrefixSize
  <2>1. p = 0
    BY <1>1, <1>4, <1>6 DEF PrefixPart
  <2>2. PICK k \in Nat : k = pos - psize
    BY <1>1, <1>3
  <2>3. Span(psize, k) \o Span(psize + k, n) = Span(psize, k + n)
    BY <1>1, SpanConcat
  <2>4. psize + k = pos /\ k + n = pos + n - psize /\ pos + p = pos /\ n - p = n /\ psize + p = psize
    BY <1>1, <2>1, <2>2
  <2>5. DataAfter(n) = Span(psize + p, pos + n - (psize + p))
    BY <1>3, <1>5, <2>2, <2>3, <2>4
  <2> QED
    BY <1>2, <1>4, <2>5
<1>7. CASE psize < PrefixSize
  <2>1. pos = psize /\ pos - psize = 0
    BY <1>1, <1>7 DEF MessageInv, CutInv
  <2>2. data = <<>>
    BY <1>3, <2>1, SpanEmpty
  <2>3. Span(pos + p, n - p) \in Seq(1..(pos + n))
    BY <1>1, SpanType
  <2>4. DataAfter(n) = Span(pos + p, n - p)
    BY <1>5, <2>2, <2>3, ConcatEmptySeq
  <2>5. n - p = pos + n - (psize + p)
    BY <1>1, <2>1
  <2> QED
    BY <1>2, <1>4, <2>1, <2>4, <2>5
<1> QED
  BY <1>1, <1>6, <1>7

LEMMA LenValue ==
  ASSUME MessageTypeOK
  PROVE  /\ len \in 0..(Max4 - 1) /\ len \in Nat /\ Max4 \in Nat
         /\ Decode(Encode(len)) \in 0..(Max4 - 1) /\ Decode(Encode(len)) \in Nat
         /\ Decode(Encode(len)) >= len /\ (~signed => Decode(Encode(len)) = len)
         /\ Decode(Encode(len)) # NoLength
<1>1. len \in 0..(Max4 - 1) /\ Max4 \in Nat
  <2>1. Base \in Nat
    BY MessageAssumption
  <2> QED
    BY <2>1, MessageAssumption DEF MessageTypeOK, Max4
<1>2. /\ Decode(Encode(len)) \in 0..(Max4 - 1) /\ Decode(Encode(len)) >= len
      /\ (~signed => Decode(Encode(len)) = len)
  BY <1>1, DecodeValue
<1> QED
  BY <1>1, <1>2, MessageAssumption

\* The steps of one chunk: it is ignored, refused, or taken.
LEMMA ReadCases ==
  ASSUME MessageInv, NEW n \in 1..total, Read(n)
  PROVE  /\ pos' = pos + n /\ pos' <= total /\ ~done /\ UNCHANGED <<signed, len, total, done>>
         /\ first' = IF pos = 0 THEN n ELSE first
         /\ \/ invalid /\ UNCHANGED <<psize, length, data, invalid>>
            \/ /\ ~invalid /\ length # NoLength /\ Len(data) >= length
               /\ invalid' /\ UNCHANGED <<psize, length, data>>
            \/ /\ ~invalid /\ ~(length # NoLength /\ Len(data) >= length)
               /\ psize' = psize + PrefixPart(n)
               /\ length' = IF psize' >= PrefixSize THEN Decode(Encode(len)) ELSE NoLength
               /\ \/ data' = DataAfter(n) /\ invalid' = FALSE
                  \/ /\ length = NoLength /\ psize' >= PrefixSize /\ invalid' = TRUE /\ UNCHANGED data
                     /\ (Decode(Encode(len)) + 5) % Max4 > Alloc
<1>1. /\ pos' = pos + n /\ pos' <= total /\ ~done /\ UNCHANGED <<signed, len, total, done>>
      /\ first' = IF pos = 0 THEN n ELSE first
  BY DEF Read
<1>2. CASE invalid
  BY <1>1, <1>2 DEF Read
<1>3. CASE ~invalid /\ length # NoLength /\ Len(data) >= length
  BY <1>1, <1>3 DEF Read, Bytes, ThrowLarger
<1>4. CASE ~invalid /\ ~(length # NoLength /\ Len(data) >= length)
  <2>1. invalid \in BOOLEAN /\ psize \in 0..9
    BY DEF MessageInv, MessageTypeOK, PrefixSize
  <2>2. PICK p \in Nat : p = PrefixPart(n)
    BY <1>4, DataAfterSpan
  <2>3. /\ psize' = psize + p
        /\ length' = IF length = NoLength /\ psize + p >= PrefixSize THEN Decode(Encode(len)) ELSE length
        /\ \/ data' = DataAfter(n) /\ UNCHANGED invalid
           \/ /\ length = NoLength /\ psize + p >= PrefixSize /\ invalid' = TRUE /\ UNCHANGED data
              /\ (Decode(Encode(len)) + 5) % Max4 > Alloc
    BY <1>4, <2>2 DEF Read, Bytes, Max4
  <2>4. length # NoLength => length = Decode(Encode(len)) /\ psize >= PrefixSize
    BY DEF MessageInv, CutInv
  <2>5. length' = IF psize' >= PrefixSize THEN Decode(Encode(len)) ELSE NoLength
    BY <2>1, <2>2, <2>3, <2>4 DEF PrefixSize
  <2> QED
    BY <1>1, <1>4, <2>1, <2>2, <2>3, <2>5
<1> QED
  BY <1>2, <1>3, <1>4

LEMMA ReadStep ==
  ASSUME MessageInv, NEW n \in 1..total, Read(n)
  PROVE  MessageInv'
<1>t. /\ signed \in BOOLEAN /\ len \in Lengths /\ total \in Nat /\ pos \in 0..total /\ first \in 0..total
      /\ psize \in 0..9 /\ length \in 0..(Max4 - 1) \cup {NoLength} /\ data \in Seq(1..total)
      /\ invalid \in BOOLEAN /\ done \in BOOLEAN
      /\ PrefixSize = 5 /\ n \in Nat \ {0}
  BY DEF MessageInv, MessageTypeOK, PrefixSize, Max4
<1>c. /\ psize <= pos
      /\ length # NoLength => length = Decode(Encode(len)) /\ psize >= 5
      /\ ~invalid /\ psize >= 5 => length # NoLength
      /\ ~invalid /\ psize < 5 => pos = psize
      /\ pos = 0 => first = 0
      /\ first >= 5 => psize = 5 \/ (psize = 0 /\ invalid)
  BY <1>t DEF MessageInv, CutInv
<1>k. PICK k \in 0..(pos - psize) : data = Span(psize, k) /\ (~invalid => k = pos - psize)
  BY DEF MessageInv, CutInv
<1>1. /\ pos' = pos + n /\ pos' <= total /\ ~done /\ UNCHANGED <<signed, len, total, done>>
      /\ first' = IF pos = 0 THEN n ELSE first
  BY ReadCases
<1>2. pos' \in 0..total /\ first' \in 0..total /\ pos' # 0 /\ Decode(Encode(len))' = Decode(Encode(len))
  BY <1>1, <1>t DEF Decode, Encode
<1>3. CASE UNCHANGED <<psize, length, data>> /\ invalid' /\ (invalid \/ psize >= 5)
  <2>1. MessageTypeOK'
    BY <1>1, <1>2, <1>3, <1>t DEF MessageTypeOK, Max4
  <2>2. k \in 0..(pos' - psize)
    BY <1>1, <1>t, <1>k
  <2>3. first' >= 5 => psize = 5 \/ psize = 0
    BY <1>1, <1>3, <1>c, <1>t
  <2>4. \E j \in 0..(pos' - psize) : data = Span(psize, j)
    BY <1>k, <2>2
  <2>5. psize <= pos'
    BY <1>1, <1>t, <1>c
  <2> QED
    BY <1>1, <1>2, <1>3, <1>c, <1>t, <2>1, <2>3, <2>4, <2>5 DEF MessageInv, CutInv
<1>4. CASE ~invalid /\ psize' = psize + PrefixPart(n)
           /\ length' = (IF psize' >= PrefixSize THEN Decode(Encode(len)) ELSE NoLength)
           /\ \/ data' = DataAfter(n) /\ invalid' = FALSE
              \/ length = NoLength /\ psize' >= PrefixSize /\ invalid' = TRUE /\ UNCHANGED data
  <2>1. PICK p \in 0..n : p = PrefixPart(n) /\ p <= 5 /\ DataAfter(n) = Span(psize + p, pos + n - (psize + p))
    BY <1>4, <1>t, DataAfterSpan
  <2>2. p = IF psize < 5 THEN (IF n > 5 THEN 5 ELSE n) ELSE 0
    BY <2>1, <1>t DEF PrefixPart
  <2>3. /\ psize' = psize + p /\ psize' \in 0..9 /\ psize' <= pos'
        /\ psize' < 5 => pos' = psize'
    BY <1>1, <1>4, <1>c, <1>t, <2>1, <2>2
  <2>4. first' >= 5 => psize' = 5
    BY <1>1, <1>4, <1>c, <1>t, <2>2, <2>3
  <2>5. /\ length' \in 0..(Max4 - 1) \cup {NoLength}
        /\ length' # NoLength => length' = Decode(Encode(len)) /\ psize' >= 5
        /\ psize' >= 5 => length' # NoLength
    BY <1>4, <1>t, LenValue DEF MessageInv
  <2>6. \E j \in 0..(pos' - psize') : data' = Span(psize', j) /\ (~invalid' => j = pos' - psize')
    <3>1. CASE data' = DataAfter(n)
      <4>1. PICK j \in 0..(pos' - psize') : j = pos' - psize'
        BY <1>1, <1>t, <2>3
      <4>2. pos + n - (psize + p) = j
        BY <1>1, <1>t, <2>3, <4>1
      <4> QED
        BY <2>1, <2>3, <3>1, <4>1, <4>2
    <3>2. CASE length = NoLength /\ invalid' /\ UNCHANGED data
      <4>1. pos = psize
        BY <1>4, <1>c, <1>t, <3>2
      <4>2. k = 0
        BY <1>k, <1>t, <4>1
      <4>3. data' = Span(psize', 0)
        BY <1>k, <3>2, <4>2, SpanEmpty
      <4>4. 0 \in 0..(pos' - psize')
        BY <1>1, <1>t, <2>3
      <4> QED
        BY <3>2, <4>3, <4>4
    <3> QED
      BY <1>4, <3>1, <3>2
  <2>7. data' \in Seq(1..total)
    <3>1. PICK j \in 0..(pos' - psize') : data' = Span(psize', j)
      BY <2>6
    <3>2. j \in Nat /\ psize' \in Nat /\ psize' + j <= total
      BY <1>1, <1>t, <2>3
    <3>3. Span(psize', j) \in Seq(1..total)
      BY <1>t, <3>2, SpanType
    <3> QED
      BY <3>1, <3>3
  <2>8. invalid' \in BOOLEAN
    BY <1>4
  <2>9. MessageTypeOK'
    BY <1>1, <1>2, <1>t, <2>3, <2>5, <2>7, <2>8 DEF MessageTypeOK, Max4
  <2> QED
    BY <1>1, <1>2, <1>4, <1>t, <2>3, <2>4, <2>5, <2>6, <2>9 DEF MessageInv, CutInv
<1> QED
  BY <1>3, <1>4, <1>c, ReadCases

LEMMA InitMessage == MessageInit => MessageInv
<1> SUFFICES ASSUME MessageInit PROVE MessageInv
  OBVIOUS
<1>1. total \in Nat /\ pos = 0 /\ first = 0 /\ psize = 0 /\ length = NoLength /\ data = <<>>
      /\ invalid = FALSE /\ done = FALSE /\ signed \in BOOLEAN /\ len \in Lengths
  BY DEF MessageInit
<1>2. MessageTypeOK
  <2>1. 0 \in 0..total /\ 0 \in 0..(2 * PrefixSize - 1) /\ <<>> \in Seq(1..total)
    BY <1>1 DEF PrefixSize
  <2> QED
    BY <1>1, <2>1 DEF MessageTypeOK
<1>3. \E k \in 0..(pos - psize) : data = Span(psize, k) /\ k = pos - psize
  BY <1>1, SpanEmpty
<1>4. CutInv
  BY <1>1, <1>3 DEF CutInv, PrefixSize
<1> QED
  BY <1>2, <1>4 DEF MessageInv

LEMMA EndStep == MessageInv /\ End => MessageInv'
<1> SUFFICES ASSUME MessageInv, End PROVE MessageInv'
  OBVIOUS
<1>1. done' = TRUE /\ pos = total /\ UNCHANGED <<signed, len, total, pos, first, psize, length, data, invalid>>
  BY DEF End
<1>2. MessageTypeOK'
  BY <1>1 DEF MessageInv, MessageTypeOK
<1>3. Decode(Encode(len))' = Decode(Encode(len))
  BY <1>1 DEF Decode, Encode
<1> QED
  BY <1>1, <1>2, <1>3 DEF MessageInv, CutInv

\* A message that fits its announced length is never refused for its bytes,
\* where char is unsigned and its prefix came in one chunk.
LEMMA PlainRead ==
  ASSUME MessageInv, NEW n \in 1..total, Read(n),
         ~invalid, ~signed, first' >= PrefixSize, total <= PrefixSize + len
  PROVE  ~invalid'
<1>t. /\ total \in Nat /\ pos \in 0..total /\ psize \in 0..9 /\ psize \in Nat /\ PrefixSize = 5 /\ n \in Nat \ {0}
      /\ len \in Lengths /\ Alloc \in Nat /\ MessageTypeOK
  BY MessageAssumption DEF MessageInv, MessageTypeOK, PrefixSize
<1>1. /\ len \in Nat /\ Max4 \in Nat \ {0} /\ Decode(Encode(len)) = len
  BY <1>t, LenValue
<1>2. pos' = pos + n /\ pos' <= total
  BY ReadCases
<1>3. CASE length # NoLength /\ Len(data) >= length
  <2>1. length = len /\ psize >= 5 /\ psize <= pos
    BY <1>1, <1>3, <1>t DEF MessageInv, CutInv
  <2>2. data = Span(psize, pos - psize)
    BY DEF MessageInv, CutInv
  <2>3. Len(data) = pos - psize
    <3>1. PICK k \in Nat : k = pos - psize /\ psize + k <= total
      BY <1>t, <2>1
    <3>2. Len(Span(psize, k)) = k
      BY <1>t, <3>1, SpanType
    <3> QED
      BY <2>2, <3>1, <3>2
  <2> QED
    BY <1>1, <1>2, <1>3, <1>t, <2>1, <2>3
<1>4. (len + 5) % Max4 <= Alloc
  <2>1. len + 5 <= Alloc
    BY <1>t, AllocAssumption
  <2> DEFINE x == (len + 5) % Max4
             q == (len + 5) \div Max4
  <2>2. x \in 0..(Max4 - 1) /\ q \in Nat /\ len + 5 = q * Max4 + x
    <3>1. len + 5 \in Nat
      BY <1>1
    <3> QED
      BY <1>1, <3>1, DivMod
  <2> HIDE DEF x, q
  <2>3. q * Max4 \in Nat
    BY <1>1, <2>2
  <2>4. x <= Alloc
    BY <1>1, <1>t, <2>1, <2>2, <2>3
  <2> QED
    BY <2>4 DEF x
<1>5. ~((len + 5) % Max4 > Alloc)
  <2>1. PICK x \in Int : x = (len + 5) % Max4
    BY <1>1
  <2> QED
    BY <1>4, <1>t, <2>1
<1> QED
  BY <1>1, <1>3, <1>5, ReadCases

\* What message::data returns: nothing, the right bytes, or those that a misread
\* stream has instead.
LEMMA DataExact == MessageInv => NoCorruption
<1> SUFFICES ASSUME MessageInv, length # NoLength, Len(data) = length
             PROVE  \/ data = Payload
                    \/ /\ Misread /\ total > PrefixSize + len
                       /\ data = [i \in 1..length |-> psize + i]
  BY DEF NoCorruption, Data
<1>t. /\ total \in Nat /\ pos \in 0..total /\ psize \in 0..9 /\ psize \in Nat /\ PrefixSize = 5 /\ MessageTypeOK
  BY DEF MessageInv, MessageTypeOK, PrefixSize
<1>1. PICK k \in 0..(pos - psize) : data = Span(psize, k)
  BY DEF MessageInv, CutInv
<1>2. length = Decode(Encode(len)) /\ psize >= 5 /\ psize <= pos /\ (first >= 5 => psize = 5)
  BY <1>t DEF MessageInv, CutInv
<1>3. k \in Nat /\ psize + k <= total
  BY <1>t, <1>2
<1>4. Len(data) = k
  BY <1>1, <1>3, <1>t, SpanType
<1>5. len \in Nat /\ k >= len /\ (~signed => k = len)
  BY <1>2, <1>4, <1>t, LenValue
<1>6. CASE psize = 5 /\ k = len
  BY <1>1, <1>6, <1>t DEF Span, Payload
<1>7. CASE psize # 5 \/ k # len
  <2>1. Misread
    BY <1>2, <1>4, <1>7, <1>t DEF Misread
  <2>2. total > PrefixSize + len
    BY <1>2, <1>3, <1>5, <1>7, <1>t
  <2>3. data = [i \in 1..length |-> psize + i]
    BY <1>1, <1>4 DEF Span
  <2> QED
    BY <2>1, <2>2, <2>3
<1> QED
  BY <1>6, <1>7

\* A request with surplus bytes that is valid at its end has more than a message in
\* _data, unless it was misread.
LEMMA SurplusDropped ==
  ASSUME MessageInv, done, ~invalid, total > PrefixSize + len, ~Misread
  PROVE  Data = <<>>
<1>t. /\ total \in Nat /\ pos \in 0..total /\ psize \in 0..9 /\ psize \in Nat /\ PrefixSize = 5 /\ MessageTypeOK
      /\ len \in Nat
  BY MessageAssumption DEF MessageInv, MessageTypeOK, PrefixSize
<1>1. pos = total /\ psize <= 5 /\ psize <= pos
  BY <1>t DEF MessageInv, CutInv, Misread
<1>2. psize = 5 /\ length # NoLength
  <2>1. ~(psize < 5)
    BY <1>1, <1>t DEF MessageInv, CutInv
  <2> QED
    BY <1>1, <1>t, <2>1 DEF MessageInv, CutInv
<1>3. length = len
  BY <1>2 DEF Misread
<1>4. data = Span(psize, pos - psize) /\ pos - psize \in Nat
  BY <1>1, <1>t DEF MessageInv, CutInv
<1>5. Len(data) = pos - psize
  BY <1>4, <1>t, SpanType
<1> QED
  BY <1>1, <1>2, <1>3, <1>5, <1>t DEF Data

\* A complete message whose prefix came in one chunk, where char is unsigned.
LEMMA PlainExact ==
  ASSUME MessageInv, PlainlySent, ~invalid
  PROVE  Data = Payload
<1>t. /\ total \in Nat /\ pos \in 0..total /\ PrefixSize = 5 /\ MessageTypeOK
  BY DEF MessageInv, MessageTypeOK, PrefixSize
<1>1. ~signed /\ first >= 5 /\ pos = total /\ total = 5 + len /\ psize = 5 /\ length = Decode(Encode(len))
  BY <1>t DEF MessageInv, CutInv, PlainlySent, WellFormed
<1>2. len \in Nat /\ length = len /\ length # NoLength
  BY <1>1, <1>t, LenValue
<1>3. data = Span(psize, pos - psize) /\ pos - psize = len
  BY <1>1, <1>2 DEF MessageInv, CutInv
<1>4. Len(data) = len /\ data = Span(5, len)
  <2>1. PICK m \in Nat : m = 5 /\ m + len <= total
    BY <1>1, <1>2, <1>t
  <2>2. Len(Span(m, len)) = len
    BY <1>2, <1>t, <2>1, SpanType
  <2> QED
    BY <1>1, <1>3, <2>1, <2>2
<1> QED
  BY <1>2, <1>4, <1>t DEF Data, Payload, Span

\* The request is valid as long as the message can still be complete.
PlainInv ==
  /\ pos = 0 => ~invalid
  /\ ~signed /\ first >= PrefixSize /\ total <= PrefixSize + len => ~invalid

LEMMA MessageInvariant == MessageSpec => [](MessageInv /\ PlainInv)
<1>1. MessageInit => MessageInv /\ PlainInv
  BY InitMessage DEF MessageInit, PlainInv
<1>2. MessageInv /\ PlainInv /\ [MessageNext]_messageVars => (MessageInv /\ PlainInv)'
  <2> SUFFICES ASSUME MessageInv, PlainInv, [MessageNext]_messageVars PROVE (MessageInv /\ PlainInv)'
    OBVIOUS
  <2>1. ASSUME NEW n \in 1..total, Read(n) PROVE (MessageInv /\ PlainInv)'
    <3>1. MessageInv'
      BY <2>1, ReadStep
    <3>2. /\ UNCHANGED <<signed, total, len>> /\ first' = IF pos = 0 THEN n ELSE first
          /\ pos' = pos + n /\ pos \in Nat /\ n \in Nat \ {0}
      BY <2>1 DEF Read, MessageInv, MessageTypeOK
    <3>3. ASSUME ~signed, first' >= PrefixSize, total <= PrefixSize + len PROVE ~invalid
      BY <3>2, <3>3 DEF PlainInv
    <3>4. pos' # 0
      BY <3>2
    <3> QED
      BY <2>1, <3>1, <3>2, <3>3, <3>4, PlainRead DEF PlainInv
  <2>2. CASE End
    BY <2>2, EndStep DEF End, PlainInv
  <2>3. CASE UNCHANGED messageVars
    <3>1. Decode(Encode(len))' = Decode(Encode(len))
      BY <2>3 DEF messageVars, Decode, Encode
    <3> QED
      BY <2>3, <3>1 DEF messageVars, MessageInv, MessageTypeOK, CutInv, PlainInv
  <2> QED
    BY <2>1, <2>2, <2>3 DEF MessageNext
<1> QED
  BY <1>1, <1>2, PTL DEF MessageSpec

\* The types of the message's state: in particular a length that parse() has
\* computed fits four bytes, and _data has only bytes that the client sent.
THEOREM MessageTypeCorrect == MessageSpec => []MessageTypeOK
<1>1. MessageInv => MessageTypeOK
  BY DEF MessageInv
<1> QED
  BY <1>1, MessageInvariant, PTL

\* For every cut of every stream data() returns the message or nothing, with one
\* exception: a stream that is too long and is misread, because its prefix was cut
\* or because char is signed and its length has a top bit set, may yield as many
\* other bytes of the stream as parse() made the length (message::bytes, parse, data).
THEOREM DataCharacterised == MessageSpec => []NoCorruption
  BY DataExact, MessageInvariant, PTL

\* A well-formed message whose prefix arrives in one chunk is delivered where
\* char is unsigned, however the rest is cut.
THEOREM PlainDelivered == MessageSpec => []DeliveredPlain
<1>1. MessageInv /\ PlainInv => DeliveredPlain
  <2> SUFFICES ASSUME MessageInv, PlainInv, PlainlySent PROVE ~invalid /\ Data = Payload
    BY DEF DeliveredPlain
  <2>1. total <= PrefixSize + len
    BY DEF PlainlySent, WellFormed, MessageInv, MessageTypeOK
  <2>2. ~invalid
    BY <2>1 DEF PlainInv, PlainlySent
  <2> QED
    BY <2>2, PlainExact
<1> QED
  BY <1>1, MessageInvariant, PTL
=============================================================================
