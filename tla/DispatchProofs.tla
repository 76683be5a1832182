--------------------------- MODULE DispatchProofs ---------------------------
(***************************************************************************)
(* Proofs about Dispatch, for any services, paths, metadata, header fields *)
(* and messages, in any order that nghttp2 lets through.                   *)
(***************************************************************************)
EXTENDS Dispatch, MessageProofs, Recursion

-----------------------------------------------------------------------------
(* Paths.                                                                  *)

LEMMA FirstSlashLeast ==
  ASSUME NEW p \in Seq(Tokens), Slashes(p) # {}
  PROVE  FirstSlash(p) \in Slashes(p) /\ \A j \in Slashes(p) : FirstSlash(p) <= j
<1>1. Slashes(p) \in SUBSET Nat
  BY DEF Slashes
<1>2. \E i \in Slashes(p) : \A j \in Slashes(p) : i <= j
  BY <1>1, LeastNat
<1> QED
  BY <1>2 DEF FirstSlash

\* The parts of "/service/method" by position.
LEMMA JoinedPath ==
  ASSUME NEW s \in Seq(Tokens), NEW m \in Seq(Tokens)
  PROVE  LET p == <<"/">> \o s \o <<"/">> \o m
         IN  /\ p \in Seq(Tokens) /\ Len(p) = Len(s) + Len(m) + 2
             /\ p[1] = "/" /\ p[Len(s) + 2] = "/"
             /\ \A i \in 1..Len(s) : p[i + 1] = s[i]
             /\ \A i \in 1..Len(m) : p[Len(s) + 2 + i] = m[i]
<1> DEFINE a == <<"/">> \o s
           b == a \o <<"/">>
           p == b \o m
<1>0. Len(s) \in Nat /\ Len(m) \in Nat /\ "/" \in Tokens
  BY DispatchAssumption
<1>1. /\ a \in Seq(Tokens) /\ Len(a) = Len(s) + 1 /\ a[1] = "/"
      /\ \A i \in 1..Len(s) : a[i + 1] = s[i]
  BY <1>0
<1> HIDE DEF a
<1>2. /\ b \in Seq(Tokens) /\ Len(b) = Len(a) + 1 /\ b[Len(a) + 1] = "/"
      /\ \A i \in 1..Len(a) : b[i] = a[i]
  BY <1>1
<1> HIDE DEF b
<1>3. /\ p \in Seq(Tokens) /\ Len(p) = Len(b) + Len(m)
      /\ \A i \in 1..Len(b) : p[i] = b[i]
      /\ \A i \in 1..Len(m) : p[Len(b) + i] = m[i]
  <2>0. b \in Seq(Tokens) /\ Len(b) \in Nat
    BY <1>2
  <2>1. /\ p \in Seq(Tokens) /\ Len(p) = Len(b) + Len(m) /\ Len(b) \in Nat
        /\ \A i \in 1..(Len(b) + Len(m)) : p[i] = IF i <= Len(b) THEN b[i] ELSE m[i - Len(b)]
    BY <2>0, ConcatProperties
  <2>2. ASSUME NEW i \in 1..Len(m) PROVE p[Len(b) + i] = m[i]
    <3>1. Len(b) + i \in 1..(Len(b) + Len(m)) /\ ~(Len(b) + i <= Len(b)) /\ (Len(b) + i) - Len(b) = i
      BY <1>0, <2>1
    <3> QED
      BY <2>1, <3>1
  <2>3. ASSUME NEW i \in 1..Len(b) PROVE p[i] = b[i]
    <3>1. i \in 1..(Len(b) + Len(m)) /\ i <= Len(b)
      BY <1>0, <2>1
    <3> QED
      BY <2>1, <3>1
  <2> QED
    BY <2>1, <2>2, <2>3
<1> HIDE DEF p
<1>4. Len(a) = Len(s) + 1 /\ Len(b) = Len(s) + 2 /\ Len(p) = Len(s) + Len(m) + 2
  BY <1>0, <1>1, <1>2, <1>3
<1>5. p[1] = "/" /\ p[Len(s) + 2] = "/"
  BY <1>0, <1>1, <1>2, <1>3, <1>4
<1>6. ASSUME NEW i \in 1..Len(s) PROVE p[i + 1] = s[i]
  <2>1. i + 1 \in 1..Len(a) /\ i + 1 \in 1..Len(b)
    BY <1>0, <1>4
  <2> QED
    BY <1>1, <1>2, <1>3, <2>1
<1>7. \A i \in 1..Len(m) : p[Len(s) + 2 + i] = m[i]
  BY <1>3, <1>4
<1> QED
  BY <1>3, <1>4, <1>5, <1>6, <1>7 DEF p, b, a

\* What a path that can be cut is cut into.
ServicePart(p) == SubSeq(p, 2, FirstSlash(p) - 1)

LEMMA Parts ==
  ASSUME NEW p \in Seq(Tokens), NEW a \in Nat \ {0}, NEW b \in Nat, b <= Len(p), a <= b + 1
  PROVE  /\ SubSeq(p, a, b) \in Seq(Tokens) /\ Len(SubSeq(p, a, b)) = b - a + 1
         /\ \A i \in 1..(b - a + 1) : SubSeq(p, a, b)[i] = p[a + i - 1]
<1>1. \A i \in a..b : p[i] \in Tokens
  <2>1. \A i \in a..b : i \in 1..Len(p)
    OBVIOUS
  <2> QED
    BY <2>1, ElementOfSeq
<1>2. /\ SubSeq(p, a, b) \in Seq(Tokens)
      /\ Len(SubSeq(p, a, b)) = IF a <= b THEN b - a + 1 ELSE 0
      /\ \A i \in 1..(b - a + 1) : SubSeq(p, a, b)[i] = p[a + i - 1]
  BY <1>1, SubSeqProperties
<1> QED
  BY <1>2

LEMMA SplitPath ==
  ASSUME NEW p \in Seq(Tokens), p # <<>>, Divisible(p)
  PROVE  /\ ServicePart(p) \in Seq(Tokens) /\ MethodPart(p) \in Seq(Tokens)
         /\ p = <<"/">> \o ServicePart(p) \o <<"/">> \o MethodPart(p)
         /\ \A i \in 1..Len(ServicePart(p)) : ServicePart(p)[i] # "/"
<1>1. PICK f \in 2..Len(p) : f = FirstSlash(p) /\ p[f] = "/" /\ \A j \in 2..Len(p) : p[j] = "/" => f <= j
  BY FirstSlashLeast DEF Divisible, Slashes
<1> DEFINE s == ServicePart(p)
           m == MethodPart(p)
           q == <<"/">> \o s \o <<"/">> \o m
<1>2. Len(p) \in Nat /\ f \in Nat /\ f <= Len(p) /\ p[1] = "/"
  BY <1>1 DEF Divisible
<1>3. s \in Seq(Tokens) /\ Len(s) = f - 2 /\ \A i \in 1..(f - 2) : s[i] = p[i + 1]
  <2>1. PICK a \in Nat \ {0}, b \in Nat : a = 2 /\ b = f - 1 /\ b <= Len(p) /\ a <= b + 1
    BY <1>1, <1>2
  <2>2. s = SubSeq(p, a, b)
    BY <1>1, <2>1 DEF ServicePart
  <2>3. /\ SubSeq(p, a, b) \in Seq(Tokens) /\ Len(SubSeq(p, a, b)) = b - a + 1
        /\ \A i \in 1..(b - a + 1) : SubSeq(p, a, b)[i] = p[a + i - 1]
    BY <2>1, Parts
  <2>4. b - a + 1 = f - 2 /\ \A i \in 1..(f - 2) : a + i - 1 = i + 1
    BY <1>2, <2>1
  <2> HIDE DEF s
  <2> QED
    BY <2>2, <2>3, <2>4
<1>4. m \in Seq(Tokens) /\ Len(m) = Len(p) - f /\ \A i \in 1..(Len(p) - f) : m[i] = p[f + i]
  <2>1. PICK a \in Nat \ {0}, b \in Nat : a = f + 1 /\ b = Len(p) /\ b <= Len(p) /\ a <= b + 1
    BY <1>1, <1>2
  <2>2. m = SubSeq(p, a, b)
    BY <1>1, <2>1 DEF MethodPart
  <2>3. /\ SubSeq(p, a, b) \in Seq(Tokens) /\ Len(SubSeq(p, a, b)) = b - a + 1
        /\ \A i \in 1..(b - a + 1) : SubSeq(p, a, b)[i] = p[a + i - 1]
    BY <2>1, Parts
  <2>4. b - a + 1 = Len(p) - f /\ \A i \in 1..(Len(p) - f) : a + i - 1 = f + i
    BY <1>2, <2>1
  <2> HIDE DEF m
  <2> QED
    BY <2>2, <2>3, <2>4
<1>5. /\ q \in Seq(Tokens) /\ Len(q) = Len(s) + Len(m) + 2
      /\ q[1] = "/" /\ q[Len(s) + 2] = "/"
      /\ \A i \in 1..Len(s) : q[i + 1] = s[i]
      /\ \A i \in 1..Len(m) : q[Len(s) + 2 + i] = m[i]
  <2> HIDE DEF s, m
  <2> QED
    BY <1>3, <1>4, JoinedPath
<1> HIDE DEF s, m, q
<1>6. ASSUME NEW i \in 1..Len(p) PROVE p[i] = q[i]
  <2>1. CASE i = 1
    BY <1>2, <1>5, <2>1
  <2>2. CASE i \in 2..(f - 1)
    <3>1. PICK j \in 1..(f - 2) : j = i - 1 /\ i = j + 1
      BY <1>2, <2>2
    <3> QED
      BY <1>3, <1>5, <3>1
  <2>3. CASE i = f
    <3>1. Len(s) + 2 = i
      BY <1>2, <1>3, <2>3
    <3>2. p[i] = "/" /\ q[Len(s) + 2] = "/"
      BY <1>1, <1>5, <2>3
    <3> QED
      BY <3>1, <3>2
  <2>4. CASE i > f
    <3>1. PICK j \in 1..(Len(p) - f) : j = i - f /\ i = f + j
      BY <1>2, <2>4
    <3>2. Len(s) + 2 + j = i
      BY <1>2, <1>3, <3>1
    <3> QED
      BY <1>4, <1>5, <3>1, <3>2
  <2>5. i = 1 \/ i \in 2..(f - 1) \/ i = f \/ i > f
    BY <1>2
  <2> QED
    BY <2>1, <2>2, <2>3, <2>4, <2>5
<1>7. Len(q) = Len(p)
  BY <1>2, <1>3, <1>4, <1>5
<1>8. p = q
  BY <1>5, <1>6, <1>7, SeqEqual
<1>9. ASSUME NEW i \in 1..Len(s) PROVE s[i] # "/"
  <2>1. i \in 1..(f - 2) /\ i + 1 \in 2..Len(p) /\ ~(f <= i + 1)
    BY <1>2, <1>3
  <2> QED
    BY <1>1, <1>3, <2>1
<1> QED
  BY <1>3, <1>4, <1>8, <1>9 DEF s, m, q

\* "/service/method" is cut into nothing else.
LEMMA JoinPath ==
  ASSUME NEW s \in Seq(Tokens), NEW m \in Seq(Tokens), \A i \in 1..Len(s) : s[i] # "/",
         NEW p, p = <<"/">> \o s \o <<"/">> \o m
  PROVE  Divisible(p) /\ ServicePart(p) = s /\ MethodPart(p) = m
<1>1. /\ p \in Seq(Tokens) /\ Len(p) = Len(s) + Len(m) + 2
      /\ p[1] = "/" /\ p[Len(s) + 2] = "/"
      /\ \A i \in 1..Len(s) : p[i + 1] = s[i]
      /\ \A i \in 1..Len(m) : p[Len(s) + 2 + i] = m[i]
  BY JoinedPath
<1>p. p \in Seq(Tokens)
  BY <1>1
<1>2. Len(s) \in Nat /\ Len(m) \in Nat
  OBVIOUS
<1>3. PICK f \in Nat : f = Len(s) + 2
  BY <1>2
<1>4. f \in Slashes(p)
  BY <1>1, <1>2, <1>3 DEF Slashes
<1>5. ASSUME NEW j \in Slashes(p) PROVE f <= j
  <2>1. j \in 2..Len(p) /\ p[j] = "/"
    BY DEF Slashes
  <2>2. ASSUME j < f PROVE FALSE
    <3>1. PICK i \in 1..Len(s) : i = j - 1 /\ j = i + 1
      BY <1>2, <1>3, <2>1, <2>2
    <3> QED
      BY <1>1, <2>1, <3>1
  <2> QED
    BY <1>3, <2>1, <2>2
<1>6. FirstSlash(p) = f
  <2>1. FirstSlash(p) \in Slashes(p) /\ FirstSlash(p) <= f
    BY <1>1, <1>4, FirstSlashLeast
  <2>2. f <= FirstSlash(p) /\ FirstSlash(p) \in Nat
    BY <1>1, <1>5, <2>1 DEF Slashes
  <2> QED
    BY <1>3, <2>1, <2>2
<1>7. ServicePart(p) = s
  <2>0. f - 1 \in Nat /\ f - 1 <= Len(p) /\ 2 <= (f - 1) + 1
    BY <1>1, <1>2, <1>3
  <2>1. PICK a \in Nat \ {0}, b \in Nat : a = 2 /\ b = f - 1 /\ b <= Len(p) /\ a <= b + 1
    BY <2>0
  <2>2. /\ SubSeq(p, a, b) \in Seq(Tokens) /\ Len(SubSeq(p, a, b)) = b - a + 1
        /\ \A i \in 1..(b - a + 1) : SubSeq(p, a, b)[i] = p[a + i - 1]
    BY <1>p, <2>1, Parts
  <2>3. b - a + 1 = Len(s) /\ \A i \in 1..Len(s) : a + i - 1 = i + 1
    BY <1>2, <1>3, <2>1
  <2> DEFINE x == SubSeq(p, a, b)
  <2>4. x \in Seq(Tokens) /\ Len(x) = Len(s) /\ \A i \in 1..Len(s) : x[i] = s[i]
    BY <1>1, <2>2, <2>3
  <2> HIDE DEF x
  <2>5. x = s
    BY <2>4, SeqEqual
  <2> QED
    BY <1>6, <2>1, <2>5 DEF ServicePart, x
<1>8. MethodPart(p) = m
  <2>1. PICK a \in Nat \ {0}, b \in Nat : a = f + 1 /\ b = Len(p) /\ b <= Len(p) /\ a <= b + 1
    BY <1>1, <1>2, <1>3
  <2>2. /\ SubSeq(p, a, b) \in Seq(Tokens) /\ Len(SubSeq(p, a, b)) = b - a + 1
        /\ \A i \in 1..(b - a + 1) : SubSeq(p, a, b)[i] = p[a + i - 1]
    BY <1>p, <2>1, Parts
  <2>3. b - a + 1 = Len(m) /\ \A i \in 1..Len(m) : a + i - 1 = Len(s) + 2 + i
    BY <1>1, <1>2, <1>3, <2>1
  <2> DEFINE x == SubSeq(p, a, b)
  <2>4. x \in Seq(Tokens) /\ Len(x) = Len(m) /\ \A i \in 1..Len(m) : x[i] = m[i]
    BY <1>1, <2>2, <2>3
  <2> HIDE DEF x
  <2>5. x = m
    BY <2>4, SeqEqual
  <2> QED
    BY <1>6, <2>1, <2>5 DEF MethodPart, x
<1> QED
  BY <1>1, <1>4, <1>7, <1>8 DEF Divisible
-----------------------------------------------------------------------------
(* The inductive invariant.                                                *)

\* A header field that does not make the request invalid.
Good(h) ==
  /\ h.name = ":method" => h.value = "POST"
  /\ h.name = ":path" => Divisible(h.value) /\ MethodPart(h.value) # <<>>
  /\ h.name = "content-type" => h.value \in GrpcTypes

\* _services has the first service of every name that was added.
ServicesInv ==
  /\ \A o \in Services : o \in services <=> FirstAdded(o)
  /\ \A i \in 1..Len(added) : \E x \in services : x.name = added[i].name

\* A valid request is what its header fields say; an invalid one has a bad
\* header field or, once data has come, a message that is not plainly sent.
HeaderInv ==
  /\ ~Sent(":path") => service = <<>> /\ method = <<>>
  /\ ~invalid => \A i \in 1..Len(sent) :
       /\ Good(sent[i])
       /\ sent[i].name = ":path" => service = ServicePart(sent[i].value) /\ method = MethodPart(sent[i].value)
  /\ invalid =>
       \/ \E i \in 1..Len(sent) : ~Good(sent[i])
       \/ pos > 0 /\ ~(~signed /\ first >= PrefixSize /\ total <= PrefixSize + len)
  /\ pos > 0 \/ done => Sent(":method") /\ Sent(":path")

MetadataInv ==
  \A k \in Keys :
    \/ meta[k] = NoValue /\ (~invalid => ~Sent(k))
    \/ \E i \in 1..Len(sent) : sent[i] = Header(k, meta[k]) /\ \A j \in 1..(i - 1) : sent[j].name # k

\* The handler was called for the request as it is.
CallInv ==
  /\ resp = NoResponse => called = NoCall /\ outcome = "none"
  /\ resp # NoResponse => done
  /\ called # NoCall =>
       /\ done /\ Valid /\ called.object \in Found /\ method \in called.object.methods
       /\ called.method = method /\ called.data = Data /\ called.meta = meta
  /\ outcome \in {"ok", "error", "unserialised", "throws", "foreign"} <=> called # NoCall
  /\ resp # NoResponse /\ outcome = "none" =>
       ~Valid \/ Found = {} \/ \E o \in Found : method \notin o.methods

DispatchInv ==
  /\ MessageInv /\ DispatchTypeOK
  /\ ServicesInv /\ HeaderInv /\ MetadataInv /\ CallInv /\ StatusTells
-----------------------------------------------------------------------------
(* Header fields.                                                          *)

LEMMA HeaderTypes ==
  ASSUME NEW h \in Headers
  PROVE  /\ h.name = ":path" => h.value \in Paths
         /\ h.name \in Keys => h.value \in Values /\ h = Header(h.name, h.value)
         /\ h.name \in Keys => h.name \notin {":method", ":path", "content-type"} /\ h.name \notin Reserved
<1>1. h.name \in Keys => h.name \notin {":method", ":path", "content-type"} /\ h.name \notin Reserved
  BY KeysAssumption
<1>2. CASE \E v \in {"POST", "GET"} : h = Header(":method", v)
  BY <1>1, <1>2 DEF Header
<1>3. CASE \E p \in Paths : h = Header(":path", p)
  BY <1>1, <1>3 DEF Header
<1>4. CASE \E v \in GrpcTypes \cup {"text/html"} : h = Header("content-type", v)
  BY <1>1, <1>4 DEF Header
<1>5. CASE \E n \in Reserved : h = Header(n, "x")
  BY <1>1, <1>5 DEF Header, Reserved
<1>6. CASE \E k \in Keys, v \in Values : h = Header(k, v)
  <2>1. PICK k \in Keys, v \in Values : h = Header(k, v)
    BY <1>6
  <2>2. h.name = k /\ h.value = v
    BY <2>1 DEF Header
  <2> QED
    BY <1>1, <2>1, <2>2
<1> QED
  BY <1>2, <1>3, <1>4, <1>5, <1>6 DEF Headers

LEMMA SentAppend ==
  ASSUME sent \in Seq(Headers), NEW h \in Headers, sent' = Append(sent, h)
  PROVE  /\ Len(sent) \in Nat /\ Len(sent') = Len(sent) + 1 /\ sent'[Len(sent) + 1] = h
         /\ sent' \in Seq(Headers)
         /\ \A i \in 1..Len(sent) : i \in 1..Len(sent') /\ sent'[i] = sent[i]
         /\ \A i \in 1..Len(sent') : i \in 1..Len(sent) \/ i = Len(sent) + 1
         /\ \A x : Sent(x)' <=> Sent(x) \/ h.name = x
<1>1. /\ Len(sent) \in Nat /\ Len(sent') = Len(sent) + 1 /\ sent'[Len(sent) + 1] = h
      /\ sent' \in Seq(Headers)
      /\ \A i \in 1..Len(sent) : sent'[i] = sent[i]
  OBVIOUS
<1>2. /\ \A i \in 1..Len(sent) : i \in 1..Len(sent')
      /\ \A i \in 1..Len(sent') : i \in 1..Len(sent) \/ i = Len(sent) + 1
      /\ Len(sent) + 1 \in 1..Len(sent')
  BY <1>1
<1>3. \A x : Sent(x)' <=> Sent(x) \/ h.name = x
  BY <1>1, <1>2 DEF Sent
<1> QED
  BY <1>1, <1>2, <1>3

\* A request that becomes invalid keeps its message.
LEMMA InvalidStep ==
  ASSUME MessageInv, UNCHANGED <<signed, len, total, pos, first, psize, length, data, done>>,
         invalid' \in BOOLEAN, invalid => invalid'
  PROVE  MessageInv'
<1>1. MessageTypeOK'
  BY DEF MessageInv, MessageTypeOK
<1>2. Decode(Encode(len))' = Decode(Encode(len))
  BY DEF Decode, Encode
<1>3. PICK k \in 0..(pos - psize) : data = Span(psize, k) /\ (~invalid => k = pos - psize)
  BY DEF MessageInv, CutInv
<1>4. CutInv'
  BY <1>2, <1>3 DEF MessageInv, CutInv
<1> QED
  BY <1>1, <1>4 DEF MessageInv

\* What request::header does, by the name of the field.
LEMMA HeaderCases ==
  ASSUME DispatchInv, NEW h \in Headers, RecvHeader(h)
  PROVE  /\ ~done /\ sent' = Append(sent, h)
         /\ UNCHANGED <<signed, len, total, pos, first, psize, length, data, done,
                        added, services, called, outcome, resp>>
         /\ h.name = ":path" => ~Sent(":path")
         /\ invalid' \in BOOLEAN /\ (invalid => invalid' /\ UNCHANGED <<service, method, meta>>)
         /\ ~invalid => (invalid' <=> ~Good(h))
         /\ h.name # ":path" => UNCHANGED <<service, method>>
         /\ h.name = ":path" =>
              \/ UNCHANGED <<service, method>> /\ invalid'
              \/ Divisible(h.value) /\ service' = ServicePart(h.value) /\ method' = MethodPart(h.value)
         /\ \/ UNCHANGED meta /\ (h.name \in Keys => invalid)
            \/ h.name \in Keys /\ meta' = [meta EXCEPT ![h.name] = IF @ = NoValue THEN h.value ELSE @]
<1>1. /\ ~done /\ sent' = Append(sent, h) /\ (h.name = ":path" => ~Sent(":path"))
      /\ UNCHANGED <<signed, len, total, pos, first, psize, length, data, done,
                     added, services, called, outcome, resp>>
  BY DEF RecvHeader, MayCome
<1>2. invalid \in BOOLEAN
  BY DEF DispatchInv, MessageInv, MessageTypeOK
<1>3. h.name \in Keys => h.name \notin {":method", ":path", "content-type"} /\ h.name \notin Reserved
  BY HeaderTypes
<1>4. CASE invalid /\ UNCHANGED <<invalid, service, method, meta>>
  BY <1>1, <1>2, <1>4
<1>5. CASE ~invalid /\ h.name \in Reserved /\ UNCHANGED <<invalid, service, method, meta>>
  BY <1>1, <1>2, <1>3, <1>5 DEF Good, Reserved
<1>6. CASE ~invalid /\ HeaderMethod(h)
  BY <1>1, <1>3, <1>6 DEF HeaderMethod, Good
<1>7. CASE ~invalid /\ HeaderPath(h)
  <2>1. CASE ~Divisible(h.value)
    BY <1>1, <1>3, <1>7, <2>1 DEF HeaderPath, Good
  <2>2. CASE Divisible(h.value)
    BY <1>1, <1>3, <1>7, <2>2 DEF HeaderPath, Good, ServicePart
  <2> QED
    BY <2>1, <2>2
<1>8. CASE ~invalid /\ HeaderContentType(h)
  BY <1>1, <1>3, <1>8 DEF HeaderContentType, Good
<1>9. CASE ~invalid /\ HeaderMetadata(h)
  BY <1>1, <1>2, <1>3, <1>9 DEF HeaderMetadata, Good
<1> QED
  BY <1>2, <1>4, <1>5, <1>6, <1>7, <1>8, <1>9 DEF RecvHeader
-----------------------------------------------------------------------------
(* Initial states, and the steps of request and server.                    *)

\* Nothing has come of the call yet.
Idle == resp = NoResponse /\ called = NoCall /\ outcome = "none"

LEMMA IdleCall == Idle => CallInv /\ StatusTells /\ called \in CallSet \cup {NoCall}
                          /\ outcome \in {"none", "unparsed", "ok", "error", "unserialised", "throws", "foreign"}
                          /\ resp.status \in Codes \cup {"none", "terminated"}
<1> SUFFICES ASSUME Idle PROVE /\ CallInv /\ StatusTells /\ called \in CallSet \cup {NoCall}
                               /\ outcome \in {"none", "unparsed", "ok", "error", "unserialised", "throws", "foreign"}
                               /\ resp.status \in Codes \cup {"none", "terminated"}
  OBVIOUS
<1>1. resp.status = "none" /\ resp # Terminated
  BY DEF Idle, NoResponse, Response, Terminated
<1>2. CallInv
  BY DEF Idle, CallInv
<1>3. StatusTells
  BY <1>1 DEF Idle, StatusTells
<1> QED
  BY <1>1, <1>2, <1>3 DEF Idle

LEMMA DoneIdle == DispatchInv /\ ~done => Idle
  BY DEF DispatchInv, CallInv, Idle

LEMMA InitDispatch == DispatchInit => DispatchInv
<1> SUFFICES ASSUME DispatchInit PROVE DispatchInv
  OBVIOUS
<1>1. /\ added = <<>> /\ services = {} /\ sent = <<>> /\ service = <<>> /\ method = <<>>
      /\ meta = [k \in Keys |-> NoValue] /\ Idle /\ invalid = FALSE /\ pos = 0 /\ done = FALSE
  BY DEF DispatchInit, MessageInit, Idle
<1>2. Len(added) = 0 /\ Len(sent) = 0 /\ 1..0 = {}
  BY <1>1
<1>3. MessageInv
  BY InitMessage DEF DispatchInit
<1>4. ServicesInv
  BY <1>1, <1>2 DEF ServicesInv, FirstAdded
<1>5. HeaderInv
  BY <1>1, <1>2 DEF HeaderInv
<1>6. MetadataInv
  BY <1>1, <1>2 DEF MetadataInv, Sent
<1>7. DispatchTypeOK
  BY <1>1, IdleCall DEF DispatchTypeOK, Names
<1> QED
  BY <1>1, <1>3, <1>4, <1>5, <1>6, <1>7, IdleCall DEF DispatchInv

\* server_base::add.
LEMMA AddStep ==
  ASSUME DispatchInv, NEW n \in Services, Add(n)
  PROVE  DispatchInv'
<1>1. /\ sent = <<>> /\ services' = Insert(n) /\ added' = Append(added, n)
      /\ UNCHANGED <<sent, service, method, meta, called, outcome, resp>>
  BY DEF Add
<1>2. UNCHANGED <<signed, len, total, pos, first, psize, length, data, invalid, done>>
  BY DEF Add, messageVars
<1>3. /\ added \in Seq(Services) /\ services \subseteq Services
      /\ \A x, y \in services : x.name = y.name => x = y
      /\ sent \in Seq(Headers) /\ service \in Names /\ method \in Names
      /\ meta \in [Keys -> Values \cup {NoValue}]
  BY DEF DispatchInv, DispatchTypeOK
<1>4. MessageInv'
  BY <1>2, InvalidStep DEF DispatchInv, MessageInv, MessageTypeOK
<1>5. Sent(":path")' = Sent(":path") /\ ~Sent(":path")
  <2>1. Len(sent) = 0
    BY <1>1
  <2> QED
    BY <1>1, <2>1 DEF Sent
<1>6. ~done /\ Idle
  <2>1. ~done
    BY <1>5 DEF DispatchInv, HeaderInv
  <2> QED
    BY <2>1, DoneIdle
<1>7. Idle'
  BY <1>1, <1>6 DEF Idle
<1>8. /\ Len(added) \in Nat /\ added' \in Seq(Services) /\ Len(added') = Len(added) + 1
      /\ added'[Len(added) + 1] = n
      /\ \A i \in 1..Len(added) : added'[i] = added[i]
  BY <1>1, <1>3
<1> DEFINE Fresh == \A j \in 1..Len(added) : added[j].name # n.name
<1>9. ASSUME NEW o \in Services PROVE FirstAdded(o)' <=> FirstAdded(o) \/ (o = n /\ Fresh)
  <2>1. ASSUME FirstAdded(o) PROVE FirstAdded(o)'
    <3>1. PICK i \in 1..Len(added) : added[i] = o /\ \A j \in 1..(i - 1) : added[j].name # o.name
      BY <2>1 DEF FirstAdded
    <3>2. i \in 1..Len(added') /\ \A j \in 1..(i - 1) : j \in 1..Len(added)
      BY <1>8
    <3>3. added'[i] = o /\ \A j \in 1..(i - 1) : added'[j].name # o.name
      BY <1>8, <3>1, <3>2
    <3> QED
      BY <3>2, <3>3 DEF FirstAdded
  <2>2. ASSUME o = n, Fresh PROVE FirstAdded(o)'
    <3>1. PICK i \in 1..Len(added') : i = Len(added) + 1 /\ 1..(i - 1) = 1..Len(added)
      BY <1>8
    <3>2. added'[i] = o /\ \A j \in 1..(i - 1) : added'[j].name # o.name
      BY <1>8, <2>2, <3>1
    <3> QED
      BY <3>2 DEF FirstAdded
  <2>3. ASSUME FirstAdded(o)' PROVE FirstAdded(o) \/ (o = n /\ Fresh)
    <3>1. PICK i \in 1..Len(added') : added'[i] = o /\ \A j \in 1..(i - 1) : added'[j].name # o.name
      BY <2>3 DEF FirstAdded
    <3>2. CASE i \in 1..Len(added)
      <4>1. \A j \in 1..(i - 1) : j \in 1..Len(added)
        BY <1>8, <3>2
      <4> QED
        BY <1>8, <3>1, <3>2, <4>1 DEF FirstAdded
    <3>3. CASE i = Len(added) + 1
      <4>1. 1..(i - 1) = 1..Len(added)
        BY <1>8, <3>3
      <4> QED
        BY <1>8, <3>1, <3>3, <4>1
    <3> QED
      BY <1>8, <3>2, <3>3
  <2> QED
    BY <2>1, <2>2, <2>3
<1>10. Fresh <=> ~\E x \in services : x.name = n.name
  <2>1. ASSUME NEW x \in services, x.name = n.name PROVE ~Fresh
    <3>1. FirstAdded(x)
      BY <1>3 DEF DispatchInv, ServicesInv
    <3> QED
      BY <2>1, <3>1 DEF FirstAdded
  <2>2. ASSUME ~Fresh PROVE \E x \in services : x.name = n.name
    <3>1. PICK j \in 1..Len(added) : added[j].name = n.name
      BY <2>2
    <3>2. PICK x \in services : x.name = added[j].name
      BY DEF DispatchInv, ServicesInv
    <3> QED
      BY <3>1, <3>2
  <2> QED
    BY <2>1, <2>2
<1> HIDE DEF Fresh
<1>11. services' = IF Fresh THEN services \cup {n} ELSE services
  BY <1>1, <1>10 DEF Insert
<1>12. ServicesInv'
  <2>1. ASSUME NEW o \in Services PROVE o \in services' <=> FirstAdded(o)'
    <3>1. o \in services <=> FirstAdded(o)
      BY DEF DispatchInv, ServicesInv
    <3> QED
      BY <1>9, <1>11, <3>1
  <2>2. ASSUME NEW i \in 1..Len(added') PROVE \E x \in services' : x.name = added'[i].name
    <3>1. CASE i \in 1..Len(added)
      <4>1. PICK x \in services : x.name = added[i].name
        BY <3>1 DEF DispatchInv, ServicesInv
      <4> QED
        BY <1>8, <1>11, <3>1, <4>1
    <3>2. CASE i = Len(added) + 1
      BY <1>8, <1>10, <1>11, <3>2
    <3> QED
      BY <1>8, <3>1, <3>2
  <2> QED
    BY <2>1, <2>2 DEF ServicesInv
<1>13. /\ services' \subseteq Services
       /\ \A x, y \in services' : x.name = y.name => x = y
  BY <1>3, <1>10, <1>11
<1>14. HeaderInv'
  <2>1. HeaderInv
    BY DEF DispatchInv
  <2> QED
    BY <1>1, <1>2, <2>1 DEF HeaderInv, Sent
<1>15. MetadataInv'
  <2>1. MetadataInv
    BY DEF DispatchInv
  <2> QED
    BY <1>1, <1>2, <2>1 DEF MetadataInv, Sent
<1>16. (Idle => CallInv /\ StatusTells /\ called \in CallSet \cup {NoCall}
               /\ outcome \in {"none", "unparsed", "ok", "error", "unserialised", "throws", "foreign"}
               /\ resp.status \in Codes \cup {"none", "terminated"})'
  BY IdleCall, PTL
<1>17. DispatchTypeOK'
  BY <1>1, <1>3, <1>7, <1>8, <1>13, <1>16 DEF DispatchTypeOK, Names
<1> QED
  BY <1>4, <1>7, <1>12, <1>14, <1>15, <1>16, <1>17 DEF DispatchInv

\* request::header.
LEMMA HeaderStep ==
  ASSUME DispatchInv, NEW h \in Headers, RecvHeader(h)
  PROVE  DispatchInv'
<1>1. /\ ~done /\ sent' = Append(sent, h)
      /\ UNCHANGED <<signed, len, total, pos, first, psize, length, data, done,
                     added, services, called, outcome, resp>>
      /\ h.name = ":path" => ~Sent(":path")
      /\ invalid' \in BOOLEAN /\ (invalid => invalid' /\ UNCHANGED <<service, method, meta>>)
      /\ ~invalid => (invalid' <=> ~Good(h))
      /\ h.name # ":path" => UNCHANGED <<service, method>>
      /\ h.name = ":path" =>
           \/ UNCHANGED <<service, method>> /\ invalid'
           \/ Divisible(h.value) /\ service' = ServicePart(h.value) /\ method' = MethodPart(h.value)
      /\ \/ UNCHANGED meta /\ (h.name \in Keys => invalid)
         \/ h.name \in Keys /\ meta' = [meta EXCEPT ![h.name] = IF @ = NoValue THEN h.value ELSE @]
  BY HeaderCases
<1>2. /\ h.name = ":path" => h.value \in Paths
      /\ h.name \in Keys => h.value \in Values /\ h = Header(h.name, h.value)
      /\ h.name \in Keys => h.name \notin {":method", ":path", "content-type"} /\ h.name \notin Reserved
  BY HeaderTypes
<1>3. /\ added \in Seq(Services) /\ services \subseteq Services
      /\ \A x, y \in services : x.name = y.name => x = y
      /\ sent \in Seq(Headers) /\ service \in Names /\ method \in Names
      /\ meta \in [Keys -> Values \cup {NoValue}]
  BY DEF DispatchInv, DispatchTypeOK
<1>4. /\ Len(sent) \in Nat /\ Len(sent') = Len(sent) + 1 /\ sent'[Len(sent) + 1] = h
      /\ sent' \in Seq(Headers)
      /\ \A i \in 1..Len(sent) : i \in 1..Len(sent') /\ sent'[i] = sent[i]
      /\ \A i \in 1..Len(sent') : i \in 1..Len(sent) \/ i = Len(sent) + 1
      /\ \A x : Sent(x)' <=> Sent(x) \/ h.name = x
  BY <1>1, <1>3, SentAppend
<1>5. MessageInv'
  BY <1>1, InvalidStep DEF DispatchInv
<1>6. Idle'
  <2>1. Idle
    BY <1>1, DoneIdle
  <2> QED
    BY <1>1, <2>1 DEF Idle
<1>7. ServicesInv'
  <2>1. ServicesInv
    BY DEF DispatchInv
  <2> QED
    BY <1>1, <2>1 DEF ServicesInv, FirstAdded
<1>8. HeaderInv'
  <2>0. HeaderInv
    BY DEF DispatchInv
  <2>1. ~Sent(":path")' => service' = <<>> /\ method' = <<>>
    BY <1>1, <1>4, <2>0 DEF HeaderInv
  <2>2. ASSUME ~invalid', NEW i \in 1..Len(sent')
        PROVE  /\ Good(sent'[i])
               /\ sent'[i].name = ":path" =>
                    service' = ServicePart(sent'[i].value) /\ method' = MethodPart(sent'[i].value)
    <3>1. ~invalid /\ Good(h)
      BY <1>1, <2>2
    <3>2. CASE i \in 1..Len(sent)
      <4>1. /\ Good(sent[i]) /\ sent'[i] = sent[i]
            /\ sent[i].name = ":path" => service = ServicePart(sent[i].value) /\ method = MethodPart(sent[i].value)
        BY <1>4, <2>0, <3>1, <3>2 DEF HeaderInv
      <4>2. sent[i].name = ":path" => Sent(":path")
        BY <3>2 DEF Sent
      <4>3. sent[i].name = ":path" => UNCHANGED <<service, method>>
        BY <1>1, <4>2
      <4> QED
        BY <4>1, <4>3
    <3>3. CASE i = Len(sent) + 1
      <4>1. sent'[i] = h
        BY <1>4, <3>3
      <4> QED
        BY <1>1, <2>2, <3>1, <4>1
    <3> QED
      BY <1>4, <3>2, <3>3
  <2>3. ASSUME invalid'
        PROVE  \/ \E i \in 1..Len(sent') : ~Good(sent'[i])
               \/ pos' > 0 /\ ~(~signed' /\ first' >= PrefixSize /\ total' <= PrefixSize + len')
    <3>1. CASE invalid
      BY <1>1, <1>4, <2>0, <3>1 DEF HeaderInv
    <3>2. CASE ~invalid
      <4>1. ~Good(h) /\ Len(sent) + 1 \in 1..Len(sent')
        BY <1>1, <1>4, <2>3, <3>2
      <4> QED
        BY <1>4, <4>1
    <3> QED
      BY <3>1, <3>2
  <2>4. pos' > 0 \/ done' => Sent(":method")' /\ Sent(":path")'
    BY <1>1, <1>4, <2>0 DEF HeaderInv
  <2> QED
    BY <2>1, <2>2, <2>3, <2>4 DEF HeaderInv
<1>9. MetadataInv'
  <2>0. MetadataInv
    BY DEF DispatchInv
  <2> SUFFICES ASSUME NEW k \in Keys
               PROVE  \/ meta'[k] = NoValue /\ (~invalid' => ~Sent(k)')
                      \/ \E i \in 1..Len(sent') : /\ sent'[i] = Header(k, meta'[k])
                                                  /\ \A j \in 1..(i - 1) : sent'[j].name # k
    BY DEF MetadataInv
  <2>1. ASSUME NEW i \in 1..Len(sent), sent[i] = Header(k, meta[k]), \A j \in 1..(i - 1) : sent[j].name # k
        PROVE  \E m \in 1..Len(sent') : /\ sent'[m] = Header(k, meta'[k])
                                        /\ \A j \in 1..(m - 1) : sent'[j].name # k
    <3>1. sent[i].name = k /\ sent[i].value = meta[k] /\ sent[i] \in Headers
      BY <1>3, <2>1, ElementOfSeq DEF Header
    <3>2. meta[k] \in Values
      BY <3>1, HeaderTypes
    <3>3. meta'[k] = meta[k]
      BY <1>1, <1>3, <3>2, DispatchAssumption
    <3>4. \A j \in 1..(i - 1) : j \in 1..Len(sent)
      BY <1>4
    <3> QED
      BY <1>4, <2>1, <3>3, <3>4
  <2>2. ASSUME meta[k] = NoValue, ~invalid => ~Sent(k)
        PROVE  \/ meta'[k] = NoValue /\ (~invalid' => ~Sent(k)')
               \/ \E i \in 1..Len(sent') : /\ sent'[i] = Header(k, meta'[k])
                                           /\ \A j \in 1..(i - 1) : sent'[j].name # k
    <3>1. CASE invalid
      BY <1>1, <2>2, <3>1
    <3>2. CASE ~invalid /\ h.name # k
      <4>1. meta'[k] = NoValue
        BY <1>1, <1>3, <2>2, <3>2
      <4> QED
        BY <1>4, <2>2, <3>2, <4>1
    <3>3. CASE ~invalid /\ h.name = k
      <4>1. meta'[k] = h.value /\ h = Header(k, h.value)
        BY <1>1, <1>2, <1>3, <2>2, <3>3
      <4>2. \A j \in 1..Len(sent) : sent[j].name # k
        BY <2>2, <3>3 DEF Sent
      <4>3. PICK i \in 1..Len(sent') : i = Len(sent) + 1 /\ 1..(i - 1) = 1..Len(sent)
        BY <1>4
      <4> QED
        BY <1>4, <4>1, <4>2, <4>3
    <3> QED
      BY <3>1, <3>2, <3>3
  <2> QED
    BY <2>0, <2>1, <2>2 DEF MetadataInv
<1>10. service' \in Names /\ method' \in Names
  <2>1. CASE UNCHANGED <<service, method>>
    BY <1>3, <2>1
  <2>2. CASE h.name = ":path" /\ Divisible(h.value) /\ service' = ServicePart(h.value) /\ method' = MethodPart(h.value)
    <3>1. h.value \in Seq(Tokens) /\ h.value # <<>>
      BY <1>2, <2>2, DispatchAssumption
    <3> QED
      BY <2>2, <3>1, SplitPath DEF Names
  <2> QED
    BY <1>1, <2>1, <2>2
<1>11. meta' \in [Keys -> Values \cup {NoValue}]
  BY <1>1, <1>2, <1>3
<1>12. (Idle => CallInv /\ StatusTells /\ called \in CallSet \cup {NoCall}
               /\ outcome \in {"none", "unparsed", "ok", "error", "unserialised", "throws", "foreign"}
               /\ resp.status \in Codes \cup {"none", "terminated"})'
  BY IdleCall, PTL
<1>13. DispatchTypeOK'
  BY <1>1, <1>3, <1>4, <1>6, <1>10, <1>11, <1>12 DEF DispatchTypeOK, Names
<1> QED
  BY <1>5, <1>6, <1>7, <1>8, <1>9, <1>12, <1>13 DEF DispatchInv

\* request::read.
LEMMA DataStep ==
  ASSUME DispatchInv, NEW n \in 1..total, RecvData(n)
  PROVE  DispatchInv'
<1>1. Read(n) /\ MessageInv /\ Sent(":method") /\ Sent(":path")
  BY DEF RecvData, DispatchInv
<1>2. UNCHANGED <<added, services, sent, service, method, meta, called, outcome, resp>>
  BY DEF RecvData, dispatchVars
<1>3. /\ pos' = pos + n /\ ~done /\ UNCHANGED <<signed, len, total, done>>
      /\ first' = IF pos = 0 THEN n ELSE first
      /\ invalid => invalid'
  BY <1>1, ReadCases
<1>4. MessageInv'
  BY <1>1, ReadStep
<1>5. Idle'
  <2>1. Idle
    BY <1>3, DoneIdle
  <2> QED
    BY <1>2, <2>1 DEF Idle
<1>6. ServicesInv'
  <2>1. ServicesInv
    BY DEF DispatchInv
  <2> QED
    BY <1>2, <2>1 DEF ServicesInv, FirstAdded
<1>7. pos \in Nat /\ n \in Nat \ {0} /\ total \in Nat /\ pos' > 0 /\ (pos > 0 => first' = first)
  BY <1>1, <1>3 DEF MessageInv, MessageTypeOK
<1>8. HeaderInv'
  <2>0. HeaderInv
    BY DEF DispatchInv
  <2>1. ASSUME ~invalid', NEW i \in 1..Len(sent)
        PROVE  /\ Good(sent[i])
               /\ sent[i].name = ":path" =>
                    service = ServicePart(sent[i].value) /\ method = MethodPart(sent[i].value)
    BY <1>3, <2>0, <2>1 DEF HeaderInv
  <2>2. ASSUME invalid'
        PROVE  \/ \E i \in 1..Len(sent) : ~Good(sent[i])
               \/ ~(~signed /\ first' >= PrefixSize /\ total <= PrefixSize + len)
    <3>1. CASE invalid
      BY <1>7, <2>0, <3>1 DEF HeaderInv
    <3>2. CASE ~invalid
      BY <1>1, <2>2, <3>2, PlainRead
    <3> QED
      BY <3>1, <3>2
  <2>3. Sent(":method")' /\ Sent(":path")'
    BY <1>1, <1>2 DEF Sent
  <2> QED
    BY <1>2, <1>3, <1>7, <2>1, <2>2, <2>3 DEF HeaderInv
<1>9. MetadataInv'
  <2>1. MetadataInv
    BY DEF DispatchInv
  <2> QED
    BY <1>2, <1>3, <2>1 DEF MetadataInv, Sent
<1>10. (Idle => CallInv /\ StatusTells /\ called \in CallSet \cup {NoCall}
               /\ outcome \in {"none", "unparsed", "ok", "error", "unserialised", "throws", "foreign"}
               /\ resp.status \in Codes \cup {"none", "terminated"})'
  BY IdleCall, PTL
<1>11. DispatchTypeOK'
  BY <1>2, <1>5, <1>10 DEF DispatchInv, DispatchTypeOK, Names
<1> QED
  BY <1>4, <1>5, <1>6, <1>8, <1>9, <1>10, <1>11 DEF DispatchInv

LEMMA RecvEndStep ==
  ASSUME DispatchInv, RecvEnd
  PROVE  DispatchInv'
<1>1. End /\ MessageInv /\ Sent(":method") /\ Sent(":path")
  BY DEF RecvEnd, DispatchInv
<1>2. UNCHANGED <<added, services, sent, service, method, meta, called, outcome, resp>>
  BY DEF RecvEnd, dispatchVars
<1>3. ~done /\ UNCHANGED <<signed, len, total, pos, first, invalid>>
  BY <1>1 DEF End
<1>4. MessageInv'
  BY <1>1, EndStep
<1>5. Idle'
  <2>1. Idle
    BY <1>3, DoneIdle
  <2> QED
    BY <1>2, <2>1 DEF Idle
<1>6. ServicesInv'
  <2>1. ServicesInv
    BY DEF DispatchInv
  <2> QED
    BY <1>2, <2>1 DEF ServicesInv, FirstAdded
<1>7. HeaderInv'
  <2>1. HeaderInv
    BY DEF DispatchInv
  <2> QED
    BY <1>1, <1>2, <1>3, <2>1 DEF HeaderInv, Sent
<1>8. MetadataInv'
  <2>1. MetadataInv
    BY DEF DispatchInv
  <2> QED
    BY <1>2, <1>3, <2>1 DEF MetadataInv, Sent
<1>9. (Idle => CallInv /\ StatusTells /\ called \in CallSet \cup {NoCall}
               /\ outcome \in {"none", "unparsed", "ok", "error", "unserialised", "throws", "foreign"}
               /\ resp.status \in Codes \cup {"none", "terminated"})'
  BY IdleCall, PTL
<1>10. DispatchTypeOK'
  BY <1>2, <1>5, <1>9 DEF DispatchInv, DispatchTypeOK, Names
<1> QED
  BY <1>4, <1>5, <1>6, <1>7, <1>8, <1>9, <1>10 DEF DispatchInv

\* What is in CallInv about a call is about variables that process() leaves.
LEMMA SameData == UNCHANGED messageVars => Data' = Data
  BY DEF messageVars, Data

\* server_base::process.
LEMMA ProcessStep ==
  ASSUME DispatchInv, Process
  PROVE  DispatchInv'
<1>1. /\ done /\ resp = NoResponse
      /\ UNCHANGED <<signed, len, total, pos, first, psize, length, data, invalid, done>>
      /\ UNCHANGED <<added, services, sent, service, method, meta>>
      /\ UNCHANGED messageVars
  BY DEF Process, messageVars
<1>2. called = NoCall /\ outcome = "none"
  BY <1>1 DEF DispatchInv, CallInv
<1>3. /\ services \subseteq Services /\ \A x, y \in services : x.name = y.name => x = y
      /\ method \in Names /\ meta \in [Keys -> Values \cup {NoValue}]
  BY DEF DispatchInv, DispatchTypeOK
<1>4. MessageInv'
  BY <1>1, InvalidStep DEF DispatchInv, MessageInv, MessageTypeOK
<1>5. ServicesInv'
  <2>1. ServicesInv
    BY DEF DispatchInv
  <2> QED
    BY <1>1, <2>1 DEF ServicesInv, FirstAdded
<1>6. HeaderInv'
  <2>1. HeaderInv
    BY DEF DispatchInv
  <2> QED
    BY <1>1, <2>1 DEF HeaderInv, Sent
<1>7. MetadataInv'
  <2>1. MetadataInv
    BY DEF DispatchInv
  <2> QED
    BY <1>1, <2>1 DEF MetadataInv, Sent
<1>8. Found' = Found /\ Valid' = Valid /\ Data' = Data /\ CallSet' = CallSet
  BY <1>1, SameData DEF Found, Valid, CallSet
<1> DEFINE Types == /\ called' \in CallSet \cup {NoCall}
                    /\ outcome' \in {"none", "unparsed", "ok", "error", "unserialised", "throws", "foreign"}
                    /\ resp'.status \in Codes \cup {"none", "terminated"}
<1>10. ASSUME \E status \in {"invalid_argument", "not_found"} : Refuse(status)
       PROVE  Types /\ CallInv' /\ StatusTells'
  <2>1. PICK status \in {"invalid_argument", "not_found"} : Refuse(status)
    BY <1>10
  <2>2. /\ resp'.status = status /\ resp' # NoResponse /\ resp' # Terminated
        /\ called' = NoCall /\ outcome' = "none" /\ (~Valid \/ Found = {})
    BY <1>2, <2>1 DEF Refuse, Response, NoResponse, Terminated
  <2>3. Types
    BY <2>1, <2>2 DEF Codes
  <2>4. CallInv'
    BY <1>1, <1>8, <2>2 DEF CallInv
  <2>5. StatusTells'
    BY <2>1, <2>2 DEF StatusTells
  <2> QED
    BY <2>3, <2>4, <2>5
<1>11. ASSUME CallUnknown
       PROVE  Types /\ CallInv' /\ StatusTells'
  <2>2. /\ resp'.status = "not_found" /\ resp' # NoResponse /\ resp' # Terminated
        /\ called' = NoCall /\ outcome' = "none" /\ \E o \in Found : method \notin o.methods
    BY <1>2, <1>11 DEF CallUnknown, Response, NoResponse, Terminated
  <2>3. Types
    BY <2>2 DEF Codes
  <2>4. CallInv'
    BY <1>1, <1>8, <2>2 DEF CallInv
  <2>5. StatusTells'
    BY <2>2 DEF StatusTells
  <2> QED
    BY <2>3, <2>4, <2>5
<1>12. ASSUME CallUnparsed
       PROVE  Types /\ CallInv' /\ StatusTells'
  <2>2. /\ resp'.status = "internal" /\ resp' # NoResponse /\ resp' # Terminated
        /\ called' = NoCall /\ outcome' = "unparsed" /\ resp' = Response("internal", FALSE)
    BY <1>2, <1>12 DEF CallUnparsed, Response, NoResponse, Terminated
  <2>3. Types
    BY <2>2 DEF Codes
  <2>4. CallInv'
    BY <1>1, <1>8, <2>2 DEF CallInv
  <2>5. StatusTells'
    BY <2>2 DEF StatusTells
  <2> QED
    BY <2>3, <2>4, <2>5
<1>13. ASSUME \E how \in {"ok", "error", "unserialised", "throws", "foreign"} : Call(how)
       PROVE  Types /\ CallInv' /\ StatusTells'
  <2>1. PICK how \in {"ok", "error", "unserialised", "throws", "foreign"} : Call(how)
    BY <1>13
  <2>2. PICK o \in Found :
          /\ method \in o.methods
          /\ called' = [object |-> o, method |-> method, data |-> Data, meta |-> Context]
    BY <2>1 DEF Call
  <2>3. Valid /\ method # <<>> /\ outcome' = how /\ resp' = Answer(how)
    BY <2>1 DEF Call, Valid
  <2>4. Context = meta
    BY <1>3 DEF Context
  <2>5. /\ called'.object = o /\ called'.method = method /\ called'.data = Data /\ called'.meta = meta
        /\ called' # NoCall
    BY <2>2, <2>3, <2>4 DEF NoCall
  <2>6. Data \in Seq(1..total)
    <3>1. data \in Seq(1..total) /\ <<>> \in Seq(1..total)
      BY DEF DispatchInv, MessageInv, MessageTypeOK
    <3> QED
      BY <3>1 DEF Data
  <2>7. called' \in CallSet
    <3>1. o \in Services /\ Context \in [Keys -> Values \cup {NoValue}]
      BY <1>3, <2>2, <2>4 DEF Found
    <3> QED
      BY <1>3, <2>2, <2>6, <3>1 DEF CallSet
  <2>8. /\ resp' # NoResponse /\ resp'.status \in Codes \cup {"terminated"}
        /\ resp' = Terminated => how = "foreign"
        /\ how \in {"unserialised", "throws"} => resp' = Response("internal", FALSE)
        /\ resp'.status = "ok" => how = "ok" /\ resp'.message
    <3>1. CASE how \in {"ok", "error"}
      <4>1. resp' = Response(how, TRUE)
        BY <2>3, <3>1 DEF Answer
      <4> QED
        BY <3>1, <4>1 DEF Response, NoResponse, Terminated, Codes
    <3>2. CASE how \in {"unserialised", "throws"}
      <4>1. resp' = Response("internal", FALSE)
        BY <2>3, <3>2 DEF Answer
      <4> QED
        BY <3>2, <4>1 DEF Response, NoResponse, Terminated, Codes
    <3>3. CASE how = "foreign"
      <4>1. resp' = Terminated
        BY <2>3, <3>3 DEF Answer
      <4> QED
        BY <3>3, <4>1 DEF Response, NoResponse, Terminated, Codes
    <3> QED
      BY <3>1, <3>2, <3>3
  <2>9. Types
    BY <2>1, <2>3, <2>7, <2>8
  <2>10. CallInv'
    BY <1>1, <1>8, <2>1, <2>2, <2>3, <2>5, <2>8 DEF CallInv
  <2>11. StatusTells'
    BY <2>1, <2>3, <2>5, <2>8 DEF StatusTells
  <2> QED
    BY <2>9, <2>10, <2>11
<1>14. Types /\ CallInv' /\ StatusTells'
  BY <1>10, <1>11, <1>12, <1>13 DEF Process
<1>15. DispatchTypeOK'
  BY <1>1, <1>8, <1>14 DEF DispatchInv, DispatchTypeOK, Names
<1> QED
  BY <1>4, <1>5, <1>6, <1>7, <1>14, <1>15 DEF DispatchInv

LEMMA DispatchStutter ==
  ASSUME DispatchInv, UNCHANGED <<messageVars, dispatchVars>>
  PROVE  DispatchInv'
<1>1. /\ UNCHANGED <<signed, len, total, pos, first, psize, length, data, invalid, done>>
      /\ UNCHANGED <<added, services, sent, service, method, meta, called, outcome, resp>>
  BY DEF messageVars, dispatchVars
<1>2. MessageInv'
  BY <1>1, InvalidStep DEF DispatchInv, MessageInv, MessageTypeOK
<1>3. DispatchTypeOK' /\ ServicesInv' /\ HeaderInv' /\ MetadataInv' /\ StatusTells'
  <2>1. DispatchTypeOK'
    BY <1>1 DEF DispatchInv, DispatchTypeOK, Names, CallSet
  <2>2. ServicesInv'
    BY <1>1 DEF DispatchInv, ServicesInv, FirstAdded
  <2>3. HeaderInv'
    BY <1>1 DEF DispatchInv, HeaderInv, Sent
  <2>4. MetadataInv'
    BY <1>1 DEF DispatchInv, MetadataInv, Sent
  <2>5. StatusTells'
    BY <1>1 DEF DispatchInv, StatusTells
  <2> QED
    BY <2>1, <2>2, <2>3, <2>4, <2>5
<1>4. CallInv'
  <2>1. Found' = Found /\ Valid' = Valid /\ Data' = Data
    BY <1>1 DEF Found, Valid, Data
  <2> QED
    BY <1>1, <2>1 DEF DispatchInv, CallInv
<1> QED
  BY <1>2, <1>3, <1>4 DEF DispatchInv

LEMMA DispatchInvariant == DispatchSpec => []DispatchInv
<1>1. DispatchInv /\ [DispatchNext]_<<messageVars, dispatchVars>> => DispatchInv'
  <2> SUFFICES ASSUME DispatchInv, [DispatchNext]_<<messageVars, dispatchVars>> PROVE DispatchInv'
    OBVIOUS
  <2>1. ASSUME NEW o \in Services, Add(o) PROVE DispatchInv'
    BY <2>1, AddStep
  <2>2. ASSUME NEW h \in Headers, RecvHeader(h) PROVE DispatchInv'
    BY <2>2, HeaderStep
  <2>3. ASSUME NEW n \in 1..total, RecvData(n) PROVE DispatchInv'
    BY <2>3, DataStep
  <2>4. CASE RecvEnd
    BY <2>4, RecvEndStep
  <2>5. CASE Process
    BY <2>5, ProcessStep
  <2>6. CASE UNCHANGED <<messageVars, dispatchVars>>
    BY <2>6, DispatchStutter
  <2> QED
    BY <2>1, <2>2, <2>3, <2>4, <2>5, <2>6 DEF DispatchNext
<1> QED
  BY <1>1, InitDispatch, PTL DEF DispatchSpec
-----------------------------------------------------------------------------
(* Theorems.                                                               *)

\* The variables of request, server and call keep their types, and _services
\* has one entry for a name, whatever is added.
THEOREM DispatchTypeCorrect == DispatchSpec => []DispatchTypeOK
<1>1. DispatchInv => DispatchTypeOK
  BY DEF DispatchInv
<1> QED
  BY <1>1, DispatchInvariant, PTL

\* process() calls a handler only for what all header fields ask for, and of two
\* services of one name the one that was added first.
THEOREM CallsRouted == DispatchSpec => []RoutedAsSent
<1>1. DispatchInv => RoutedAsSent
  <2> SUFFICES ASSUME DispatchInv, called # NoCall PROVE AsksFor(called.object, called.method)
    BY DEF RoutedAsSent
  <2>1. PICK o \in Found : o = called.object
    BY DEF DispatchInv, CallInv
  <2>2. Valid /\ method \in o.methods /\ called.method = method
    BY <2>1 DEF DispatchInv, CallInv
  <2>3. o \in Services /\ o.name = service /\ FirstAdded(o)
    BY <2>1 DEF DispatchInv, DispatchTypeOK, Found, ServicesInv
  <2>4. sent \in Seq(Headers)
    BY DEF DispatchInv, DispatchTypeOK
  <2>5. ASSUME NEW i \in 1..Len(sent)
        PROVE  /\ sent[i].name = ":method" => sent[i].value = "POST"
               /\ sent[i].name = ":path" => Routes(sent[i].value, o.name, method)
               /\ sent[i].name = "content-type" => sent[i].value \in GrpcTypes
    <3>1. /\ Good(sent[i])
          /\ sent[i].name = ":path" => service = ServicePart(sent[i].value) /\ method = MethodPart(sent[i].value)
      BY <2>2 DEF Valid, DispatchInv, HeaderInv
    <3>2. ASSUME sent[i].name = ":path" PROVE Routes(sent[i].value, o.name, method)
      <4>1. sent[i] \in Headers
        BY <2>4, ElementOfSeq
      <4>2. sent[i].value \in Paths
        BY <3>2, <4>1, HeaderTypes
      <4>3. PICK p \in Seq(Tokens) : p = sent[i].value /\ p # <<>> /\ Divisible(p)
        BY <3>1, <3>2, <4>2, DispatchAssumption DEF Good
      <4>4. /\ p = <<"/">> \o ServicePart(p) \o <<"/">> \o MethodPart(p)
            /\ \A j \in 1..Len(ServicePart(p)) : ServicePart(p)[j] # "/"
        BY <4>3, SplitPath
      <4>5. ServicePart(p) = o.name /\ MethodPart(p) = method /\ o.name # <<>> /\ method # <<>>
        BY <2>2, <2>3, <3>1, <3>2, <4>3 DEF Valid
      <4> QED
        BY <4>3, <4>4, <4>5 DEF Routes
    <3> QED
      BY <3>1, <3>2 DEF Good
  <2> QED
    BY <2>1, <2>2, <2>3, <2>5 DEF AsksFor
<1> QED
  BY <1>1, DispatchInvariant, PTL

\* context has, of several values of one name, the first that the client sent.
THEOREM ContextExact == DispatchSpec => []MetadataFirst
<1>1. DispatchInv => MetadataFirst
  <2> SUFFICES ASSUME DispatchInv PROVE MetadataFirst
    OBVIOUS
  <2>1. called # NoCall => called.meta = meta /\ ~invalid
    BY DEF DispatchInv, CallInv, Valid
  <2>2. MetadataInv
    BY DEF DispatchInv
  <2> QED
    BY <2>1, <2>2 DEF MetadataInv, MetadataFirst
<1> QED
  BY <1>1, DispatchInvariant, PTL

\* A handler is not given a message that has bytes beyond its length, unless its
\* prefix was cut or its length sign-extended (message::bytes throws,
\* request::read, message::data).
THEOREM HandlerRefusesSurplus == DispatchSpec => []SurplusRefused
<1>1. DispatchInv => SurplusRefused
  <2> SUFFICES ASSUME DispatchInv, called # NoCall, total > PrefixSize + len, ~Misread
               PROVE  called.data = <<>>
    BY DEF SurplusRefused
  <2>1. called.data = Data /\ MessageInv /\ done /\ ~invalid
    BY DEF DispatchInv, CallInv, Valid
  <2> QED
    BY <2>1, SurplusDropped
<1> QED
  BY <1>1, DispatchInvariant, PTL

\* A well-formed call to a method that was added is answered only after its
\* handler had the message, unless protobuf refuses it: neither the order of the
\* header fields nor another service of the same name is in its way.
THEOREM HandlerReached == DispatchSpec => []ReachesHandler
<1>1. DispatchInv => ReachesHandler
  <2> SUFFICES ASSUME DispatchInv, resp # NoResponse, PlainlySent,
                      NEW o \in Services, NEW m \in o.methods, AsksFor(o, m)
               PROVE  outcome = "unparsed" \/ (called # NoCall /\ called.data = Payload)
    BY DEF ReachesHandler
  <2>1. /\ done /\ ~signed /\ first >= PrefixSize /\ total = PrefixSize + len /\ total \in Nat
        /\ MessageInv
    BY DEF PlainlySent, WellFormed, DispatchInv, MessageInv, MessageTypeOK
  <2>2. o.name \in Seq(Tokens) /\ m \in Seq(Tokens)
    BY DispatchAssumption
  <2>3. ASSUME NEW i \in 1..Len(sent), sent[i].name = ":path"
        PROVE  /\ Divisible(sent[i].value) /\ ServicePart(sent[i].value) = o.name
               /\ MethodPart(sent[i].value) = m /\ o.name # <<>> /\ m # <<>>
    <3>1. Routes(sent[i].value, o.name, m)
      BY <2>3 DEF AsksFor
    <3> QED
      BY <2>2, <3>1, JoinPath DEF Routes
  <2>4. \A i \in 1..Len(sent) : Good(sent[i])
    BY <2>3 DEF AsksFor, Good
  <2>5. ~invalid
    <3>1. total <= PrefixSize + len
      BY <2>1
    <3> QED
      BY <2>1, <2>4, <3>1 DEF DispatchInv, HeaderInv
  <2>6. PICK i \in 1..Len(sent) : sent[i].name = ":path"
    BY <2>1 DEF DispatchInv, HeaderInv, Sent
  <2>7. service = o.name /\ method = m /\ Valid
    <3>1. service = ServicePart(sent[i].value) /\ method = MethodPart(sent[i].value)
      BY <2>5, <2>6 DEF DispatchInv, HeaderInv
    <3> QED
      BY <2>3, <2>5, <2>6, <3>1 DEF Valid
  <2>8. o \in services
    BY DEF DispatchInv, ServicesInv, AsksFor
  <2>9. Found = {o}
    BY <2>7, <2>8 DEF Found, DispatchInv, DispatchTypeOK
  <2>10. outcome # "none"
    BY <2>7, <2>9 DEF DispatchInv, CallInv
  <2>11. outcome = "unparsed" \/ (called # NoCall /\ called.data = Data)
    BY <2>10 DEF DispatchInv, DispatchTypeOK, CallInv
  <2>12. Data = Payload
    BY <2>1, <2>5, PlainExact
  <2> QED
    BY <2>11, <2>12
<1> QED
  BY <1>1, DispatchInvariant, PTL

\* The status of a response tells what became of the call: "internal" for every
\* failure inside it, "ok" only for what a handler has returned, and the process
\* ends only for something that is not a std::exception.
THEOREM StatusHonest == DispatchSpec => []StatusTells
<1>1. DispatchInv => StatusTells
  BY DEF DispatchInv
<1> QED
  BY <1>1, DispatchInvariant, PTL
=============================================================================
