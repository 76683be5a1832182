------------------------------- MODULE Message -------------------------------
(***************************************************************************)
(* detail::message: how the DATA chunks of one HTTP/2 stream become the    *)
(* bytes of one length-prefixed gRPC message (message.cpp, request::read). *)
(*                                                                         *)
(* The client sends total bytes: the 5-byte prefix for a message of len    *)
(* bytes, then payload.  A byte is its position in the stream, so that     *)
(* what the handler gets can be compared with what was sent; the values    *)
(* that matter are those of the four length bytes.  nghttp2 cuts the       *)
(* stream into chunks of any size.                                         *)
(*                                                                         *)
(* A byte has Base values (256 in the code); small bases have the same     *)
(* carries and the same sign bit and keep lengths within reach of TLC.     *)
(***************************************************************************)
EXTENDS Integers, Sequences

CONSTANTS
  Base,        \* number of values of a byte: even
  Lengths,     \* message lengths that clients send
  MaxExtra,    \* bound: bytes that a client sends too many, or too few
  Alloc,       \* reserve() always succeeds up to this capacity
  NoLength     \* std::nullopt

ASSUME MessageAssumption ==
  /\ Base \in Nat \ {0} /\ Base % 2 = 0
  /\ MaxExtra \in Nat /\ Alloc \in Nat
  /\ Lengths \subseteq 0..(Base * Base * Base * Base - 1)
  /\ NoLength \notin Nat

\* Memory suffices for the messages that clients really send; what parse() makes
\* of their lengths may be more.
ASSUME AllocAssumption == \A n \in Lengths : n + 5 <= Alloc

VARIABLES
  signed,   \* TRUE where char is signed (x86), FALSE where it is not (ARM)
  len,      \* length that the client's prefix announces
  total,    \* number of bytes that the client sends
  pos,      \* number of bytes that nghttp2 has delivered
  first,    \* size of the first chunk
  psize,    \* size of _prefix; its first bytes are those of the stream
  length,   \* _length
  data,     \* _data
  invalid,  \* flags_t::invalid of the request
  done      \* the stream has ended and the request is processed

messageVars == <<signed, len, total, pos, first, psize, length, data, invalid, done>>

PrefixSize == 5

MessageTypeOK ==
  /\ signed \in BOOLEAN
  /\ len \in Lengths /\ total \in Nat
  /\ pos \in 0..total /\ first \in 0..total
  /\ psize \in 0..(2 * PrefixSize - 1)
  /\ length \in 0..(Base * Base * Base * Base - 1) \cup {NoLength}
  /\ data \in Seq(1..total)
  /\ invalid \in BOOLEAN /\ done \in BOOLEAN

\* message(std::string &&): the four length bytes, most significant first.
Encode(n) ==
  << n \div (Base * Base * Base), (n \div (Base * Base)) % Base, (n \div Base) % Base, n % Base >>

\* Mutant of Decode: the bytes are taken least significant first.
DecodeLittleEndian(b) ==
  ((b[4] * Base + b[3]) * Base + b[2]) * Base + b[1]

\* parse(): the bytes are promoted to int, shifted and or-ed.  Where char is
\* signed a byte with its top bit set becomes a negative int, whose ones cover
\* all higher bytes; only the last byte is masked.
Decode(b) ==
  LET Negative(i) == signed /\ 2 * b[i] >= Base
      Covered(i)  == \E j \in 2..3 : j > i /\ Negative(j)
      Byte(i)     == IF Covered(i) THEN Base - 1 ELSE b[i]
  IN  ((Byte(1) * Base + Byte(2)) * Base + Byte(3)) * Base + Byte(4)

MessageInit ==
  /\ signed \in BOOLEAN
  /\ len \in Lengths
  /\ total \in {PrefixSize + len + x : x \in -MaxExtra..MaxExtra} \cap Nat
  /\ pos = 0 /\ first = 0
  /\ psize = 0 /\ length = NoLength /\ data = <<>>
  /\ invalid = FALSE /\ done = FALSE
-----------------------------------------------------------------------------
\* Mutant of PrefixPart: the whole chunk goes to an incomplete prefix.
PrefixPartUnlimited(n) == IF psize < PrefixSize THEN n ELSE 0

\* How many bytes of a chunk of n bytes bytes() appends to _prefix.
PrefixPart(n) == IF psize < PrefixSize THEN (IF n > PrefixSize THEN PrefixSize ELSE n) ELSE 0

\* _data after the rest of the chunk is appended.
DataAfter(n) == data \o [i \in 1..(n - PrefixPart(n)) |-> pos + PrefixPart(n) + i]

\* Mutant of ThrowLarger: request::read catches the exception and forgets it.
ThrowLargerIgnored == UNCHANGED <<psize, length, data, invalid>>

\* bytes() throws and request::read catches: the request is invalid for good.
ThrowLarger ==
  /\ invalid' = TRUE
  /\ UNCHANGED <<psize, length, data>>

\* message::bytes(chunk) on the next n bytes of the stream: it throws if the
\* message is complete already, or if reserve() fails for the parsed length.
\* cap is computed in 32 bits.
Bytes(n) ==
  IF length # NoLength /\ Len(data) >= length
  THEN ThrowLarger
  ELSE LET parse == length = NoLength /\ psize + PrefixPart(n) >= PrefixSize
           value == Decode(Encode(len))
           cap   == (value + 5) % (Base * Base * Base * Base)
       IN  /\ psize' = psize + PrefixPart(n)
           /\ length' = IF parse THEN value ELSE length
           /\ \/ /\ data' = DataAfter(n)
                 /\ UNCHANGED invalid
              \/ /\ parse /\ cap > Alloc
                 /\ invalid' = TRUE
                 /\ UNCHANGED data

\* A stream_data event: request::read ignores it when the request is invalid.
Read(n) ==
  /\ ~done /\ pos + n <= total
  /\ pos' = pos + n
  /\ first' = IF pos = 0 THEN n ELSE first
  /\ IF invalid THEN UNCHANGED <<psize, length, data, invalid>> ELSE Bytes(n)
  /\ UNCHANGED <<signed, len, total, done>>

\* A stream_end event: the request goes to process().
End ==
  /\ ~done /\ pos = total
  /\ done' = TRUE
  /\ UNCHANGED <<signed, len, total, pos, first, psize, length, data, invalid>>

\* Mutant of Data: the size is not compared.
DataUnchecked == data

\* message::data(): what the handler gets.
Data == IF length = NoLength \/ Len(data) # length THEN <<>> ELSE data

MessageNext == (\E n \in 1..total : Read(n)) \/ End

MessageSpec == MessageInit /\ [][MessageNext]_messageVars
-----------------------------------------------------------------------------
(* Properties.                                                             *)

Payload == [i \in 1..len |-> PrefixSize + i]

\* bytes() has taken payload for prefix (the prefix was cut), or parse() has raised
\* the length (char is signed).
Misread == psize > PrefixSize \/ length \notin {len, NoLength}

\* What data() returns, for every stream: the message, nothing or, only if the
\* stream has bytes beyond the announced length and is misread, other bytes.  These are as
\* many as parse() made the length, in sequence, from behind what bytes() took for
\* the prefix.  So a misread message that is not too long, or a long one that is
\* not misread, never reaches a handler in part or with bytes that are not its own.
NoCorruption ==
  \/ Data = <<>> \/ Data = Payload
  \/ /\ Misread /\ total > PrefixSize + len
     /\ Data = [i \in 1..length |-> psize + i]

WellFormed == done /\ total = PrefixSize + len

\* A well-formed message whose prefix arrives in one chunk where char is unsigned.
PlainlySent == ~signed /\ first >= PrefixSize /\ WellFormed

\* Such a message is delivered, however the rest is cut.
DeliveredPlain == PlainlySent => ~invalid /\ Data = Payload

\* Where char is unsigned a well-formed message is delivered, however it is cut.
DeliveredCut == ~signed /\ WellFormed => ~invalid /\ Data = Payload

\* On every platform a well-formed message whose prefix arrives in one chunk is
\* delivered.
DeliveredSigned == first >= PrefixSize /\ WellFormed => ~invalid /\ Data = Payload
=============================================================================
