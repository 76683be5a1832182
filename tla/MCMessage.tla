------------------------------ MODULE MCMessage -----------------------------
(* Message with bytes of four values: the lengths 8 and 9 set the top bit  *)
(* of the third length byte.                                               *)
EXTENDS Message

MCLengths == {0, 1, 3, 4, 7, 8, 9}
=============================================================================
