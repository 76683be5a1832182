------------------------------ MODULE MCH2Conn ------------------------------
(* H2Conn on small instances.                                              *)
EXTENDS H2Conn
=============================================================================
