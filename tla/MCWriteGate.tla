----------------------------- MODULE MCWriteGate -----------------------------
(* A TLC instance of WriteGate: three paths. *)
EXTENDS WriteGate

MCPath3 == 1..3
=============================================================================
