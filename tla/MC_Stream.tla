------------------------------- MODULE MC_Stream -------------------------------
(* Stream on small instances. *)
EXTENDS Stream

CONSTANTS r1, r2
=============================================================================
