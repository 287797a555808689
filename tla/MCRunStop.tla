----------------------------- MODULE MCRunStop -----------------------------
(* A small instance of RunStop: both tasks and one operator thread, every  *)
(* order, both settings of the real inputs/outputs.                        *)
EXTENDS RunStop
=============================================================================
