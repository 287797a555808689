--------------------------- MODULE MCModbusMaster ---------------------------
(* Two slaves; the first has two requests in a row, and one entry of the   *)
(* table is empty.                                                         *)
EXTENDS ModbusMaster, TLC

TableSlaves == (0 :> "s1") @@ (1 :> "s1") @@ (2 :> None) @@ (3 :> "s2")
TableKinds == (0 :> "read") @@ (1 :> "write") @@ (2 :> "read") @@ (3 :> "read")
ManyKinds == (0 :> "read") @@ (1 :> "writeMany") @@ (2 :> "read") @@ (3 :> "read")
=============================================================================
