--------------------------- MODULE RegistersStore ---------------------------
(* The register blocks implement the bounded store of BoundedStore.        *)
EXTENDS Registers

(* The index of the k-th oldest value of a register, where the evaluations *)
(* to come will read it.                                                   *)
Slot(q, k) ==
    IF q.latest + k - 1 > Size THEN q.latest + k - 2 - Size ELSE q.latest + k - 1

(* What register r in state q holds in the array mem, oldest value first.  *)
Held(r, q, mem) == [k \in 1 .. q.saved |-> mem[Cell(r, Slot(q, k))]]

Content(r) == Held(r, reg[r], cells)

Stores ==
    INSTANCE BoundedStore WITH
        Stores <- Regs, Capacity <- Size, content <- [r \in Regs |-> Content(r)],
        out <- [r \in Regs |-> reg[r].out], mode <- [r \in Regs |-> reg[r].mode]

(* Every change of a regular register is a step of a bounded store on what *)
(* it holds then: in particular a FIFO gives back the values in the order  *)
(* they came and a LIFO in the reverse order, and none is lost or given    *)
(* twice. What the register before does to its cells in between is the     *)
(* subject of ForeignWrites.                                               *)
RegistersImplementStores ==
    [][\A r \in Regs : Regular(r)' /\ reg'[r] # reg[r] => Stores!Use(r)]_vars

(* So a register without neighbours is a bounded store at every step.      *)
LoneRegisterIsStore ==
    [][\A r \in Regs : Regular(r)' => Stores!Use(r) \/ Stores!Same(r)]_vars
=============================================================================
