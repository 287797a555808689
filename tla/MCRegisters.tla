----------------------------- MODULE MCRegisters -----------------------------
(* Two registers side by side, of which the first reaches a cell of the    *)
(* second.                                                                 *)
EXTENDS RegistersStore

(* Two states that differ only in what no evaluation of a regular register *)
(* depends on are the same for TLC: the outputs, and the values that no    *)
(* regular register holds. A register that is not one and is not empty     *)
(* comes back to be regular by a reset only, which forgets what it held.   *)
Seen ==
    [r \in Regs |->
        LET q == reg[r]
        IN << tainted[r], q.mode, q.saved, q.first, q.latest, q.inBak, q.outBak,
              IF Regular(r) THEN Content(r) ELSE << >> >>]
=============================================================================
