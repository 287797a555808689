---------------------------- MODULE ProgramChains ---------------------------
(* The rungs and sections of Program implement the sequences of            *)
(* RungChains, seen as the engine sees them: from the FirstRung of a       *)
(* section through NextRung to its LastRung, at every single write.        *)
EXTENDS Program

Chains == INSTANCE RungChains WITH chains <- [s \in Sections |-> Chain(s)]

(* Each write of the editor, on an engine that may be running, leaves the  *)
(* sequences as they are or does the whole operation at once: a refresh    *)
(* sees a rung linked in or not, never half of it (edit.c:979-983). It is  *)
(* Chains!Spec, with the subscript that TLC compares the fastest: the      *)
(* links and the sections, which the sequences are read from.              *)
ChainsImplemented == Chains!Init /\ [][Chains!Step]_<< next, sections >>
=============================================================================
