------------------------------ MODULE MCProgram -----------------------------
(* The program of two or three rungs that an operator grows, edits and     *)
(* deletes, in two sections, while it is refreshed.                        *)
EXTENDS ProgramChains

(* Two states that differ only in what the code writes before it reads it  *)
(* again are the same for TLC: the links and the coil of a rung that is    *)
(* neither used nor under refresh, the ends of an unused section, and the  *)
(* count of the edits of a scan that is over.                              *)
Live(r) == used[r] \/ \E i \in DOMAIN stack : stack[i].rung = r
Seen ==
    << used, [r \in Rungs |-> IF Live(r) THEN << next[r], prev[r], coil[r] >> ELSE << >>],
       [s \in Sections |-> IF sections[s].used THEN sections[s] ELSE [sub |-> sections[s].sub]],
       infos, edit, op, running, task, IF at = "idle" THEN 0 ELSE edits >>
=============================================================================
