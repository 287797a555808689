----------------------------- MODULE RungChains -----------------------------
(* What the rungs and the sections promise the engine: every section in    *)
(* ladder is a sequence of rungs, no rung is in two of them, and an        *)
(* operation of the editor or of the sections manager changes one rung of  *)
(* one sequence, or one sequence, at a time. The links through which the   *)
(* code keeps these sequences, and the order it writes them in, are those  *)
(* of Program, which implements this module while the engine refreshes.    *)
EXTENDS Naturals, SequencesExt
CONSTANTS Rungs, Sections

VARIABLE chains   \* the rungs of a section, in the order of their refresh

Free(r) == \A s \in Sections : ~ Contains(chains[s], r)

Init ==
    \E s \in Sections, r \in Rungs :
        chains = [t \in Sections |-> IF t = s THEN << r >> ELSE << >>]

AddRung(s, i, r) ==
    /\ chains[s] # << >> /\ Free(r)
    /\ chains' = [chains EXCEPT ![s] = InsertAt(@, i, r)]

DeleteRung(s, i) ==
    /\ Len(chains[s]) > 1
    /\ chains' = [chains EXCEPT ![s] = RemoveAt(@, i)]

(* A new section starts with one rung. *)
AddSection(s, r) ==
    /\ chains[s] = << >> /\ Free(r)
    /\ chains' = [chains EXCEPT ![s] = << r >>]

DelSection(s) == chains' = [chains EXCEPT ![s] = << >>]

SwapSections(s, t) == chains' = [chains EXCEPT ![s] = chains[t], ![t] = chains[s]]

Change ==
    \/ \E s \in Sections, r \in Rungs :
          \/ \E i \in 1 .. Len(chains[s]) + 1 : AddRung(s, i, r)
          \/ AddSection(s, r)
    \/ \E s \in Sections :
          \/ \E i \in DOMAIN chains[s] : DeleteRung(s, i)
          \/ DelSection(s)
          \/ \E t \in Sections : SwapSections(s, t)

Next == chains' # chains /\ Change

Spec == Init /\ [][Next]_chains

(* What any step of whatever holds the sequences does to them. *)
Step == chains' # chains => Change
=============================================================================
