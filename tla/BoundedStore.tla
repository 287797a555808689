---------------------------- MODULE BoundedStore ----------------------------
(* What the register blocks promise to the program that uses them: each is *)
(* a store of at most Capacity values. One scan may put a value in, take   *)
(* one out (the oldest of a FIFO, the newest of a LIFO) and clear the      *)
(* store, in this order; a full store ignores a put and an empty one a     *)
(* take. A store never changes another one.                                *)
EXTENDS Integers, Sequences, SequencesExt
CONSTANTS Stores, Capacity, Values

VARIABLES content, out, mode    \* of each store

vars == << content, out, mode >>

Put(c, put, v) == IF put /\ Len(c) < Capacity THEN Append(c, v) ELSE c

Taken(s, c) == IF mode[s] = "FIFO" THEN Head(c) ELSE Last(c)

Rest(s, c) == IF mode[s] = "FIFO" THEN Tail(c) ELSE Front(c)

(* One evaluation of the block. *)
Step(s, put, take, clear, v) ==
    LET c == Put(content[s], put, v)
        taking == take /\ c # << >>
    IN  /\ content'[s] = IF clear THEN << >> ELSE IF taking THEN Rest(s, c) ELSE c
        /\ out'[s] = IF clear THEN 0 ELSE IF taking THEN Taken(s, c) ELSE out[s]
        /\ mode'[s] = mode[s]

Kept(s) == content'[s] = content[s] /\ out'[s] = out[s]

(* The mode of an empty store can be chosen again. *)
Choose(s, m) == content[s] = << >> /\ mode'[s] = m /\ Kept(s)

Use(s) ==
    \/ \E put, take, clear \in BOOLEAN, v \in Values : Step(s, put, take, clear, v)
    \/ \E m \in {"FIFO", "LIFO"} : Choose(s, m)

Same(s) == Kept(s) /\ mode'[s] = mode[s]

Init ==
    /\ content = [s \in Stores |-> << >>]
    /\ out = [s \in Stores |-> 0]
    /\ mode \in [Stores -> {"FIFO", "LIFO"}]

Next == \A s \in Stores : Use(s) \/ Same(s)

Spec == Init /\ [][Next]_vars
=============================================================================
