------------------------- MODULE ExpressionsMeaning -------------------------
(* What an expression means, whatever the way it is read: a tree of         *)
(* operations, the text a person writes for it with no parenthesis that the *)
(* usual priorities make needless, and its value.                           *)
EXTENDS Expressions

Leaf(t) == << "leaf", t >>
Node(s, a, b) == << "node", s, a, b >>
Negation(a) == << "not", a >>

LevelOf(s) ==
    CASE s = "|" -> 1 [] s = "^" -> 2 [] s = "&" -> 3 [] s \in {"+", "-"} -> 4 [] s \in {"*", "/", "%"} -> 5

(* The text of a tree, in a place that takes the operations of at least     *)
(* this level.                                                              *)
RECURSIVE Written(_, _)
Written(tree, level) ==
    IF tree[1] = "leaf" THEN << tree[2] >>
    ELSE IF tree[1] = "not" THEN << Sign("!") >> \o Written(tree[2], TermLevel)
    ELSE LET l    == LevelOf(tree[2])
             body == Written(tree[3], l) \o << Sign(tree[2]) >> \o Written(tree[4], l + 1)
         IN  IF l >= level THEN body ELSE << Sign("(") >> \o body \o << Sign(")") >>

RECURSIVE Meaning(_, _)
Meaning(tree, m) ==
    IF tree[1] = "leaf" THEN Value(tree[2], m)
    ELSE IF tree[1] = "not" THEN IF Meaning(tree[2], m) = 0 THEN 1 ELSE 0
    ELSE Operation(tree[2], Meaning(tree[3], m), Meaning(tree[4], m))

RECURSIVE ByZero(_, _)
ByZero(tree, m) ==
    CASE tree[1] = "leaf" -> FALSE
      [] tree[1] = "not"  -> ByZero(tree[2], m)
      [] OTHER -> \/ tree[2] \in {"/", "%"} /\ Meaning(tree[4], m) = 0
                  \/ ByZero(tree[3], m)
                  \/ ByZero(tree[4], m)

-----------------------------------------------------------------------------
CONSTANTS Trees,   \* the trees that are written for an operate block
          Compared \* the comparisons that are written: a sign and two trees

Target == Var(0)
Operate(tree) == << Target, Sign(":=") >> \o Written(tree, 1)
Compare(c) == Written(c.a, 1) \o << Sign(c.s) >> \o Written(c.b, 1)

Written1 == [tree \in Trees |-> Operate(tree)]
Written2 == [c \in Compared |-> Compare(c)]
TreeOf == [t \in Range(Written1) |-> CHOOSE tree \in Trees : Written1[tree] = t]
ComparedOf == [t \in Range(Written2) |-> CHOOSE c \in Compared : Written2[c] = t]

-----------------------------------------------------------------------------
(* A text that was accepted, with the values the words had when it was      *)
(* typed, is read to its end without an error whatever they become.         *)
AcceptedEvaluates == end \in {"ok", "trap"}

(* A block gives the value its expression has with the usual priorities,    *)
(* from the left to the right: an operate block stores it and marks a       *)
(* division by zero, a compare block is on when the values are in order.    *)
Stores(tree) ==
    /\ mem' = [mem EXCEPT ![FinalVar(Target, mem)] = Meaning(tree, mem)]
    /\ sys'.s7 = (sys.s7 \/ ByZero(tree, mem))
Orders(c) == (state' = 1) = Holds(c.s, Meaning(c.a, mem), Meaning(c.b, mem))
UsualMeaning ==
    [][ Process /\ end' = "ok" =>
          /\ block = "operate" /\ text \in DOMAIN TreeOf => Stores(TreeOf[text])
          /\ block = "compare" /\ text \in DOMAIN ComparedOf => Orders(ComparedOf[text]) ]_vars

(* The words, and the mark of a division by zero, change in the program and *)
(* by hand: never because a text that divides by zero is verified.          *)
VerifyIsSilent ==
    [][ mem' # mem \/ sys'.s7 # sys.s7 =>
          Process \/ ClearError \/ \E a \in Operands : \E v \in Values[a] : WriteWord(a, v) ]_vars
=============================================================================
