---------------------------- MODULE MCExpressions ---------------------------
(* All the expressions of three operands and two operations, those with a   *)
(* negation, an index or a function, the comparisons, and texts with a      *)
(* mistake, on 8-bit integers.                                              *)
EXTENDS ExpressionsMeaning

Ops == UNION Range(Signs)
A == Leaf(Var(1))
B == Leaf(Var(2))
C == Leaf(Const(-2))

X == Leaf(Indexed(0, 3))

(* The word 3 is an index: it stays inside the memory.                      *)
MCOperands == {1, 2, 3}
MCValues == [a \in MCOperands |-> IF a = 3 THEN {0, 1} ELSE {0, 1, -4, 127}]

MCTrees ==
    {Node(o, Node(p, A, B), C) : o \in Ops, p \in Ops}
    \union {Node(o, C, Node(p, A, B)) : o \in Ops, p \in Ops}
    \union {Node(o, Negation(A), B) : o \in Ops}
    \union {Negation(Node(o, B, A)) : o \in Ops}
    \union {Node(o, X, B) : o \in Ops}
    \union {Node("-", A, Node("*", Negation(Negation(B)), Node("-", B, A)))}
MCCompared == [s : Comparisons \ {":="}, a : {A, Node("-", A, B)}, b : {B, Node("*", B, C)}]

Call(name, params) ==
    << Var(0), Sign(":="), Sign(name), Sign("(") >>
      \o FoldLeft(LAMBDA s, p : s \o (IF s = << >> THEN << >> ELSE << Sign(",") >>) \o << p >>, << >>, params)
      \o << Sign(")") >>
Calls ==
    {Call(f, << Var(1) >>) : f \in FunctionNames}
    \union {Call(f, << Var(1), Const(2) >>) : f \in FunctionNames}
    \union {Call(f, << Var(2), Var(1), Const(-3) >>) : f \in FunctionNames}
    \union {Call(f, << >>) : f \in FunctionNames}

Mistakes ==
    { << >>, << Var(0) >>, << Const(1), Sign(":="), Const(2) >>, << Var(0), Sign(":=") >>,
      << Var(0), Sign(":="), Sign("("), Var(1) >>, << Var(0), Sign(":="), Var(1), Sign(")") >>,
      << Var(0), Sign(":="), Var(1), Var(2) >>, << Var(0), Sign(":="), Sign("+"), Var(1) >>,
      << Var(0), Sign(":="), Var(1), Sign("/"), Sign("/"), Var(2) >>, << Var(1), Sign("<"), Sign(">") >>,
      << Sign("("), Var(1), Sign("<"), Var(2), Sign(")") >> }

MCTexts == {Operate(tree) : tree \in MCTrees} \union {Compare(c) : c \in MCCompared} \union Calls \union (Mistakes \ {<< >>})
=============================================================================
