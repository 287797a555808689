----------------------------- MODULE Expressions ----------------------------
(* The arithmetic expressions of the compare and operate blocks             *)
(* (arithm_eval.c).  An expression is a sequence of tokens: a variable, a   *)
(* constant, the name of a function, or a sign.  The recursive descent of   *)
(* the code is kept function by function: Expr, the global pointer to the   *)
(* rest of the text, is the field "at" of a result; ErrorDesc, the global   *)
(* error, is "end"; the system bits it writes are "s7" and "s8".            *)
(*                                                                          *)
(* The interface verifies the text an operator types by evaluating it in    *)
(* verify mode; the logic task evaluates what was accepted in each scan.    *)
EXTENDS Integers, Sequences, FiniteSets, FiniteSetsExt, SequencesExt, Bitwise

CONSTANTS Width,   \* bits of an integer: 32 in the code
          MemSize, \* cells of VarWordArray that an expression may reach
          Texts,   \* the texts an operator may type
          Operands, Values, \* the words that change, and what each of them becomes
          Once     \* TRUE bounds the run: a block that has an expression keeps it

ASSUME ExpressionsAssumption ==
    Width \in Nat /\ Width >= 4 /\ MemSize \in Nat \ {0}

Half == 2 ^ (Width - 1)
Wrap(n) == ((n + Half) % (2 * Half)) - Half
Pattern(n) == n % (2 * Half)

(* A token; a variable has an offset and the offset of its index, or -1. A  *)
(* '-' with no digit after it, that the code reads as the constant 0 where  *)
(* it waits for one, is left out.                                           *)
Sign(s) == [k |-> s, n |-> 0, x |-> -1]
Const(v) == [k |-> "const", n |-> v, x |-> -1]
Var(a) == [k |-> "var", n |-> a, x |-> -1]
Indexed(a, b) == [k |-> "var", n |-> a, x |-> b]
End == Sign("end")

-----------------------------------------------------------------------------
(* Division of C: towards zero.                                             *)
Magnitude(n) == IF n < 0 THEN -n ELSE n
Quotient(a, b) ==
    LET q == Magnitude(a) \div Magnitude(b)
    IN  IF (a < 0) = (b < 0) THEN Wrap(q) ELSE -q
Remainder(a, b) ==
    LET r == Magnitude(a) % Magnitude(b) IN IF a < 0 THEN -r ELSE r

(* Repeated products; an exponent below 2 leaves the number as it is, and   *)
(* only an exponent of 0 gives 1.                                           *)
PowInt(a, b) ==
    IF b = 0 THEN 1
    ELSE LET p[x \in Nat] == IF x <= 1 THEN a ELSE Wrap(p[x - 1] * a) IN p[b]

(* The sign of an operation, at the level of priority where it is read.     *)
SignsOfFourLevels == << {"|"}, {"^"}, {"&"}, {"+", "-", "%"}, {"*", "/"} >>
Signs == << {"|"}, {"^"}, {"&"}, {"+", "-"}, {"*", "/", "%"} >>
TermLevel == 6

Operation(s, a, b) ==
    CASE s = "|" -> Wrap(Pattern(a) | Pattern(b))
      [] s = "^" -> Wrap(Pattern(a) ^^ Pattern(b))
      [] s = "&" -> Wrap(Pattern(a) & Pattern(b))
      [] s = "+" -> Wrap(a + b)
      [] s = "-" -> Wrap(a - b)
      [] s = "*" -> Wrap(a * b)
      [] s = "/" -> IF b = 0 THEN 0 ELSE Quotient(a, b)
      [] s = "%" -> IF b = 0 THEN 0 ELSE Remainder(a, b)

(* SHL, SHR and the rotations.  A rotation puts one bit back, whatever the  *)
(* number of bits asked for.                                                *)
ShiftLeft(a, i, rotate) ==
    LET r == Pattern(a * 2 ^ i)
    IN  Wrap(IF rotate /\ a < 0 THEN r | 1 ELSE r)
ShiftRight(a, i, rotate) ==
    LET r == (a \div 2 ^ i) % Half
    IN  Wrap(IF rotate /\ a % 2 = 1 THEN r + Half ELSE r)

-----------------------------------------------------------------------------
(* The value of a variable: its offset, plus the content of its index.      *)
(* There is no test of the bounds: a large offset is a neighbour's cell.    *)
FinalVar(t, m) == t.n + (IF t.x = -1 THEN 0 ELSE m[t.x])
Value(t, m) == IF t.k = "var" THEN m[FinalVar(t, m)] ELSE t.n

(* "lost" is a loop that never ends or leaves the text; "trap", the least   *)
(* integer divided by -1, which stops the program.                          *)
Ends == << "ok", "error", "lost", "trap" >>
Worse(e) == CHOOSE i \in DOMAIN Ends : Ends[i] = e
Results == [v : Int, at : Nat, end : Range(Ends), s7 : BOOLEAN, s8 : {-1, 0, 1}]
Start(i) == [v |-> 0, at |-> i, end |-> "ok", s7 |-> FALSE, s8 |-> -1]
Tok(t, i) == IF i \in DOMAIN t THEN t[i] ELSE End
Fail(r) == [r EXCEPT !.end = IF @ = "ok" THEN "error" ELSE @]
FailWithNothing(r) == [Fail(r) EXCEPT !.v = 0]
Lost(r) == [r EXCEPT !.end = "lost"]
Skip(r, n) == [r EXCEPT !.at = @ + n]

IsParam(t) == t.k \in {"var", "const"}
Functions1 == {"ABS"}
FunctionsMany == {"MINI", "MAXI", "AVG"}
Functions2 == {"POW", "SHL", "ROL", "SHR", "ROR"}
FunctionNames == Functions1 \union FunctionsMany \union Functions2

(* The parameters after the name at i, one token each: whatever token       *)
(* follows one is skipped as the separator, unless it closes the call or    *)
(* the function has all those it takes.  Without a closing parenthesis the  *)
(* loop leaves the text.                                                    *)
Params(t, i, limit, m) ==
    LET Read[j \in Nat, p \in Seq(Int), good \in BOOLEAN] ==
            LET u    == Tok(t, j + 1)
                q    == Append(p, IF IsParam(u) THEN Value(u, m) ELSE 0)
                at   == IF IsParam(u) THEN j + 2 ELSE j + 1
                ok   == good /\ IsParam(u)
            IN  IF Tok(t, at).k = ")" \/ Len(q) = limit
                  THEN [p |-> q, at |-> at, end |-> IF ok THEN "ok" ELSE "error"]
                ELSE IF at > Len(t) THEN [p |-> q, at |-> at, end |-> "lost"]
                ELSE Read[at, q, ok]
    IN  Read[i + 1, << >>, TRUE]

ManyResult(name, p) ==
    CASE name = "MINI" -> Min({p[j] : j \in DOMAIN p})
      [] name = "MAXI" -> Max({p[j] : j \in DOMAIN p})
      [] name = "AVG"  -> Quotient(FoldLeft(LAMBDA a, b : Wrap(a + b), 0, p), Len(p))

(* A shift by less than nothing or by more than the width is undefined in   *)
(* C; Texts has none.                                                       *)
TwoResult(name, a, b) ==
    CASE name = "POW" -> PowInt(a, b)
      [] name \in {"SHL", "ROL"} -> ShiftLeft(a, b, name = "ROL")
      [] name \in {"SHR", "ROR"} -> ShiftRight(a, b, name = "ROR")
BitOut(name, a) ==
    CASE name = "POW" -> -1
      [] name \in {"SHL", "ROL"} -> IF a < 0 THEN 1 ELSE 0
      [] name \in {"SHR", "ROR"} -> a % 2

(* Function(): the system bit 8 is written in verify mode as well.          *)
Called(name, p, q) ==
    IF name \in Functions1 THEN [q EXCEPT !.v = Wrap(Magnitude(p[1]))]
    ELSE IF name \in FunctionsMany THEN [q EXCEPT !.v = ManyResult(name, p)]
    ELSE [q EXCEPT !.v = TwoResult(name, p[1], IF Len(p) < 2 THEN 0 ELSE p[2]),
                   !.s8 = IF BitOut(name, p[1]) = -1 THEN @ ELSE BitOut(name, p[1])]
AfterParams(t, r, name, call) ==
    IF call.end = "lost" THEN Lost(r)
    ELSE IF Tok(t, call.at).k # ")" THEN FailWithNothing([r EXCEPT !.at = call.at])
    ELSE Called(name, call.p, [r EXCEPT !.at = call.at + 1, !.end = call.end])
Limit(name) == IF name \in Functions1 THEN 1 ELSE IF name \in Functions2 THEN 2 ELSE 0
Function(t, m, r) ==
    AfterParams(t, r, Tok(t, r.at).k, Params(t, r.at, Limit(Tok(t, r.at).k), m))

(* Or, Xor, And, AddSub, MulDivMod and Term call each other.  "first" reads *)
(* the first operand of a level, "more" is its loop: it ends at an error or *)
(* at a sign of another level.  A division by zero gives 0, and sets the    *)
(* system bit 7 unless the text is only verified.                           *)
Combined(s, r, q, verify) ==
    LET divides == s \in {"/", "%"}
    IN  IF divides /\ q.end # "ok" THEN [q EXCEPT !.v = r.v]
        ELSE [q EXCEPT !.v = Operation(s, r.v, @),
                       !.end = IF divides /\ r.v = -Half /\ q.v = -1 THEN "trap" ELSE @,
                       !.s7 = @ \/ (divides /\ q.v = 0 /\ ~verify)]
Closed(t, q) == IF Tok(t, q.at).k = ")" THEN Skip(q, 1) ELSE Skip(Fail(q), 1)
Negated(q) == [q EXCEPT !.v = IF @ = 0 THEN 1 ELSE 0]
Evaluate(t, m, verify) ==
    LET Go[k \in {"first", "more"}, l \in 1 .. TermLevel, r \in Results] ==
            LET tok  == Tok(t, r.at)
            IN  IF l < TermLevel /\ k = "first" THEN Go["more", l, Go["first", l + 1, r]]
                ELSE IF l < TermLevel /\ (r.end # "ok" \/ tok.k \notin Signs[l]) THEN r
                ELSE IF l < TermLevel THEN
                    Go["more", l, Combined(tok.k, r, Go["first", l + 1, Skip(r, 1)], verify)]
                ELSE IF tok.k = "(" THEN Closed(t, Go["first", 1, Skip(r, 1)])
                ELSE IF tok.k = "const" THEN [Skip(r, 1) EXCEPT !.v = tok.n]
                ELSE IF tok.k \in FunctionNames THEN Function(t, m, r)
                ELSE IF tok.k = "var" THEN [Skip(r, 1) EXCEPT !.v = Value(tok, m)]
                ELSE IF tok.k = "!" THEN Negated(Go["first", TermLevel, Skip(r, 1)])
                ELSE FailWithNothing(r)
    IN  Go["first", 1, Start(1)]

(* The whole text has to be read.                                           *)
Whole(t, r) == IF r.end = "ok" /\ Tok(t, r.at) # End THEN Fail(r) ELSE r
EvalExpressionHalf(t, m, verify) ==
    IF verify THEN Evaluate(t, m, verify) ELSE Whole(t, Evaluate(t, m, verify))
EvalExpressionMarks(t, m, verify) == Whole(t, Evaluate(t, m, FALSE))
EvalExpression(t, m, verify) == Whole(t, Evaluate(t, m, verify))

(* The first sign of comparison cuts the text in two.  Each side clears the *)
(* error of the other, but not the error a verification keeps.              *)
Comparisons == {"<", ">", "=", "<=", ">=", "<>", ":="}
Holds(s, a, b) ==
    CASE s = "<" -> a < b [] s = ">" -> a > b [] s \in {"=", ":="} -> a = b
      [] s = "<=" -> a <= b [] s = ">=" -> a >= b [] s = "<>" -> a # b
InOrder(s, a, b, length) ==
    LET ends == {a.end, b.end} \union (IF s = ":=" THEN {"error"} ELSE {})
    IN  [v |-> IF Holds(s, a.v, b.v) THEN 1 ELSE 0, at |-> length + 1,
         end |-> CHOOSE e \in ends : \A f \in ends : Worse(e) >= Worse(f),
         s7 |-> a.s7 \/ b.s7, s8 |-> IF b.s8 = -1 THEN a.s8 ELSE b.s8]
CompareAt(t, cut, m, verify) ==
    InOrder(t[cut].k, EvalExpression(SubSeq(t, 1, cut - 1), m, verify),
              EvalExpression(SubSeq(t, cut + 1, Len(t)), m, verify), Len(t))
EvalCompare(t, m, verify) ==
    LET cuts == {i \in DOMAIN t : t[i].k \in Comparisons}
    IN  IF cuts = {} THEN Fail(Start(1)) ELSE CompareAt(t, Min(cuts), m, verify)

(* A target, an assignment and an expression.  Between the two first, the   *)
(* loop only goes forward over the signs of an assignment: another          *)
(* character, and it never ends.                                            *)
MakeCalc(t, m, verify) ==
    IF Tok(t, 1).k # "var" THEN Fail(Start(1))
    ELSE IF Len(t) = 1 THEN Fail(Start(2))
    ELSE IF t[2].k \notin {":=", "="} THEN Lost(Start(2))
    ELSE EvalExpression(SubSeq(t, 3, Len(t)), m, verify)

Run(b, t, m, verify) == IF b = "compare" THEN EvalCompare(t, m, verify) ELSE MakeCalc(t, m, verify)

-----------------------------------------------------------------------------
VARIABLES block, \* the block that holds the expression: "compare" or "operate"
          text,  \* its expression, << >> when there is none
          mem,   \* VarWordArray
          sys,   \* the system bits 7 and 8
          state, \* the state a compare block was given
          end,   \* how the last evaluation by the logic task ended
          gtk    \* "free", or "stuck" in a verification that never returns

vars == << block, text, mem, sys, state, end, gtk >>

SysAfter(r) == [s7 |-> sys.s7 \/ r.s7, s8 |-> IF r.s8 = -1 THEN sys.s8 ELSE r.s8]

Init ==
    /\ block \in {"compare", "operate"}
    /\ text = << >>
    /\ mem = [a \in 0 .. MemSize - 1 |-> 0]
    /\ sys = [s7 |-> FALSE, s8 |-> 0]
    /\ state = 0
    /\ end = "ok"
    /\ gtk = "free"

Verified(t, r) ==
    /\ text' = IF r.end = "ok" THEN t ELSE text
    /\ gtk' = IF r.end = "lost" THEN "stuck" ELSE "free"
    /\ end' = IF r.end = "trap" THEN "trap" ELSE end
    /\ sys' = SysAfter(r)
Evaluated(r) ==
    /\ end' = r.end
    /\ sys' = SysAfter(r)
    /\ state' = IF block = "compare" THEN r.v ELSE state
    /\ mem' = IF block = "compare" \/ r.end \in {"lost", "trap"} THEN mem
              ELSE [mem EXCEPT ![FinalVar(text[1], mem)] = r.v]

(* An operator types a text: it becomes the expression when its             *)
(* verification gives no error.                                             *)
Type(t) ==
    /\ gtk = "free" /\ end # "trap"
    /\ Once => text = << >>
    /\ Verified(t, Run(block, t, mem, TRUE))
    /\ UNCHANGED << block, mem, state >>

(* The logic task evaluates the block.                                      *)
Process ==
    /\ text # << >> /\ end # "trap"
    /\ Evaluated(Run(block, text, mem, FALSE))
    /\ UNCHANGED << block, text, gtk >>

(* The program or an operator changes a word, or clears the error bit.      *)
WriteWord(a, v) ==
    /\ mem' = [mem EXCEPT ![a] = v]
    /\ UNCHANGED << block, text, sys, state, end, gtk >>
ClearError ==
    /\ sys.s7
    /\ sys' = [sys EXCEPT !.s7 = FALSE]
    /\ UNCHANGED << block, text, mem, state, end, gtk >>

Next ==
    \/ \E t \in Texts : Type(t)
    \/ Process
    \/ \E a \in Operands : \E v \in Values[a] : WriteWord(a, v)
    \/ ClearError

Spec == Init /\ [][Next]_vars
=============================================================================
