------------------------------ MODULE Conditions ------------------------------
(***************************************************************************)
(* What becomes of a WHERE clause: the PostgreSQL parse tree is translated *)
(* to an AST (Parser), the AST is bound (Binder), and the bound expression *)
(* is evaluated on each row.  NoExpr is the null pointer that each stage   *)
(* returns for what it does not know; the next stage goes on with it.      *)
(*                                                                         *)
(* The table has one nullable integer column x.                            *)
(***************************************************************************)
EXTENDS Values, Sequences, FiniteSets

-----------------------------------------------------------------------------
(* Parse trees, as the grammar of the vendored libpg_query builds them *)

Column(name) == [kind |-> "column", name |-> name]
Const(val) == [kind |-> "const", val |-> val]
Param == [kind |-> "param"]                       \* $1
CaseExpr == [kind |-> "case"]                     \* CASE, a subquery, a cast
Compare(op, l, r) == [kind |-> "compare", op |-> op, l |-> l, r |-> r]
NullTest(e, is_not) == [kind |-> "nulltest", e |-> e, is_not |-> is_not]
In(e, list, op) == [kind |-> "in", e |-> e, list |-> list, op |-> op]   \* NOT IN has op <>
Between(e, lo, hi) == [kind |-> "between", e |-> e, lo |-> lo, hi |-> hi]
Not(e) == [kind |-> "not", e |-> e]
BoolExpr(op, args) == [kind |-> "bool", op |-> op, args |-> args]

Present(es) == SelectSeq(es, LAMBDA e : e # NoExpr)

\* AND and OR chain their arguments from the left.
Chain(op, args) ==
    LET RECURSIVE Upto(_)
        Upto(n) == IF n = 1 THEN args[1]
                   ELSE [kind |-> "binary", op |-> op, l |-> Upto(n - 1), r |-> args[n]]
    IN  IF args = <<>> THEN NoExpr ELSE Upto(Len(args))

\* Parser::TranslateExpression.  The operator of IN is not looked at, so is_not stays
\* false; BETWEEN becomes a function call; an argument of AND or OR that cannot be
\* translated is left out.
RECURSIVE Translate(_)
Translate(e) ==
    CASE e.kind = "param" -> NoExpr
      [] e.kind = "compare" -> Compare(e.op, Translate(e.l), Translate(e.r))
      [] e.kind = "nulltest" -> NullTest(Translate(e.e), e.is_not)
      [] e.kind = "in" ->
            [kind |-> "inlist", e |-> Translate(e.e), is_not |-> FALSE,
             list |-> Present([i \in DOMAIN e.list |-> Translate(e.list[i])])]
      [] e.kind = "between" -> [kind |-> "call"]
      [] e.kind = "not" -> Not(Translate(e.e))
      [] e.kind = "bool" -> Chain(e.op, Present([i \in DOMAIN e.args |-> Translate(e.args[i])]))
      [] OTHER -> e

\* Binder::BindExpression.  IN becomes a chain of comparisons.
RECURSIVE BindExpression(_)
BindExpression(e) ==
    CASE e.kind = "column" -> IF e.name = "x" THEN e ELSE NoExpr
      [] e.kind = "compare" -> Compare(e.op, BindExpression(e.l), BindExpression(e.r))
      [] e.kind = "binary" -> [e EXCEPT !.l = BindExpression(@), !.r = BindExpression(@)]
      [] e.kind = "not" -> Not(BindExpression(e.e))
      [] e.kind = "nulltest" -> NullTest(BindExpression(e.e), e.is_not)
      [] e.kind = "inlist" ->
            LET left == BindExpression(e.e)
                op == IF e.is_not THEN "<>" ELSE "="
            IN  IF left = NoExpr THEN NoExpr
                ELSE Chain(IF e.is_not THEN "AND" ELSE "OR",
                           [i \in DOMAIN e.list |-> Compare(op, left, BindExpression(e.list[i]))])
      [] e.kind \in {"case", "none"} -> NoExpr
      [] OTHER -> e

\* What the operators of Value say of two numbers.  They compare them as doubles, which
\* is exact as far as the integers that a double holds (2^53).
Holds(op, l, r) == CASE op = "="  -> l = r [] op = "<>" -> l # r [] op = "<"  -> l < r
                     [] op = ">"  -> l > r [] op = "<=" -> l <= r [] op = ">=" -> l >= r

\* Mutant: NULL differs from everything
CompareNullDiffers(op, lv, rv) ==
    Bool(IF lv = Null \/ rv = Null THEN op = "<>" ELSE Holds(op, lv.v, rv.v))

\* BoundComparison::Evaluate on two values
CompareValues(op, lv, rv) ==
    Bool(IF lv = Null \/ rv = Null THEN FALSE ELSE Holds(op, lv.v, rv.v))

\* BoundBinaryOp::Evaluate for AND and OR, which are both NULL if an operand is
LogicOf(op, lv, rv) ==
    IF lv = Null \/ rv = Null THEN Null
    ELSE IF lv.type # "BOOLEAN" \/ rv.type # "BOOLEAN" THEN Crash
    ELSE Bool(IF op = "AND" THEN lv.v = 1 /\ rv.v = 1 ELSE lv.v = 1 \/ rv.v = 1)

\* BoundUnaryOp::Evaluate for NOT
NotOf(val) ==
    IF val = Null THEN Null ELSE IF val.type # "BOOLEAN" THEN Crash ELSE Bool(val.v = 0)

\* BoundExpression::Evaluate on a row whose x is the value x
RECURSIVE Evaluate(_, _)
Evaluate(e, x) ==
    CASE e.kind = "none" -> Crash
      [] e.kind = "column" -> x
      [] e.kind = "const" -> e.val
      [] e.kind = "call" -> Null
      [] e.kind = "not" -> LET val == Evaluate(e.e, x) IN IF val = Crash THEN Crash ELSE NotOf(val)
      [] e.kind = "nulltest" ->
            LET val == Evaluate(e.e, x)
            IN  IF val = Crash THEN Crash ELSE Bool((val = Null) # e.is_not)
      [] e.kind \in {"compare", "binary"} ->
            LET lv == Evaluate(e.l, x)
                rv == Evaluate(e.r, x)
            IN  IF Crash \in {lv, rv} THEN Crash
                ELSE IF e.kind = "compare" THEN CompareValues(e.op, lv, rv)
                ELSE LogicOf(e.op, lv, rv)
-----------------------------------------------------------------------------
(* The meaning SQL gives a parse tree: true, false or unknown *)

Known(b) == IF b THEN "true" ELSE "false"

Negation(t) == CASE t = "true" -> "false" [] t = "false" -> "true" [] OTHER -> t

\* The value of a comparison's operand
Operand(e, x) == IF e.kind = "column" THEN x ELSE e.val

CompareSQL(op, lv, rv) ==
    IF lv = Null \/ rv = Null THEN "unknown" ELSE Known(Holds(op, lv.v, rv.v))

Conjunction(ts) == IF "false" \in ts THEN "false" ELSE IF "unknown" \in ts THEN "unknown" ELSE "true"

RECURSIVE MeaningSQL(_, _)
MeaningSQL(e, x) ==
    CASE e.kind = "compare" -> CompareSQL(e.op, Operand(e.l, x), Operand(e.r, x))
      [] e.kind = "nulltest" -> Known((Operand(e.e, x) = Null) # e.is_not)
      [] e.kind = "in" ->
            Negation(Conjunction({CompareSQL("<>", Operand(e.e, x), Operand(e.list[i], x))
                                     : i \in DOMAIN e.list}))
      [] e.kind = "not" -> Negation(MeaningSQL(e.e, x))
      [] e.kind = "bool" /\ e.op = "AND" ->
            Conjunction({MeaningSQL(e.args[i], x) : i \in DOMAIN e.args})
      [] e.kind = "bool" /\ e.op = "OR" ->
            Negation(Conjunction({Negation(MeaningSQL(e.args[i], x)) : i \in DOMAIN e.args}))

\* Conditions of the forms that every stage knows: no NOT IN, no BETWEEN, no CASE, no
\* parameter, no unknown column, and every column compared with something.
RECURSIVE Supported(_)
Supported(e) ==
    CASE e.kind = "compare" -> {e.l, e.r} \cap {Column("y"), Param, CaseExpr} = {}
      [] e.kind = "nulltest" -> e.e = Column("x")
      [] e.kind = "in" -> e.op = "=" /\ Param \notin {e.list[i] : i \in DOMAIN e.list}
      [] e.kind = "not" -> Supported(e.e)
      [] e.kind = "bool" -> \A i \in DOMAIN e.args : Supported(e.args[i])
      [] OTHER -> FALSE

\* A NOT over a comparison that may meet NULL: SQL leaves it unknown, the code makes
\* it true.
RECURSIVE Negates(_)
Negates(e) == CASE e.kind = "not" -> TRUE
                [] e.kind = "bool" -> \E i \in DOMAIN e.args : Negates(e.args[i])
                [] OTHER -> FALSE
=============================================================================
