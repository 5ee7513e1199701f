------------------------------- MODULE Formula -------------------------------
(* The formula engine of the calc plugin (src/plugins/calc/src/formula.ts):  *)
(* the parser with its precedences and its caps, the serializer that          *)
(* structural edits write formulas back with, the evaluator, and the          *)
(* rewriting of references.                                                   *)
(*                                                                          *)
(* A formula is the sequence of tokens of its body; a reference is a token    *)
(* that carries a column, a row and their $ marks, a number a token that      *)
(* carries its value.  Division, comparison values, texts and the scalar      *)
(* functions are not evaluated: the fragment here has numbers, + - *, SUM,    *)
(* COUNT, IF, AI and the errors, which is what recalculation tells apart.     *)
EXTENDS Integers, Sequences, FiniteSets, SequencesExt

CONSTANTS MaxDepth,    \* MAX_FORMULA_DEPTH
          MaxTokens    \* MAX_FORMULA_TOKENS

----------------------------------------------------------------------------
(* Columns in letters: digits 1..Base, the most significant first.           *)

Letters(col, base) ==
    LET digits[n \in Nat] == IF n = 0 THEN << >>
                             ELSE Append(digits[(n - 1) \div base], ((n - 1) % base) + 1)
    IN digits[col + 1]

ColumnOf(letters, base) ==
    FoldLeft(LAMBDA col, letter : col * base + letter, 0, letters) - 1

----------------------------------------------------------------------------
(* Expressions.                                                              *)

Tok(kind)   == [kind |-> kind]
Num(n)      == [kind |-> "num", n |-> n]
Cell(ref)   == [kind |-> "cell", ref |-> ref]
Span(a, b)  == [kind |-> "range", from |-> a, to |-> b]
Func(f, as) == [kind |-> "func", name |-> f, args |-> as]
Binary(op, l, r) == [kind |-> "binary", op |-> op, left |-> l, right |-> r]
Unary(x)    == [kind |-> "unary", expr |-> x]
Percent(x)  == [kind |-> "percent", expr |-> x]
RefError    == [kind |-> "str"]        \* the literal "#REF!"

\* The left-associative levels, loosest first.
Levels == << {"="}, {"&"}, {"+", "-"}, {"*"} >>

Failed      == [ok |-> FALSE]
Parsed(x, at) == [ok |-> TRUE, expr |-> x, at |-> at]

At(s, i) == IF i > Len(s) THEN "eof" ELSE s[i].kind

RECURSIVE parseLevel(_, _, _, _), parseMore(_, _, _, _), parsePower(_, _, _),
          parseUnary(_, _, _), parsePostfix(_, _), parsePrimary(_, _, _), parseArgs(_, _, _, _)

\* nest: one level deeper, under the guard.
Nest(d) == d + 1
Deep(d) == d + 1 > MaxDepth

parseLevel(k, s, i, d) ==
    IF k > Len(Levels) THEN parsePower(s, i, d)
    ELSE LET left == parseLevel(k + 1, s, i, d)
         IN IF left.ok THEN parseMore(k, s, left, d) ELSE Failed

parseMore(k, s, left, d) ==
    IF At(s, left.at) \notin Levels[k] THEN left
    ELSE LET right == parseLevel(k + 1, s, left.at + 1, d)
         IN IF ~right.ok THEN Failed
            ELSE parseMore(k, s, Parsed(Binary(At(s, left.at), left.expr, right.expr), right.at), d)

\* The exponent is to the right, and binds less than a sign before the base.
parsePower(s, i, d) ==
    LET base == parseUnary(s, i, d) IN
    IF ~base.ok \/ At(s, base.at) # "^" THEN base
    ELSE IF Deep(d) THEN Failed
    ELSE LET right == parsePower(s, base.at + 1, Nest(d))
         IN IF right.ok THEN Parsed(Binary("^", base.expr, right.expr), right.at) ELSE Failed

parseUnary(s, i, d) ==
    IF At(s, i) # "-" THEN LET x == parsePrimary(s, i, d)
                           IN IF x.ok THEN parsePostfix(s, x) ELSE Failed
    ELSE IF Deep(d) THEN Failed
    ELSE LET x == parseUnary(s, i + 1, Nest(d))
         IN IF x.ok THEN Parsed(Unary(x.expr), x.at) ELSE Failed

parsePostfix(s, x) ==
    IF At(s, x.at) = "%" THEN parsePostfix(s, Parsed(Percent(x.expr), x.at + 1)) ELSE x

parsePrimary(s, i, d) ==
    CASE At(s, i) \in {"num", "cell", "range", "str"} -> Parsed(s[i], i + 1)
      [] At(s, i) \in {"SUM", "COUNT", "IF", "AI"} ->
            IF At(s, i + 1) # "(" THEN Failed
            ELSE IF At(s, i + 2) = ")" THEN Parsed(Func(At(s, i), << >>), i + 3)
            ELSE LET args == parseArgs(s, i + 2, d, << >>)
                 IN IF args.ok THEN Parsed(Func(At(s, i), args.expr), args.at) ELSE Failed
      [] At(s, i) = "(" ->
            IF Deep(d) THEN Failed
            ELSE LET x == parseLevel(1, s, i + 1, Nest(d))
                 IN IF x.ok /\ At(s, x.at) = ")" THEN Parsed(x.expr, x.at + 1) ELSE Failed
      [] OTHER -> Failed

parseArgs(s, i, d, before) ==
    IF Deep(d) THEN Failed
    ELSE LET x == parseLevel(1, s, i, Nest(d)) IN
         IF ~x.ok THEN Failed
         ELSE IF At(s, x.at) = "," THEN parseArgs(s, x.at + 1, d, Append(before, x.expr))
         ELSE IF At(s, x.at) = ")" THEN Parsed(Append(before, x.expr), x.at + 1)
         ELSE Failed

\* The end-of-input token is not counted; a formula is refused as a whole.
parseExpression(s) ==
    IF Len(s) > MaxTokens THEN Failed
    ELSE LET x == parseLevel(1, s, 1, 0)
         IN IF x.ok /\ x.at = Len(s) + 1 THEN x ELSE Failed

\* Every operator is written with its own parentheses, a percent sign without.
RECURSIVE stringify(_)

\* Mutant: operators are written without parentheses.
stringifyFlat(x) ==
    CASE x.kind \in {"num", "cell", "range", "str"} -> << x >>
      [] x.kind = "binary" -> stringify(x.left) \o << Tok(x.op) >> \o stringify(x.right)
      [] OTHER -> << Num(1) >>

stringify(x) ==
    CASE x.kind \in {"num", "cell", "range", "str"} -> << x >>
      [] x.kind = "func" ->
            << Tok(x.name), Tok("(") >>
              \o FoldLeft(LAMBDA s, a : s \o (IF s = << >> THEN << >> ELSE << Tok(",") >>) \o stringify(a),
                          << >>, x.args)
              \o << Tok(")") >>
      [] x.kind = "binary" ->
            << Tok("(") >> \o stringify(x.left) \o << Tok(x.op) >> \o stringify(x.right) \o << Tok(")") >>
      [] x.kind = "unary" -> << Tok("("), Tok("-") >> \o stringify(x.expr) \o << Tok(")") >>
      [] x.kind = "percent" -> stringify(x.expr) \o << Tok("%") >>

----------------------------------------------------------------------------
(* References and structural edits.  Indices start at 0; -1 is removed.      *)

Ref(col, row, colAbs, rowAbs) == [col |-> col, row |-> row, colAbs |-> colAbs, rowAbs |-> rowAbs]

Kinds == {"insertRows", "deleteRows", "insertCols", "deleteCols"}

Shift(insert, at, count, i) ==
    IF insert THEN IF i >= at THEN i + count ELSE i
    ELSE IF i < at THEN i ELSE IF i < at + count THEN -1 ELSE i - count

shiftRow(kind, at, count, r) ==
    IF kind \in {"insertRows", "deleteRows"} THEN Shift(kind = "insertRows", at, count, r) ELSE r

shiftCol(kind, at, count, c) ==
    IF kind \in {"insertCols", "deleteCols"} THEN Shift(kind = "insertCols", at, count, c) ELSE c

shiftCoord(coord, kind, at, count) ==
    << shiftCol(kind, at, count, coord[1]), shiftRow(kind, at, count, coord[2]) >>

Gone(coord) == coord[1] < 0 \/ coord[2] < 0

mutate(ref, kind, at, count) ==
    [ref EXCEPT !.row = IF ref.rowAbs THEN @ ELSE shiftRow(kind, at, count, @),
                !.col = IF ref.colAbs THEN @ ELSE shiftCol(kind, at, count, @)]

Lost(ref) == Gone(<<ref.col, ref.row>>)

RECURSIVE rewriteRefs(_, _, _, _)
rewriteRefs(x, kind, at, count) ==
    CASE x.kind = "cell" ->
            LET r == mutate(x.ref, kind, at, count) IN IF Lost(r) THEN RefError ELSE Cell(r)
      [] x.kind = "range" ->
            LET a == mutate(x.from, kind, at, count)
                b == mutate(x.to, kind, at, count)
            IN IF Lost(a) \/ Lost(b) THEN RefError ELSE Span(a, b)
      [] x.kind = "func" ->
            Func(x.name, [i \in DOMAIN x.args |-> rewriteRefs(x.args[i], kind, at, count)])
      [] x.kind = "binary" ->
            Binary(x.op, rewriteRefs(x.left, kind, at, count), rewriteRefs(x.right, kind, at, count))
      [] x.kind = "unary" -> Unary(rewriteRefs(x.expr, kind, at, count))
      [] x.kind = "percent" -> Percent(rewriteRefs(x.expr, kind, at, count))
      [] OTHER -> x

----------------------------------------------------------------------------
(* Values: a number, nothing, or one of the errors, which are texts.         *)

Val(t, n) == [t |-> t, n |-> n]
Number(n) == Val("num", n)
Empty     == Val("empty", 0)
Error(e)  == Val(e, 0)

isErrorValue(v) == v.t \in {"#REF!", "#CYCLE!", "#VALUE!", "#SYNTAX!", "#ERROR!"}

\* What the model answers is a text; the one for its failure is no number, and
\* is not taken for an error, having no "!".
Text(n) == Val("text", n)

toBoolean(v) == v.t # "empty" /\ (v.t = "num" => v.n # 0)

Nan(v) == isErrorValue(v) \/ v.t = "#AI_ERR"

numOp(op, l, r) ==
    IF Nan(l) \/ Nan(r) THEN Error("#VALUE!")
    ELSE Number(CASE op = "+" -> l.n + r.n [] op = "-" -> l.n - r.n [] op = "*" -> l.n * r.n)

evalAggregate(name, values) ==
    LET numbers == SelectSeq(values, LAMBDA v : v.t = "num")
        errors  == SelectSeq(values, isErrorValue)
    IN IF name = "COUNT" THEN Number(Len(numbers))
       ELSE IF errors # << >> THEN Head(errors)
       ELSE Number(FoldLeft(LAMBDA total, v : total + v.n, 0, numbers))

Lower(a, b) == IF a < b THEN a ELSE b
Upper(a, b) == IF a < b THEN b ELSE a

\* Row by row, the corners in either order.
rangeCells(x) ==
    LET left == Lower(x.from.col, x.to.col)
        top  == Lower(x.from.row, x.to.row)
        wide == Upper(x.from.col, x.to.col) - left + 1
        high == Upper(x.from.row, x.to.row) - top + 1
    IN [i \in 1..(wide * high) |-> << left + ((i - 1) % wide), top + (i - 1) \div wide >>]

=============================================================================
