------------------------------- MODULE MCCalc -------------------------------
(* Instance of Calc: a sheet of two columns.                                  *)
EXTENDS Calc

CONSTANTS u1

A1 == Cell(Ref(0, 0, FALSE, FALSE))
A2 == Cell(Ref(0, 1, FALSE, FALSE))
B1 == Cell(Ref(1, 0, FALSE, FALSE))

\* Every column up to the three-letter ones has a label of its own that reads
\* back as the column, so cells and references are kept as coordinates.
ASSUME LabelsReadBack == \A col \in 0..800 : ColumnOf(Letters(col, 26), 26) = col

Body(tokens) == [t |-> "formula", body |-> tokens]
Call(f, args) == << Tok(f), Tok("(") >> \o args \o << Tok(")") >>

\* Parentheses that count, and operators that nest too deep once each is
\* written with its own.
Chain == << A1, Tok("-"), Tok("("), Num(1), Tok("-"), A2, Tok(")") >>
Deeper == << A1, Tok("+"), Num(1), Tok("+"), Num(1) >>

MCCoords == {<<0, 0>>, <<0, 1>>, <<1, 0>>}

MCContents ==
    {Number(1),
     Body(Chain),
     Body(Call("COUNT", <<B1>>)),
     Body(Call("SUM", <<Span(Ref(0, 1, FALSE, FALSE), Ref(0, 0, FALSE, FALSE))>>)),
     Body(Call("IF", <<A1, Tok(","), A2, Tok(","), Cell(Ref(1, 0, TRUE, TRUE))>>)),
     Body(Call("AI", Deeper)), Body(<<Tok("+")>>)}

Set(c, content) == [coord |-> c, content |-> content]

MCBatches == {<<Set(<<1, 0>>, Number(1)), Set(<<0, 0>>, Body(Chain))>>,
              <<Set(<<0, 0>>, Body(Call("COUNT", <<B1>>))), Set(<<1, 0>>, Number(1)), Set(<<1, 0>>, Body(<<Tok("+")>>))>>}

MCEdits == {[kind |-> k, at |-> 1, count |-> 1] : k \in Kinds}

\* Bounds: the cells stay near the corner, and what formulas read does too.
SmallSheet ==
    /\ Len(sheet) <= 3
    /\ \A i \in DOMAIN sheet :
          /\ sheet[i].coord[1] <= 1 /\ sheet[i].coord[2] <= 1 /\ sheet[i].value.n \in -3..4
          /\ \A c \in Refs(sheet[i].formula) : c[1] <= 1 /\ c[2] <= 2

Spec == InitCalc /\ [][CalcStep]_calc
=============================================================================
