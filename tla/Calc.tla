-------------------------------- MODULE Calc --------------------------------
(* One spreadsheet of the calc plugin (src/plugins/calc/src/index.ts).       *)
(* Every operation reads the stored document, changes its copy and writes it  *)
(* back; the two that ask the model hold their copy while it answers, and     *)
(* nothing puts the operations in a row.  Formats, titles, embedded objects   *)
(* and times are data no formula reads.                                       *)
EXTENDS Formula

CONSTANTS Coords,     \* the cells a client may name, <<column, row>>
          Contents,   \* what a client may put in a cell
          Batches,    \* the batches of updates: sequences of coord, content
          Edits,      \* the structural edits: kind, at, count
          Users       \* the operations that may be under way together

VARIABLES
    sheet,     \* the stored cells in insertion order: coordinate, formula, value
    users      \* per operation: its step, the cells it loaded, the cells it fills

calc == <<sheet, users>>

\* A stored formula is what the parser makes of its text, which it does not
\* change by itself: an expression, or one that it cannot read.
NoFormula  == [kind |-> "none"]
Unreadable == [kind |-> "unreadable"]

Read(text) == LET x == parseExpression(text) IN IF x.ok THEN x.expr ELSE Unreadable

InputCell ==
    [content \in Contents |->
        [formula |-> IF content.t = "formula" THEN Read(content.body) ELSE NoFormula,
         value |-> IF content.t = "formula" THEN Empty ELSE content]]

----------------------------------------------------------------------------
(* Reading a sheet.                                                          *)

Used(s) == {s[i].coord : i \in DOMAIN s}
cellAt(s, c) == s[CHOOSE i \in DOMAIN s : s[i].coord = c]
cellValue(s, c) == IF c \in Used(s) THEN cellAt(s, c).value ELSE Empty

isAIFormula(x) == x.kind = "func" /\ x.name = "AI"

\* A formula cell whose formula parses and is not for the model.
Computes(cell) ==
    cell.formula.kind \notin {"none", "unreadable"} /\ ~isAIFormula(cell.formula)

----------------------------------------------------------------------------
(* recalcSheet: the value of a reference is asked of resolve, which remembers *)
(* what it has found (memo) and what it is on the way to find (visiting).     *)

Found(v, memo) == [v |-> v, memo |-> memo]
Memoized(c, v, memo) == Found(v, [k \in DOMAIN memo \cup {c} |-> IF k = c THEN v ELSE memo[k]])

RECURSIVE resolve(_, _, _, _), evaluate(_, _, _, _), evalAll(_, _, _, _), resolveAll(_, _, _, _)

\* Mutant: a formula that is read gives the value it shows.
resolveShown(c, s, visiting, memo) == Memoized(c, cellValue(s, c), memo)

resolve(c, s, visiting, memo) ==
    IF c \in DOMAIN memo THEN Found(memo[c], memo)
    ELSE IF c \in visiting THEN Found(Error("#CYCLE!"), memo)
    ELSE IF c \notin Used(s) THEN Memoized(c, Empty, memo)
    ELSE LET cell == cellAt(s, c) IN
         IF cell.formula = NoFormula THEN Memoized(c, cell.value, memo)
         ELSE IF ~Computes(cell) THEN Memoized(c, Empty, memo)
         ELSE LET r == evaluate(cell.formula, s, visiting \cup {c}, memo)
              IN Memoized(c, r.v, r.memo)

\* The values of a list of cells, one after the other.
resolveAll(cs, s, visiting, memo) ==
    IF cs = << >> THEN Found(<< >>, memo)
    ELSE LET first == resolve(Head(cs), s, visiting, memo)
             rest  == resolveAll(Tail(cs), s, visiting, first.memo)
         IN Found(<<first.v>> \o rest.v, rest.memo)

\* flattenArgs: a range gives all its cells, any other argument its value.
evalAll(xs, s, visiting, memo) ==
    IF xs = << >> THEN Found(<< >>, memo)
    ELSE LET x     == Head(xs)
             first == IF x.kind = "range" THEN resolveAll(rangeCells(x), s, visiting, memo)
                      ELSE LET r == evaluate(x, s, visiting, memo) IN Found(<<r.v>>, r.memo)
             rest  == evalAll(Tail(xs), s, visiting, first.memo)
         IN Found(first.v \o rest.v, rest.memo)

evaluate(x, s, visiting, memo) ==
    CASE x.kind = "num"   -> Found(Number(x.n), memo)
      [] x.kind = "str"   -> Found(Error("#REF!"), memo)
      [] x.kind = "cell"  -> resolve(<<x.ref.col, x.ref.row>>, s, visiting, memo)
      [] x.kind = "range" -> LET r == resolveAll(rangeCells(x), s, visiting, memo)
                             IN Found(Head(r.v), r.memo)
      [] x.kind = "unary" ->
            LET r == evaluate(x.expr, s, visiting, memo)
            IN Found(IF Nan(r.v) THEN Error("#VALUE!") ELSE Number(-r.v.n), r.memo)
      [] x.kind = "binary" ->
            LET l == evaluate(x.left, s, visiting, memo)
                r == evaluate(x.right, s, visiting, l.memo)
            IN Found(IF isErrorValue(l.v) THEN l.v ELSE IF isErrorValue(r.v) THEN r.v
                     ELSE numOp(x.op, l.v, r.v), r.memo)
      [] x.kind = "func" /\ x.name = "AI" -> Found(Empty, memo)
      [] x.kind = "func" /\ x.name = "IF" ->
            IF Len(x.args) \notin {2, 3} THEN Found(Error("#VALUE!"), memo)
            ELSE LET cond == evaluate(x.args[1], s, visiting, memo)
                 IN IF toBoolean(cond.v) THEN evaluate(x.args[2], s, visiting, cond.memo)
                    ELSE IF Len(x.args) = 3 THEN evaluate(x.args[3], s, visiting, cond.memo)
                    ELSE Found(Empty, cond.memo)
      [] x.kind = "func" /\ x.name \in {"SUM", "COUNT"} ->
            LET r == evalAll(x.args, s, visiting, memo) IN Found(evalAggregate(x.name, r.v), r.memo)

\* Every formula cell in turn; the cell itself is not marked as being visited.
\* No formula reads the value that another formula had before.
recalcSheet(s) ==
    LET Kept(done, cell, value) == Append(done, [cell EXCEPT !.value = value])
        Next(done, cell) ==
          IF cell.formula = Unreadable
          THEN Found(Kept(done.v, cell, Error("#SYNTAX!")), done.memo)
          ELSE IF ~Computes(cell) THEN Found(Append(done.v, cell), done.memo)
          ELSE LET r == evaluate(cell.formula, s, {}, done.memo)
               IN Found(Kept(done.v, cell, r.v), r.memo)
    IN FoldLeft(Next, Found(<< >>, << >>), s).v

----------------------------------------------------------------------------
(* The operations.                                                           *)

Away == [step |-> "idle", cells |-> << >>, fills |-> {}]

\* createSheet.
InitCalc == sheet = << >> /\ users = [u \in Users |-> Away]

requireSheet(u) ==
    /\ users[u].step = "idle"
    /\ users' = [users EXCEPT ![u] = [@ EXCEPT !.step = "loaded", !.cells = sheet]]
    /\ UNCHANGED sheet

Store(u, s) ==
    /\ sheet' = s
    /\ users' = [users EXCEPT ![u] = Away]

Put(s, c, cell) ==
    LET new == [coord |-> c, formula |-> cell.formula, value |-> cell.value] IN
    IF c \in Used(s)
    THEN [i \in DOMAIN s |->
            IF s[i].coord # c THEN s[i]
            ELSE IF cell.formula = NoFormula THEN new ELSE [s[i] EXCEPT !.formula = cell.formula]]
    ELSE Append(s, new)

updateCell(u) ==
    /\ users[u].step = "loaded"
    /\ \E c \in Coords, content \in Contents :
          Store(u, recalcSheet(Put(users[u].cells, c, InputCell[content])))

\* A batch is recalculated once.
updateCells(u) ==
    /\ users[u].step = "loaded"
    /\ \E batch \in Batches :
          Store(u, recalcSheet(FoldLeft(LAMBDA s, update : Put(s, update.coord, InputCell[update.content]),
                                        users[u].cells, batch)))

\* A formula that does not parse stays as it is; another is written anew, and
\* may then be one that does not parse.
Rewritten(formula, edit) ==
    IF formula \in {NoFormula, Unreadable} THEN formula
    ELSE Read(stringify(rewriteRefs(formula, edit.kind, edit.at, edit.count)))

Restructured(s, edit) ==
    LET new(cell) == shiftCoord(cell.coord, edit.kind, edit.at, edit.count)
        kept      == SelectSeq(s, LAMBDA cell : ~Gone(new(cell)))
    IN [i \in DOMAIN kept |->
          [kept[i] EXCEPT !.coord = new(kept[i]), !.formula = Rewritten(@, edit)]]

structuralEdit(u) ==
    /\ users[u].step = "loaded"
    /\ \E edit \in Edits : Store(u, recalcSheet(Restructured(users[u].cells, edit)))

\* The model is asked for one cell with an AI formula.
askModel(u) ==
    /\ users[u].step = "loaded"
    /\ \E c \in Used(users[u].cells) :
          /\ isAIFormula(cellAt(users[u].cells, c).formula)
          /\ users' = [users EXCEPT ![u].step = "asked", ![u].fills = {c}]
    /\ UNCHANGED sheet

\* aiFillColumn asks for the cells of a range that have no value.
askColumn(u) ==
    /\ users[u].step = "loaded"
    /\ \E a, b \in Coords :
          /\ a[1] = b[1] /\ a[2] <= b[2]
          /\ users' = [users EXCEPT ![u].step = "asked",
                ![u].fills = {c \in Coords : c[1] = a[1] /\ c[2] \in a[2]..b[2]
                                              /\ cellValue(users[u].cells, c).t = "empty"}]
    /\ UNCHANGED sheet

\* The answers go where they were asked for, top down, in the cells that are
\* there or in new ones.  Nothing is recalculated.
Filled(s, answers) ==
    LET set(t, c) == IF c \in Used(t)
                     THEN [i \in DOMAIN t |-> IF t[i].coord = c THEN [t[i] EXCEPT !.value = answers[c]] ELSE t[i]]
                     ELSE Append(t, [coord |-> c, formula |-> NoFormula, value |-> answers[c]])
    IN FoldLeft(set, s, SetToSortSeq(DOMAIN answers, LAMBDA c, d : c[2] < d[2]))

modelAnswers(u) ==
    /\ users[u].step = "asked"
    /\ \E answers \in [users[u].fills -> {Text(2), Error("#AI_ERR")}] :
          Store(u, Filled(users[u].cells, answers))

\* embedObject: data only, but the copy is written back.
embedObject(u) ==
    /\ users[u].step = "loaded"
    /\ \E c \in Coords :
          Store(u, IF c \in Used(users[u].cells) THEN users[u].cells
                   ELSE Append(users[u].cells, [coord |-> c, formula |-> NoFormula, value |-> Empty]))

\* A cell, a formula or a coordinate that is not there.
Reject(u) ==
    /\ users[u].step = "loaded"
    /\ users' = [users EXCEPT ![u] = Away]
    /\ UNCHANGED sheet

CalcStep ==
    \E u \in Users : \/ requireSheet(u) \/ updateCell(u) \/ updateCells(u) \/ structuralEdit(u)
                     \/ askModel(u) \/ askColumn(u) \/ modelAnswers(u) \/ embedObject(u) \/ Reject(u)

----------------------------------------------------------------------------
(* What the numbers on a sheet should be.                                    *)

RECURSIVE Refs(_)
Refs(x) ==
    CASE x.kind = "cell" -> {<<x.ref.col, x.ref.row>>}
      [] x.kind = "range" -> ToSet(rangeCells(x))
      [] x.kind = "func" -> UNION {Refs(x.args[i]) : i \in DOMAIN x.args}
      [] x.kind = "binary" -> Refs(x.left) \cup Refs(x.right)
      [] x.kind \in {"unary", "percent"} -> Refs(x.expr)
      [] OTHER -> {}

\* Some reference of the expression carries a $ mark.
RECURSIVE Anchored(_)
Anchored(x) ==
    CASE x.kind = "cell" -> x.ref.colAbs \/ x.ref.rowAbs
      [] x.kind = "range" -> \E r \in {x.from, x.to} : r.colAbs \/ r.rowAbs
      [] x.kind = "func" -> \E i \in DOMAIN x.args : Anchored(x.args[i])
      [] x.kind = "binary" -> Anchored(x.left) \/ Anchored(x.right)
      [] x.kind \in {"unary", "percent"} -> Anchored(x.expr)
      [] OTHER -> FALSE

Precedents(s, c) ==
    IF c \in Used(s) /\ Computes(cellAt(s, c)) THEN Refs(cellAt(s, c).formula) ELSE {}

RECURSIVE Upstream(_, _)
Upstream(s, cs) ==
    LET more == cs \cup UNION {Precedents(s, c) : c \in cs}
    IN IF more = cs THEN cs ELSE Upstream(s, more)

Behind(s, c) == Upstream(s, Precedents(s, c))

Cyclic(s, c) == \E d \in Behind(s, c) \cup {c} : d \in Behind(s, d)

\* The sheet with every formula replaced by the value it shows; a formula for
\* the model, and one that does not parse, is read as nothing.
Flat(s) ==
    [i \in DOMAIN s |->
        [s[i] EXCEPT !.formula = NoFormula,
                     !.value = IF s[i].formula = NoFormula \/ Computes(s[i]) THEN @ ELSE Empty]]

FromModel(s, c) == cellValue(s, c).t \in {"text", "#AI_ERR"}

\* Every formula shows the value it has for the values the other cells show,
\* whatever the order in which recalculation met the cells: except behind a
\* cycle, and behind an answer of the model, after which nothing is recalculated.
SheetConsistent ==
    \A i \in DOMAIN sheet :
       LET c == sheet[i].coord IN
       Computes(sheet[i]) /\ ~Cyclic(sheet, c) /\ (\A d \in Behind(sheet, c) \cup {c} : ~FromModel(sheet, d))
          => sheet[i].value = evaluate(sheet[i].formula, Flat(sheet), {}, << >>).v

\* Inserting or deleting rows or columns moves every formula with what it reads:
\* its value stays, unless it reads by way of a $ mark or of a removed cell, or
\* what the serializer writes is too deep or too long to be read again.
EditKeepsMeaning ==
    \A edit \in Edits :
       LET new(c) == shiftCoord(c, edit.kind, edit.at, edit.count)
           old    == recalcSheet(sheet)
           moved  == recalcSheet(Restructured(sheet, edit))
           formula(c) == cellAt(sheet, c).formula
       IN \A i \in DOMAIN sheet :
             LET c == sheet[i].coord
                 from == Behind(sheet, c) \cup {c}
             IN /\ Computes(sheet[i]) /\ ~Cyclic(sheet, c)
                /\ \A d \in from : ~Gone(new(d))
                /\ \A d \in from \cap Used(sheet) : Computes(cellAt(sheet, d)) =>
                      Rewritten(formula(d), edit) # Unreadable /\ ~Anchored(formula(d))
                => cellValue(moved, new(c)) = cellValue(old, c)

=============================================================================
