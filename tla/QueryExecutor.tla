---------------------------- MODULE QueryExecutor ----------------------------
(***************************************************************************)
(* What a query does (src/query/query_executor.cpp), with the schemas and  *)
(* rows it works on (src/core/schema.cpp, src/core/row.cpp).               *)
(*                                                                         *)
(* A database maps the names of its tables to tables.  A table is a list   *)
(* of columns and a function from ids to rows; a row maps the names of the *)
(* columns that are set to cells.  Every call on a table is one step:      *)
(* Table shows that its callers can tell no difference.                    *)
(***************************************************************************)
EXTENDS Parser

CONSTANTS MinInt, MaxInt,   \* the range of int64_t
          CharOrder         \* the chunks of texts in the order of their codes

ASSUME IntAssumption == MinInt \in Int /\ MaxInt \in Int /\ MinInt <= 0 /\ 0 < MaxInt

ASSUME CharAssumption == CharOrder \in Seq(Range(CharOrder)) /\ IsInjective(CharOrder)

Chunks == Range(CharOrder)
Texts  == Seq(Chunks)

IdColumn == <<"id">>    \* Table::kIdColumn

-----------------------------------------------------------------------------
(* Values.  from_chars reads an optional minus sign and decimal digits.     *)
DigitsOf(text) == IF text # <<>> /\ text[1] = "-" THEN Tail(text) ELSE text

DigitValue(c) ==
    (CHOOSE i \in 1..10 : <<"0", "1", "2", "3", "4", "5", "6", "7", "8", "9">>[i] = c) - 1

ParseInt(text) ==
    LET digits == DigitsOf(text)
        upto[n \in 0..Len(digits)] == IF n = 0 THEN 0 ELSE 10 * upto[n - 1] + DigitValue(digits[n])
    IN  IF text[1] = "-" THEN -upto[Len(digits)] ELSE upto[Len(digits)]

isValidValueFor(type, text) ==
    type = "INT" => /\ DigitsOf(text) # <<>>
                    /\ Range(DigitsOf(text)) \subseteq Digits
                    /\ ParseInt(text) \in MinInt..MaxInt

Cell(type, text) == IF type = "INT" THEN [int |-> ParseInt(text)] ELSE [text |-> text]

CompareInt(a, b) == IF a < b THEN -1 ELSE IF a > b THEN 1 ELSE 0

(* The sign of string::compare. *)
Code(c) == CHOOSE i \in DOMAIN CharOrder : CharOrder[i] = c

CompareText(a, b) ==
    LET differ == {i \in 1..Min({Len(a), Len(b)}) : a[i] # b[i]} IN
    IF differ # {} THEN IF Code(a[Min(differ)]) < Code(b[Min(differ)]) THEN -1 ELSE 1
    ELSE CompareInt(Len(a), Len(b))

applyOp(op, cmp) ==
    CASE op = <<"=">>      -> cmp = 0
      [] op = <<"!", "=">> -> cmp # 0
      [] op = <<"<">>      -> cmp < 0
      [] op = <<"<", "=">> -> cmp <= 0
      [] op = <<">">>      -> cmp > 0
      [] op = <<">", "=">> -> cmp >= 0

-----------------------------------------------------------------------------
(* Columns. *)
ColumnNames(columns) == {columns[i].name : i \in DOMAIN columns}

TypeOf(columns, name) == columns[CHOOSE i \in DOMAIN columns : columns[i].name = name].type

(* A column that exists and a text that it can hold. *)
Accepts(columns, name, text) ==
    name \in ColumnNames(columns) /\ isValidValueFor(TypeOf(columns, name), text)

(* makePredicate validates a clause and makes it a predicate on rows. *)
IsValidClause(columns, clause) == Accepts(columns, clause.column, clause.value)

Holds(clause, row) ==
    LET cell == row[clause.column] IN
    applyOp(clause.op,
            IF "int" \in DOMAIN cell THEN CompareInt(cell.int, ParseInt(clause.value))
                                     ELSE CompareText(cell.text, clause.value))

IsValidConjunction(columns, where) == \A i \in DOMAIN where : IsValidClause(columns, where[i])

HoldAll(where, row) == \A i \in DOMAIN where : Holds(where[i], row)

(* Table::selectWhere, deleteWhere and updateWhere scan all rows. *)
Matching(table, where) == {id \in DOMAIN table.rows : HoldAll(where, table.rows[id])}

(* A row holds a value of its type in every column, the id it is kept under *)
(* among them; a table has an INT primary key and columns of distinct names. *)
CellOf(type) == IF type = "INT" THEN [int : MinInt..MaxInt] ELSE [text : Texts]

FitsColumns(columns, row) ==
    /\ DOMAIN row = ColumnNames(columns)
    /\ \A i \in DOMAIN columns : row[columns[i].name] \in CellOf(columns[i].type)

IsSchema(columns) ==
    /\ columns \in Seq([name : Texts, type : {"INT", "TEXT"}])
    /\ IsInjective([i \in DOMAIN columns |-> columns[i].name])
    /\ \E i \in DOMAIN columns : columns[i] = [name |-> IdColumn, type |-> "INT"]

IsTable(table) ==
    /\ IsSchema(table.columns)
    /\ IsFiniteSet(DOMAIN table.rows)
    /\ \A id \in DOMAIN table.rows :
          FitsColumns(table.columns, table.rows[id]) /\ table.rows[id][IdColumn].int = id

FitsSchema(tables) == \A n \in DOMAIN tables : IsTable(tables[n])

-----------------------------------------------------------------------------
(* Access by primary key. *)
isIndexableIdClause(clause) == clause.column = IdColumn /\ clause.op # <<"!", "=">>

selectIdRange(table, lo, hi) == {id \in DOMAIN table.rows : lo <= id /\ id <= hi}

Wrap(n) == MinInt + ((n - MinInt) % (MaxInt - MinInt + 1))

(* Fault: no special case at the ends of the range, where the bound wraps.  *)
rowsByIdClauseUnguarded(table, clause) ==
    LET v == ParseInt(clause.value) IN
    CASE clause.op = <<"=">>      -> {v} \cap DOMAIN table.rows
      [] clause.op = <<"<">>      -> selectIdRange(table, MinInt, Wrap(v - 1))
      [] clause.op = <<"<", "=">> -> selectIdRange(table, MinInt, v)
      [] clause.op = <<">">>      -> selectIdRange(table, Wrap(v + 1), MaxInt)
      [] clause.op = <<">", "=">> -> selectIdRange(table, v, MaxInt)

rowsByIdClause(table, clause) ==
    LET v == ParseInt(clause.value) IN
    CASE clause.op = <<"=">>      -> {v} \cap DOMAIN table.rows
      [] clause.op = <<"<">>      ->
            IF v = MinInt THEN {} ELSE selectIdRange(table, MinInt, Wrap(v - 1))
      [] clause.op = <<"<", "=">> -> selectIdRange(table, MinInt, v)
      [] clause.op = <<">">>      ->
            IF v = MaxInt THEN {} ELSE selectIdRange(table, Wrap(v + 1), MaxInt)
      [] clause.op = <<">", "=">> -> selectIdRange(table, v, MaxInt)

(* The ids of the rows of a SELECT: the first indexable clause narrows the  *)
(* scan, the others filter; any clause that is not valid makes it throw.    *)
fetchRows(table, where) ==
    LET indexable == {i \in DOMAIN where : isIndexableIdClause(where[i])}
        first     == Min(indexable)
    IN  IF indexable = {} THEN Matching(table, where)
        ELSE {id \in rowsByIdClause(table, where[first]) :
                 \A i \in DOMAIN where \ {first} : Holds(where[i], table.rows[id])}

-----------------------------------------------------------------------------
(* Statements.  An outcome is the database afterwards and the reply.        *)
Error(db)         == [db |-> db, reply |-> [status |-> "ERROR"]]
Ok(db)            == [db |-> db, reply |-> [status |-> "OK"]]
Counted(db, n)    == [db |-> db, reply |-> [status |-> "COUNT", count |-> n]]
Rows(db, rows)    == [db |-> db, reply |-> [status |-> "ROWS", rows |-> rows]]

With(db, name, table) == [n \in DOMAIN db \cup {name} |-> IF n = name THEN table ELSE db[n]]
Restricted(f, S)      == [x \in DOMAIN f \cap S |-> f[x]]

WithRows(db, name, rows) == With(db, name, [columns |-> db[name].columns, rows |-> rows])

(* The columns are added one by one, none twice, and the constructor of     *)
(* Table wants an INT primary key.                                          *)
runCreate(db, s) ==
    IF /\ IsInjective([i \in DOMAIN s.columns |-> s.columns[i].name])
       /\ \E i \in DOMAIN s.columns : s.columns[i] = [name |-> IdColumn, type |-> "INT"]
       /\ s.table \notin DOMAIN db
    THEN Ok(With(db, s.table, [columns |-> s.columns, rows |-> <<>>]))
    ELSE Error(db)

runDrop(db, s) ==
    IF s.table \in DOMAIN db THEN Ok(Restricted(db, DOMAIN db \ {s.table})) ELSE Error(db)

(* Row::set for every column in turn: the last value of a column counts. *)
SetAll(columns, row, names, values) ==
    LET Latest(n) == values[Max({i \in DOMAIN names : names[i] = n})]
    IN  [n \in DOMAIN row \cup Range(names) |->
            IF n \in Range(names) THEN Cell(TypeOf(columns, n), Latest(n)) ELSE row[n]]

(* Fault: Table::insert does not check that every column is set. *)
runInsertUnchecked(db, s) ==
    LET table == db[s.table]
        row   == SetAll(table.columns, <<>>, s.columns, s.values)
        id    == row[IdColumn].int
    IN
    IF /\ s.table \in DOMAIN db
       /\ \A i \in DOMAIN s.columns : Accepts(table.columns, s.columns[i], s.values[i])
       /\ IdColumn \in Range(s.columns)
       /\ id \notin DOMAIN table.rows
    THEN Ok(WithRows(db, s.table, With(table.rows, id, row)))
    ELSE Error(db)

runInsert(db, s) ==
    LET table == db[s.table]
        row   == SetAll(table.columns, <<>>, s.columns, s.values)
        id    == row[IdColumn].int
    IN
    IF /\ s.table \in DOMAIN db
       /\ \A i \in DOMAIN s.columns : Accepts(table.columns, s.columns[i], s.values[i])
       /\ IdColumn \in Range(s.columns)
       /\ ColumnNames(table.columns) \subseteq Range(s.columns)
       /\ id \notin DOMAIN table.rows
    THEN Ok(WithRows(db, s.table, With(table.rows, id, row)))
    ELSE Error(db)

(* The rows come in the order of their ids: a B-tree and a scan of it are   *)
(* both read in order.                                                      *)
Rank(S, x)   == Cardinality({y \in S : y <= x})
Ascending(S) == [k \in 1..Cardinality(S) |-> CHOOSE x \in S : Rank(S, x) = k]

(* A row as it is printed: all columns in order, or the ones asked for. *)
formatRow(table, row, names) ==
    LET shown == IF names = <<>> THEN [i \in DOMAIN table.columns |-> table.columns[i].name]
                 ELSE names
    IN  [i \in DOMAIN shown |-> <<shown[i], row[shown[i]]>>]

runSelect(db, s) ==
    LET table == db[s.table]
        ids   == Ascending(fetchRows(table, s.where))
    IN
    IF /\ s.table \in DOMAIN db
       /\ Range(s.columns) \subseteq ColumnNames(table.columns)
       /\ IsValidConjunction(table.columns, s.where)
    THEN Rows(db, [i \in DOMAIN ids |-> formatRow(table, table.rows[ids[i]], s.columns)])
    ELSE Error(db)

(* Table::updateWhere validates all assignments before it changes a row. *)
runUpdate(db, s) ==
    LET table   == db[s.table]
        names   == [i \in DOMAIN s.assignments |-> s.assignments[i].column]
        values  == [i \in DOMAIN s.assignments |-> s.assignments[i].value]
        matched == Matching(table, s.where)
        rows    == [id \in DOMAIN table.rows |->
                       IF id \in matched THEN SetAll(table.columns, table.rows[id], names, values)
                       ELSE table.rows[id]]
    IN
    IF /\ s.table \in DOMAIN db
       /\ IsValidConjunction(table.columns, s.where)
       /\ \A i \in DOMAIN names : names[i] # IdColumn /\ Accepts(table.columns, names[i], values[i])
    THEN Counted(WithRows(db, s.table, rows), Cardinality(matched))
    ELSE Error(db)

(* One valid `id = n` deletes by key, anything else by a scan. *)
runDelete(db, s) ==
    LET table  == db[s.table]
        byKey  == /\ Len(s.where) = 1
                  /\ s.where[1].column = IdColumn /\ s.where[1].op = <<"=">>
                  /\ isValidValueFor("INT", s.where[1].value)
        doomed == IF byKey THEN {ParseInt(s.where[1].value)} \cap DOMAIN table.rows
                  ELSE Matching(table, s.where)
    IN
    IF s.table \in DOMAIN db /\ (byKey \/ IsValidConjunction(table.columns, s.where))
    THEN Counted(WithRows(db, s.table, Restricted(table.rows, DOMAIN table.rows \ doomed)),
                 Cardinality(doomed))
    ELSE Error(db)

Execute(db, line) ==
    LET s == Parse(Tokenize(line)) IN
    CASE s.kind = "malformed" -> Error(db)
      [] s.kind = "create"    -> runCreate(db, s)
      [] s.kind = "drop"      -> runDrop(db, s)
      [] s.kind = "insert"    -> runInsert(db, s)
      [] s.kind = "select"    -> runSelect(db, s)
      [] s.kind = "update"    -> runUpdate(db, s)
      [] s.kind = "delete"    -> runDelete(db, s)

-----------------------------------------------------------------------------
(* The reference: which rows a WHERE clause is about.                       *)
Satisfies(row, clause) ==
    LET cell == row[clause.column]
        Below(a, b) == IF "int" \in DOMAIN cell THEN a < b ELSE CompareText(a, b) = -1
        a == IF "int" \in DOMAIN cell THEN cell.int ELSE cell.text
        b == IF "int" \in DOMAIN cell THEN ParseInt(clause.value) ELSE clause.value
    IN  \/ a = b /\ clause.op \in {<<"=">>, <<"<", "=">>, <<">", "=">>}
        \/ Below(a, b) /\ clause.op \in {<<"<">>, <<"<", "=">>, <<"!", "=">>}
        \/ Below(b, a) /\ clause.op \in {<<">">>, <<">", "=">>, <<"!", "=">>}

Hits(table, where) ==
    {id \in DOMAIN table.rows : \A i \in DOMAIN where : Satisfies(table.rows[id], where[i])}

(* A statement whose names are known and whose literals are of the types of *)
(* their columns.                                                           *)
Answerable(db, s) ==
    /\ s.table \in DOMAIN db
    /\ LET columns == db[s.table].columns IN
         /\ \A i \in DOMAIN s.where : Accepts(columns, s.where[i].column, s.where[i].value)
         /\ s.kind = "select" => Range(s.columns) \subseteq ColumnNames(columns)
         /\ s.kind = "update" => \A i \in DOMAIN s.assignments :
                /\ s.assignments[i].column # IdColumn
                /\ Accepts(columns, s.assignments[i].column, s.assignments[i].value)

(* The rows asked for, in the order of their ids. *)
Selects(table, s, reply) ==
    LET hits == Hits(table, s.where) IN
    /\ Len(reply.rows) = Cardinality(hits)
    /\ \A id \in hits : reply.rows[Rank(hits, id)] = formatRow(table, table.rows[id], s.columns)

Deletes(table, s, rows, reply) ==
    LET hits == Hits(table, s.where) IN
    /\ reply.count = Cardinality(hits)
    /\ rows = Restricted(table.rows, DOMAIN table.rows \ hits)

(* A column that is assigned twice keeps what it is assigned last. *)
Updates(table, s, rows, reply) ==
    LET hits == Hits(table, s.where)
        IsLast(i, c) == /\ s.assignments[i].column = c
                        /\ \A j \in DOMAIN s.assignments : j > i => s.assignments[j].column # c
    IN
    /\ reply.count = Cardinality(hits)
    /\ DOMAIN rows = DOMAIN table.rows
    /\ \A id \in DOMAIN rows \ hits : rows[id] = table.rows[id]
    /\ \A id \in hits, c \in ColumnNames(table.columns) :
          \/ /\ \A i \in DOMAIN s.assignments : s.assignments[i].column # c
             /\ rows[id][c] = table.rows[id][c]
          \/ \E i \in DOMAIN s.assignments :
                IsLast(i, c) /\ rows[id][c] = Cell(TypeOf(table.columns, c), s.assignments[i].value)

Inserts(table, rows) ==
    /\ \E id \in DOMAIN rows \ DOMAIN table.rows : DOMAIN rows = DOMAIN table.rows \cup {id}
    /\ \A id \in DOMAIN table.rows : rows[id] = table.rows[id]

(* What a statement does to the tables and is answered. *)
Means(before, s, after, reply) ==
    /\ reply.status = "ERROR" => after = before
    /\ reply.status # "ERROR" =>
          Restricted(after, DOMAIN after \ {s.table}) = Restricted(before, DOMAIN before \ {s.table})
    /\ s.kind = "insert" /\ reply.status # "ERROR" =>
          Inserts(before[s.table], after[s.table].rows)
    /\ s.kind \in {"select", "update", "delete"} =>
          (reply.status # "ERROR" <=> Answerable(before, s))
    /\ s.kind = "select" /\ Answerable(before, s) =>
          after = before /\ Selects(before[s.table], s, reply)
    /\ s.kind = "delete" /\ Answerable(before, s) =>
          Deletes(before[s.table], s, after[s.table].rows, reply)
    /\ s.kind = "update" /\ Answerable(before, s) =>
          Updates(before[s.table], s, after[s.table].rows, reply)
=============================================================================
