------------------------------- MODULE Parser -------------------------------
(***************************************************************************)
(* The parser of the query language (src/query/parser.cpp): from tokens to *)
(* a statement, or to Malformed where the code throws.                     *)
(*                                                                         *)
(* The lists of the language have items of a fixed number of tokens, so    *)
(* the loop that reads one is given by where its items start.              *)
(***************************************************************************)
EXTENDS Lexer

Malformed == [kind |-> "malformed"]

(* peek() at a position: advance() never moves past the sentinel. *)
Peek(t, i) == t[Min({i, Len(t)})]

Is(t, i, type)           == Peek(t, i).type = type
IsThe(t, i, type, value) == Is(t, i, type) /\ Peek(t, i).value = <<value>>
IsWord(t, i, keyword)    == IsThe(t, i, "KEYWORD", keyword)
IsMark(t, i, c)          == IsThe(t, i, "PUNCTUATION", c)
IsLiteral(t, i)          == Is(t, i, "NUMBER") \/ Is(t, i, "STRING")
IsName(t, i)             == Is(t, i, "IDENTIFIER")

ValueAt(t, i) == Peek(t, i).value

(* The items of a list that starts at i: each takes width tokens, and the   *)
(* loop goes on as long as a separator follows.                             *)
List(t, i, width, Separator(_, _), IsItem(_, _), Item(_, _)) ==
    LET n     == Min({k \in 1..Len(t) : ~Separator(t, i + k * (width + 1) - 1)})
        At_(k) == i + (k - 1) * (width + 1)
    IN  [ok    |-> \A k \in 1..n : IsItem(t, At_(k)),
         items |-> [k \in 1..n |-> Item(t, At_(k))],
         next  |-> At_(n) + width]

Comma(t, i) == IsMark(t, i, ",")
And(t, i)   == IsWord(t, i, "AND")

parseIdentifierList(t, i) == List(t, i, 1, Comma, IsName, ValueAt)

parseLiterals(t, i) == List(t, i, 1, Comma, IsLiteral, ValueAt)

dataTypeFromString(value) ==
    CASE value = <<"INT">> -> "INT" [] value = <<"TEXT">> -> "TEXT" [] OTHER -> "none"

IsColumnDef(t, i) ==
    IsName(t, i) /\ Is(t, i + 1, "KEYWORD") /\ dataTypeFromString(ValueAt(t, i + 1)) # "none"

ColumnDef(t, i) == [name |-> ValueAt(t, i), type |-> dataTypeFromString(ValueAt(t, i + 1))]

parseColumnDefs(t, i) == List(t, i, 2, Comma, IsColumnDef, ColumnDef)

IsAssignment(t, i) == IsName(t, i) /\ IsThe(t, i + 1, "OPERATOR", "=") /\ IsLiteral(t, i + 2)

Assignment(t, i) == [column |-> ValueAt(t, i), value |-> ValueAt(t, i + 2)]

parseAssignments(t, i) == List(t, i, 3, Comma, IsAssignment, Assignment)

(* Every operator token is one of the six that compareOpFromToken knows. *)
IsClause(t, i) == IsName(t, i) /\ Is(t, i + 1, "OPERATOR") /\ IsLiteral(t, i + 2)

Clause(t, i) ==
    [column |-> ValueAt(t, i), op |-> ValueAt(t, i + 1), value |-> ValueAt(t, i + 2)]

parseClauses(t, i) == List(t, i, 3, And, IsClause, Clause)

parseOptionalWhere(t, i) ==
    IF IsWord(t, i, "WHERE") THEN parseClauses(t, i + 1)
    ELSE [ok |-> TRUE, items |-> <<>>, next |-> i]

-----------------------------------------------------------------------------
parseCreate(t) ==
    LET columns == parseColumnDefs(t, 5) IN
    IF /\ IsWord(t, 2, "TABLE") /\ IsName(t, 3)
       /\ IsMark(t, 4, "(") /\ columns.ok /\ IsMark(t, columns.next, ")")
       /\ Is(t, columns.next + 1, "END")
    THEN [kind |-> "create", table |-> ValueAt(t, 3), columns |-> columns.items]
    ELSE Malformed

parseDrop(t) ==
    IF IsWord(t, 2, "TABLE") /\ IsName(t, 3) /\ Is(t, 4, "END")
    THEN [kind |-> "drop", table |-> ValueAt(t, 3)]
    ELSE Malformed

parseInsert(t) ==
    LET columns == parseIdentifierList(t, 5)
        values  == parseLiterals(t, columns.next + 3)
    IN
    IF /\ IsWord(t, 2, "INTO") /\ IsName(t, 3)
       /\ IsMark(t, 4, "(") /\ columns.ok /\ IsMark(t, columns.next, ")")
       /\ IsWord(t, columns.next + 1, "VALUES")
       /\ IsMark(t, columns.next + 2, "(") /\ values.ok /\ IsMark(t, values.next, ")")
       /\ Is(t, values.next + 1, "END")
       /\ Len(columns.items) = Len(values.items)
    THEN [kind |-> "insert", table |-> ValueAt(t, 3),
          columns |-> columns.items, values |-> values.items]
    ELSE Malformed

parseSelect(t) ==
    LET columns == IF IsMark(t, 2, "*") THEN [ok |-> TRUE, items |-> <<>>, next |-> 3]
                   ELSE parseIdentifierList(t, 2)
        from    == columns.next
        where   == parseOptionalWhere(t, from + 2)
    IN
    IF /\ columns.ok /\ IsWord(t, from, "FROM") /\ IsName(t, from + 1)
       /\ where.ok /\ Is(t, where.next, "END")
    THEN [kind |-> "select", table |-> ValueAt(t, from + 1),
          columns |-> columns.items, where |-> where.items]
    ELSE Malformed

parseUpdate(t) ==
    LET assignments == parseAssignments(t, 4)
        where       == parseOptionalWhere(t, assignments.next)
    IN
    IF /\ IsName(t, 2) /\ IsWord(t, 3, "SET")
       /\ assignments.ok /\ where.ok /\ Is(t, where.next, "END")
    THEN [kind |-> "update", table |-> ValueAt(t, 2),
          assignments |-> assignments.items, where |-> where.items]
    ELSE Malformed

(* Fault: what follows the statement is ignored. *)
parseDeleteWithoutEnd(t) ==
    LET where == parseOptionalWhere(t, 4) IN
    IF IsWord(t, 2, "FROM") /\ IsName(t, 3) /\ where.ok
    THEN [kind |-> "delete", table |-> ValueAt(t, 3), where |-> where.items]
    ELSE Malformed

parseDelete(t) ==
    LET where == parseOptionalWhere(t, 4) IN
    IF IsWord(t, 2, "FROM") /\ IsName(t, 3) /\ where.ok /\ Is(t, where.next, "END")
    THEN [kind |-> "delete", table |-> ValueAt(t, 3), where |-> where.items]
    ELSE Malformed

Parse(t) ==
    IF Last(t).type = "ERROR" THEN Malformed     \* tokenize() threw
    ELSE
    CASE IsWord(t, 1, "CREATE")  -> parseCreate(t)
      [] IsWord(t, 1, "DROP")    -> parseDrop(t)
      [] IsWord(t, 1, "INSERT")  -> parseInsert(t)
      [] IsWord(t, 1, "SELECT")  -> parseSelect(t)
      [] IsWord(t, 1, "UPDATE")  -> parseUpdate(t)
      [] IsWord(t, 1, "DELETE")  -> parseDelete(t)
      [] OTHER                   -> Malformed

-----------------------------------------------------------------------------
(* The reference: the grammar, as the tokens that a statement consists of.  *)
K(keyword) == <<[type |-> "KEYWORD", value |-> <<keyword>>]>>
M(c)       == <<[type |-> "PUNCTUATION", value |-> <<c>>]>>
I(name)    == <<[type |-> "IDENTIFIER", value |-> name]>>
O(op)      == <<[type |-> "OPERATOR", value |-> op]>>
V(value)   == <<[type |-> "LITERAL", value |-> value]>>

Separated(parts, separator) ==
    LET upto[n \in 0..Len(parts)] ==
            IF n = 0 THEN <<>>
            ELSE IF n = 1 THEN parts[1]
            ELSE upto[n - 1] \o separator \o parts[n]
    IN  upto[Len(parts)]

Names(names) == Separated([i \in DOMAIN names |-> I(names[i])], M(","))

Where(clauses) ==
    IF clauses = <<>> THEN <<>>
    ELSE K("WHERE") \o
         Separated([i \in DOMAIN clauses |->
                        I(clauses[i].column) \o O(clauses[i].op) \o V(clauses[i].value)],
                   K("AND"))

Grammar(s) ==
    CASE s.kind = "create" ->
            K("CREATE") \o K("TABLE") \o I(s.table) \o M("(") \o
            Separated([i \in DOMAIN s.columns |-> I(s.columns[i].name) \o K(s.columns[i].type)], M(","))
            \o M(")")
      [] s.kind = "drop"   -> K("DROP") \o K("TABLE") \o I(s.table)
      [] s.kind = "insert" ->
            K("INSERT") \o K("INTO") \o I(s.table) \o M("(") \o Names(s.columns) \o M(")") \o
            K("VALUES") \o M("(") \o Separated([i \in DOMAIN s.values |-> V(s.values[i])], M(","))
            \o M(")")
      [] s.kind = "select" ->
            K("SELECT") \o (IF s.columns = <<>> THEN M("*") ELSE Names(s.columns)) \o
            K("FROM") \o I(s.table) \o Where(s.where)
      [] s.kind = "update" ->
            K("UPDATE") \o I(s.table) \o K("SET") \o
            Separated([i \in DOMAIN s.assignments |->
                           I(s.assignments[i].column) \o O(<<"=">>) \o V(s.assignments[i].value)],
                      M(","))
            \o Where(s.where)
      [] s.kind = "delete" -> K("DELETE") \o K("FROM") \o I(s.table) \o Where(s.where)

(* A statement is what the tokens t, END excluded, say. *)
SaidBy(s, t) ==
    Grammar(s) = [i \in 1..Len(t) - 1 |->
        [type  |-> IF t[i].type \in {"NUMBER", "STRING"} THEN "LITERAL" ELSE t[i].type,
         value |-> t[i].value]]
=============================================================================
