------------------------------ MODULE MCSession ------------------------------
(***************************************************************************)
(* Scripts and databases for Session.                                      *)
(***************************************************************************)
EXTENDS Session, TLC

Seqs == INSTANCE SequencesExt

(* "long" is a word that is one letter shorter than the limit of a line. *)
MCLetters == Keywords \cup {"select", "t", "u", "id", "v", "x", "a", "b", "long"}
MCUpper(c) == IF c = "select" THEN "SELECT" ELSE c
MCSize(c)  == IF c = "long" THEN MaxLine - 1 ELSE 1
MCCharOrder ==
    <<LF, CR, " ", "!", "\"", "#", "'", "(", ")", "*", ",", "-", "0", "1", "2", "<", "=", ">">>
    \o <<"AND", "CREATE", "DELETE", "DROP", "FROM", "INSERT", "INT", "INTO", "SELECT", "SET",
         "TABLE", "TEXT", "UPDATE", "VALUES", "WHERE">>
    \o <<"a", "b", "id", "long", "select", "t", "u", "v", "x">>

Name(c) == <<c>>
MCMinInt == -2

MinusTwo == <<"-", "2">>
One == <<"1">>

-----------------------------------------------------------------------------
(* How a client writes a statement: a blank between any two tokens, a text  *)
(* in quotes, a number as it is.                                            *)
Written(token) ==
    IF token.type # "LITERAL" THEN token.value
    ELSE IF DigitsOf(token.value) # <<>> /\ Range(DigitsOf(token.value)) \subseteq Digits
         THEN token.value
         ELSE <<"'">> \o Doubled(token.value, "'") \o <<"'">>

Text(tokens) == Seqs!FlattenSeq([i \in DOMAIN tokens |-> Written(tokens[i]) \o <<" ">>])

Line(s) == Text(Grammar(s)) \o <<LF>>

Says(statements) ==
    [text  |-> Seqs!FlattenSeq([i \in DOMAIN statements |-> Line(statements[i])]),
     means |-> statements, cut |-> FALSE]

Whole(text) == [text |-> text, means |-> <<>>, cut |-> FALSE]

-----------------------------------------------------------------------------
(* Every WHERE of one clause, and the pairs that mix access paths. *)
Ops6 == {<<"=">>, <<"!", "=">>, <<"<">>, <<"<", "=">>, <<">">>, <<">", "=">>}

Clauses(columns, values) == [column : columns, op : Ops6, value : values]

IdClauses == Clauses({IdColumn}, {MinusTwo, <<"0">>, One})
VClauses  == Clauses({Name("v")}, {<<"a">>, <<"a", "a">>, <<>>})
BadClauses == Clauses({IdColumn, Name("x")}, {<<"2">>, <<"a">>, <<"-">>, <<"0", "1">>})

Wheres ==
    {<<>>}
    \cup {<<c>> : c \in IdClauses \cup VClauses \cup BadClauses}
    \cup {<<c, d>> : c \in IdClauses, d \in IdClauses}
    \cup {<<c, d>> : c \in VClauses, d \in {i \in IdClauses : i.value = One}}
    \cup {<<c, d>> : c \in {b \in BadClauses : b.op = <<"=">>}, d \in {i \in IdClauses : i.value = One}}
    \cup {<<d, c>> : c \in {b \in BadClauses : b.op = <<"=">>}, d \in {i \in IdClauses : i.value = One}}

Delete(w) == [kind |-> "delete", table |-> Name("t"), where |-> w]
Select(columns, w) == [kind |-> "select", table |-> Name("t"), columns |-> columns, where |-> w]
Update(assignments, w) ==
    [kind |-> "update", table |-> Name("t"), assignments |-> assignments, where |-> w]
Insert(columns, values) ==
    [kind |-> "insert", table |-> Name("t"), columns |-> columns, values |-> values]
Create(columns) == [kind |-> "create", table |-> Name("t"), columns |-> columns]
Drop == [kind |-> "drop", table |-> Name("t")]

SetV(text) == [column |-> Name("v"), value |-> text]

Queries ==
    {Delete(w) : w \in Wheres}
    \cup {Select(<<>>, w) : w \in Wheres}
    \cup {Update(<<SetV(<<"b">>)>>, w) : w \in Wheres}
    \cup {Select(<<Name("v"), Name("v")>>, <<>>), Select(<<Name("v"), Name("x")>>, <<>>)}
    \cup {Insert(<<Name("v")>>, <<One>>), Insert(<<IdColumn, Name("x")>>, <<One, One>>)}
    \cup {Update(<<SetV(<<"a">>), a>>, <<>>) :
            a \in [column : {Name("v"), Name("x"), IdColumn}, value : {One}]}

(* The statements of longer sessions. *)
IntId == [name |-> IdColumn, type |-> "INT"]
TextV == [name |-> Name("v"), type |-> "TEXT"]
IntV  == [name |-> Name("v"), type |-> "INT"]

Conversation ==
    {Create(<<IntId, TextV>>), Create(<<IntV, IntId>>), Create(<<TextV>>),
     Create(<<IntId, IntId>>), Drop,
     Insert(<<IdColumn, Name("v")>>, <<MinusTwo, One>>),
     Insert(<<Name("v"), IdColumn, Name("v")>>, <<<<"a", "'">>, One, <<"0", "1">>>>),
     Insert(<<IdColumn>>, <<One>>),
     Update(<<SetV(<<"b">>)>>, <<>>),
     Delete(<<[column |-> IdColumn, op |-> <<"=">>, value |-> One]>>)}

(* A statement with one token missing, repeated or in another's place. *)
Examples ==
    {Create(<<IntId, TextV>>), Drop,
     Insert(<<IdColumn, Name("v")>>, <<One, <<"a">>>>),
     Select(<<IdColumn, Name("v")>>, <<>>),
     Update(<<SetV(<<"a">>), SetV(<<"b">>)>>, <<[column |-> IdColumn, op |-> <<"<">>, value |-> One]>>),
     Delete(<<[column |-> IdColumn, op |-> <<"=">>, value |-> One],
              [column |-> Name("v"), op |-> <<">">>, value |-> <<"a">>]>>)}

Damaged(tokens) ==
    {Seqs!RemoveAt(tokens, i) : i \in DOMAIN tokens}
    \cup {Seqs!InsertAt(tokens, i, tokens[j]) : i \in DOMAIN tokens, j \in DOMAIN tokens}
    \cup {Seqs!ReplaceAt(tokens, i, tokens[j]) : i \in DOMAIN tokens, j \in DOMAIN tokens}

-----------------------------------------------------------------------------
(* Short lines for the lexer, short streams for the framing. *)
Upto(n, alphabet) == UNION {[1..k -> alphabet] : k \in 1..n}

LexerLines ==
    Upto(3, {" ", CR, "a", "select", "1", "-", "'", "\"", "<", "=", "!", "#", ","})
    \cup [1..4 -> {"a", "1", "-", "<", "=", "!"}]
    \cup [1..5 -> {"a", " ", "'", "\""}]

MCScripts ==
    {Says(<<q>>) : q \in Queries}
    \cup {Says(<<a, b, c>>) : a \in Conversation, b \in Conversation, c \in Conversation}
    \cup {Whole(Text(tokens) \o <<CR, LF>>) : tokens \in UNION {Damaged(Grammar(s)) : s \in Examples}}
    \cup {Whole(line \o <<LF>>) : line \in LexerLines}
    \cup {[text |-> s, means |-> <<>>, cut |-> TRUE] : s \in Upto(5, {LF, CR, "a", "long"})}

Filled ==
    (Name("t") :> [columns |-> <<IntId, TextV>>,
                   rows |-> [id \in {MinInt, 0, MaxInt} |->
                                (IdColumn :> [int |-> id]) @@
                                (Name("v") :> [text |-> IF id = 0 THEN <<"a", "a">> ELSE <<"a">>])]])
    @@ (Name("u") :> [columns |-> <<IntId>>, rows |-> <<>>])

MCDatabases == {Filled}
=============================================================================
