------------------------------- MODULE Session -------------------------------
(***************************************************************************)
(* The path of one connection's bytes to its replies: handleReadable cuts  *)
(* the stream into lines (src/network/tcp_server.cpp), the worker of the   *)
(* connection's strand executes them (query_executor.cpp).                 *)
(*                                                                         *)
(* The stream reaches the server in pieces that have nothing to do with    *)
(* its lines.  The event loop and the worker run concurrently; they share  *)
(* the queue of pending lines.  What TCPServer models is left out here:    *)
(* other connections, the life of the descriptor, stalled peers.           *)
(***************************************************************************)
EXTENDS QueryExecutor

CONSTANTS Scripts,     \* what a client sends: [text, means, cut], means being
                       \* the statements it spells, or <<>> if it spells none,
                       \* cut whether it may arrive in pieces and end anywhere
          Databases,   \* the contents the session may start with
          Size(_),     \* the number of bytes of a chunk
          MaxLine,     \* kMaxLineBytes
          MaxPending   \* kMaxPendingQueries

VARIABLES
    script,    \* what the client sends
    read,      \* how much of it has been read
    eof,       \* read() has returned 0 or an error: peerClosed
    inbox,     \* conn->inbox
    pending,   \* conn->pending
    io,        \* where handleReadable is: "idle", "split", "check"
    over,      \* its overLimit: "", or what set it
    open,      \* the connection has not been dropped
    db,        \* the tables
    accepted,  \* history: the lines that were queued
    replies    \* the replies, in the order they were made

conn == <<inbox, pending, io, over, open, eof>>
vars == <<script, read, conn, db, accepted, replies>>

Init ==
    /\ script \in Scripts
    /\ read = 0
    /\ eof = FALSE
    /\ inbox = <<>>
    /\ pending = <<>>
    /\ io = "idle"
    /\ over = ""
    /\ open = TRUE
    /\ db \in Databases
    /\ accepted = <<>>
    /\ replies = <<>>

BytesUpto(s) ==
    LET upto[n \in 0..Len(s)] == IF n = 0 THEN 0 ELSE upto[n - 1] + Size(s[n])
    IN  upto

Bytes(s) == BytesUpto(s)[Len(s)]

Unread == Len(script.text) - read

(* What the client sends is text, and the tables have their schemas when    *)
(* the session begins.                                                      *)
ASSUME SessionAssumption ==
    /\ \A s \in Scripts : s.text \in Texts
    /\ \A c \in Chunks : Size(c) \in Nat
    /\ MaxLine \in Nat
    /\ \A tables \in Databases : FitsSchema(tables)

-----------------------------------------------------------------------------
(* Fault: every call starts with an empty inbox. *)
ReadsAfresh(n, closed) ==
    /\ io = "idle" /\ open
    /\ n \in 0..Unread /\ (n > 0 \/ closed)
    /\ script.cut \/ (n = Unread /\ ~closed)
    /\ inbox' = SubSeq(script.text, read + 1, read + n)
    /\ read' = read + n
    /\ eof' = closed
    /\ io' = "split"
    /\ UNCHANGED <<script, pending, over, open, db, accepted, replies>>

(* handleReadable reads what has arrived, then the end of the stream if the *)
(* client has closed its side; a hard error loses what was not yet read.    *)
Reads(n, closed) ==
    /\ io = "idle" /\ open
    /\ n \in 0..Unread /\ (n > 0 \/ closed)
    /\ script.cut \/ (n = Unread /\ ~closed)
    /\ inbox' = inbox \o SubSeq(script.text, read + 1, read + n)
    /\ read' = read + n
    /\ eof' = closed
    /\ io' = "split"
    /\ UNCHANGED <<script, pending, over, open, db, accepted, replies>>

Newlines(s) == {i \in DOMAIN s : s[i] = LF}

WithoutCR(line) ==
    IF line # <<>> /\ Last(line) = CR THEN SubSeq(line, 1, Len(line) - 1) ELSE line

(* Fault: the limit is off by one. *)
IsTooLongAtLimit(line) == Bytes(line) >= MaxLine

IsTooLong(line) == Bytes(line) > MaxLine

(* One round of its loop over the complete lines of the inbox. *)
TakesLine ==
    /\ io = "split"
    /\ Newlines(inbox) # {}
    /\ LET newline == Min(Newlines(inbox))
           line    == WithoutCR(SubSeq(inbox, 1, newline - 1))
       IN
       /\ inbox' = SubSeq(inbox, newline + 1, Len(inbox))
       /\ \/ /\ line = <<>>
             /\ UNCHANGED <<pending, accepted, io, over>>
          \/ /\ line # <<>> /\ IsTooLong(line)
             /\ over' = "line" /\ io' = "check"
             /\ UNCHANGED <<pending, accepted>>
          \/ /\ line # <<>> /\ ~IsTooLong(line) /\ Len(pending) >= MaxPending
             /\ over' = "backlog" /\ io' = "check"
             /\ UNCHANGED <<pending, accepted>>
          \/ /\ line # <<>> /\ ~IsTooLong(line) /\ Len(pending) < MaxPending
             /\ pending' = Append(pending, line)
             /\ accepted' = Append(accepted, line)
             /\ UNCHANGED <<io, over>>
    /\ UNCHANGED <<script, read, eof, open, db, replies>>

(* The loop is over: what is left must fit into a line, and the connection  *)
(* is dropped if it does not or if the client has gone.                     *)
Finishes ==
    /\ io = "check" \/ (io = "split" /\ Newlines(inbox) = {})
    /\ over' = IF over = "" /\ IsTooLong(inbox) THEN "line" ELSE over
    /\ open' = (~eof /\ over' = "")
    /\ io' = "idle"
    /\ UNCHANGED <<script, read, eof, inbox, pending, db, accepted, replies>>

(* The worker takes the first pending line and executes it. *)
Executes ==
    /\ pending # <<>>
    /\ LET outcome == Execute(db, Head(pending)) IN
         /\ db' = outcome.db
         /\ replies' = Append(replies, outcome.reply)
    /\ pending' = Tail(pending)
    /\ UNCHANGED <<script, read, inbox, io, over, open, eof, accepted>>

Next ==
    \/ \E n \in 0..Unread, closed \in BOOLEAN : Reads(n, closed)
    \/ TakesLine
    \/ Finishes
    \/ Executes

Spec == Init /\ [][Next]_vars

-----------------------------------------------------------------------------
(* The reference for the framing: the stream read so far, taken as a whole. *)
Received == SubSeq(script.text, 1, read)

LineStart(s, i) == 1 + Max({0} \cup {j \in Newlines(s) : j < i})

LineAt(s, i) == WithoutCR(SubSeq(s, LineStart(s, i), i - 1))

LineEnds(s) == {i \in Newlines(s) : LineAt(s, i) # <<>>}

Lines(s) ==
    LET ends == Ascending(LineEnds(s)) IN [k \in DOMAIN ends |-> LineAt(s, ends[k])]

Rest(s) == SubSeq(s, LineStart(s, Len(s) + 1), Len(s))

(* However the stream is cut into pieces, the lines that are queued are the *)
(* lines of the stream, in order, none lost, joined, split or repeated; a   *)
(* connection that was never over a limit has them all, also when it ends   *)
(* (handleReadable, "Split complete lines out of the inbox").               *)
LinesOfTheStream ==
    /\ \E n \in 0..Len(Lines(Received)) : accepted = SubSeq(Lines(Received), 1, n)
    /\ io = "idle" /\ over = "" => accepted = Lines(Received) /\ inbox = Rest(Received)

(* kMaxLineBytes is exact: a connection is dropped for the length of a line *)
(* if and only if a complete line, its carriage return not counted, or an   *)
(* incomplete one, with whatever it ends in, is longer than the limit; and  *)
(* no longer line is ever queued.                                           *)
LimitIsExact ==
    /\ \A i \in DOMAIN accepted : Bytes(accepted[i]) <= MaxLine
    /\ io = "idle" /\ over # "backlog" =>
          (over = "line" <=>
              \/ \E i \in DOMAIN Lines(Received) : Bytes(Lines(Received)[i]) > MaxLine
              \/ Bytes(Rest(Received)) > MaxLine)

(* Lexer::tokenize reads a line as it is written: every token is spelled    *)
(* where it says it is and is as long as it can be, quotes are undoubled,   *)
(* only white space is skipped, and it gives up only where no token can be. *)
TokensAreAsWritten == pending # <<>> => TokensSpell(Head(pending))

(* Parser::parse follows the grammar in both directions: a statement it     *)
(* returns consists of the tokens of the line, all of them, and a line that *)
(* spells a statement is read as that statement.                            *)
StatementsAreAsSpelled ==
    pending # <<>> =>
        LET tokens == Tokenize(Head(pending))
            s      == Parse(tokens)
        IN  /\ s # Malformed => SaidBy(s, tokens)
            /\ script.means # <<>> => s = script.means[Len(replies) + 1]

-----------------------------------------------------------------------------
(* Whatever path it takes (B-tree lookup, range or scan, deleteById or      *)
(* deleteWhere), a statement reads, changes or removes exactly the rows     *)
(* that satisfy all of its clauses, also at the ends of the range of ids.   *)
(* It fails for an unknown name or a literal of the wrong type wherever in  *)
(* the statement that stands, and then, as always when the reply is an      *)
(* error, it has changed nothing; and it changes no other table.            *)
QueriesMeanWhatTheySay ==
    [][replies' # replies =>
          Means(db, Parse(Tokenize(Head(pending))), db', Last(replies'))]_vars

(* Every stored row is complete and typed as its schema says ("a stored     *)
(* value can never mismatch its column's type", schema.cpp, lines 78-79)    *)
(* and is kept under its own id; every table has its INT primary key, and   *)
(* no two columns of a name.                                                *)
RowsFitTheirSchema == FitsSchema(db)
=============================================================================
