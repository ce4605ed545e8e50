-------------------------------- MODULE Lexer --------------------------------
(***************************************************************************)
(* The lexer of the query language (src/query/lexer.cpp).                  *)
(*                                                                         *)
(* A line is a sequence of chunks.  A chunk is one character, or a run of  *)
(* letters that the model never takes apart ("SELECT", "id"): a word is    *)
(* the longest run of letter and digit chunks, so <<"SELECT", "1">> is the *)
(* identifier SELECT1 and not a keyword.  The value of a token is a        *)
(* sequence of chunks as well.                                             *)
(***************************************************************************)
EXTENDS Integers, Sequences, FiniteSetsExt, Functions

CONSTANTS Letters,     \* chunks an identifier can start with
          Upper(_)     \* a letter chunk in upper case

LF == "LF"
CR == "CR"

Spaces == {" ", CR, LF}
Digits == {"0", "1", "2", "3", "4", "5", "6", "7", "8", "9"}
Quotes == {"'", "\""}
IdentChars == Letters \cup Digits

(* A letter is no other character, nor the end of the text. *)
ASSUME LetterAssumption ==
    Letters \cap (Spaces \cup Digits \cup Quotes
                   \cup {"=", "<", ">", "!", "(", ")", ",", "*", "-", "END"}) = {}

Keywords ==
    {"SELECT", "FROM", "WHERE", "INSERT", "INTO", "VALUES", "DELETE",
     "CREATE", "DROP", "TABLE", "INT", "TEXT", "AND", "UPDATE", "SET"}

IsKeyword(word) == Len(word) = 1 /\ word[1] \in Keywords

Last(s) == s[Len(s)]

(* What stands at position i of s; past the end, nothing does. *)
At(s, i) == IF i \in DOMAIN s THEN s[i] ELSE "END"

(* The first position from i on that holds no member of class. *)
RunEnd(s, i, class) == Min({j \in i..Len(s) + 1 : At(s, j) \notin class})

(* A token as it is pushed, with the position the loop goes on from. *)
Scanned(type, value, position, next) ==
    [token |-> [type |-> type, value |-> value, position |-> position], next |-> next]

(* The loop throws: no token can be read here. *)
Stuck(i) == Scanned("ERROR", <<>>, i, i)

Word(s, i) ==
    LET end   == RunEnd(s, i, IdentChars)
        word  == SubSeq(s, i, end - 1)
        upper == [k \in DOMAIN word |-> Upper(word[k])]
    IN  IF IsKeyword(upper) THEN Scanned("KEYWORD", upper, i, end)
                            ELSE Scanned("IDENTIFIER", word, i, end)

(* The first digit or the minus sign, then digits. *)
Number(s, i) ==
    LET end == RunEnd(s, i + 1, Digits)
    IN  Scanned("NUMBER", SubSeq(s, i, end - 1), i, end)

(* The content of a literal from each position on, up to its closing quote; *)
(* a doubled quote stands for one.  next is 0 if no quote closes it.        *)
After(c, read) == [content |-> <<c>> \o read.content, next |-> read.next]

Content(s, quote) ==
    LET from[i \in 1..Len(s) + 1] ==
            IF i > Len(s)             THEN [content |-> <<>>, next |-> 0]
            ELSE IF s[i] # quote      THEN After(s[i], from[i + 1])
            ELSE IF At(s, i + 1) = quote THEN After(quote, from[i + 2])
            ELSE [content |-> <<>>, next |-> i + 1]
    IN  from

(* Fault: a doubled quote closes the literal. *)
StringWithoutEscapes(s, i) ==
    LET end == RunEnd(s, i + 1, Range(s) \ {s[i]})
    IN  IF end > Len(s) THEN Stuck(i)
        ELSE Scanned("STRING", SubSeq(s, i + 1, end - 1), i, end + 1)

String(s, i) ==
    LET read == Content(s, s[i])[i + 1]
    IN  IF read.next = 0 THEN Stuck(i) ELSE Scanned("STRING", read.content, i, read.next)

Operator(s, i) ==
    LET two == At(s, i + 1) = "="
    IN  CASE s[i] = "="                -> Scanned("OPERATOR", <<"=">>, i, i + 1)
          [] s[i] = "!" /\ ~two        -> Stuck(i)
          [] s[i] # "=" /\ two         -> Scanned("OPERATOR", <<s[i], "=">>, i, i + 2)
          [] s[i] \in {"<", ">"} /\ ~two -> Scanned("OPERATOR", <<s[i]>>, i, i + 1)

TokenAt(s, i) ==
    CASE s[i] \in Letters  -> Word(s, i)
      [] s[i] \in Digits \/ (s[i] = "-" /\ At(s, i + 1) \in Digits) -> Number(s, i)
      [] s[i] \in Quotes   -> String(s, i)
      [] s[i] \in {"=", "<", ">", "!"} -> Operator(s, i)
      [] s[i] \in {"(", ")", ",", "*"} -> Scanned("PUNCTUATION", <<s[i]>>, i, i + 1)
      [] OTHER             -> Stuck(i)

(* The tokens from each position on, closed by END, or by ERROR where       *)
(* tokenize throws.                                                         *)
End(i) == [type |-> "END", value |-> <<>>, position |-> i]

TokensFrom(s) ==
    LET from[i \in 1..Len(s) + 1] ==
            IF i > Len(s)            THEN <<End(i)>>
            ELSE IF s[i] \in Spaces THEN from[i + 1]
            ELSE IF TokenAt(s, i).token.type = "ERROR" THEN <<TokenAt(s, i).token>>
            ELSE <<TokenAt(s, i).token>> \o from[TokenAt(s, i).next]
    IN  from

Tokenize(s) == TokensFrom(s)[1]

-----------------------------------------------------------------------------
(* The reference: how a token may be written, and what may not follow it.   *)
Doubled(content, quote) ==
    LET upto[n \in 0..Len(content)] ==
            IF n = 0 THEN <<>>
            ELSE upto[n - 1] \o (IF content[n] = quote THEN <<quote, quote>> ELSE <<content[n]>>)
    IN  upto[Len(content)]

Spells(token, written) ==
    CASE token.type = "KEYWORD" -> [k \in DOMAIN written |-> Upper(written[k])] = token.value
      [] token.type = "STRING"  ->
            \E q \in Quotes : written = <<q>> \o Doubled(token.value, q) \o <<q>>
      [] OTHER                  -> written = token.value

(* What would have made the token longer. *)
Extends(token, written) ==
    CASE token.type \in {"KEYWORD", "IDENTIFIER"} -> IdentChars
      [] token.type = "NUMBER"                    -> Digits
      [] token.type = "STRING"                    -> {Last(written)}
      [] token.type = "OPERATOR" /\ token.value \in {<<"<">>, <<">">>} -> {"="}
      [] OTHER                                    -> {}

(* The quote at position i is never closed: the quotes after it all come in *)
(* pairs, which stand for one quote each.                                   *)
Unclosed(s, i) ==
    \A a \in i + 1..Len(s), b \in i + 1..Len(s) :
        (/\ a <= b
         /\ \A j \in a..b : s[j] = s[i]
         /\ a = i + 1 \/ s[a - 1] # s[i]
         /\ At(s, b + 1) # s[i]) => (b - a) % 2 = 1

(* The tokens of s are what is written in it, in order, with nothing but    *)
(* white space between them; and where tokenize gives up, no token can be   *)
(* read.                                                                    *)
TokensSpell(s) ==
    LET t == Tokenize(s)
        Gap(a, b) == \A j \in a..b : s[j] \in Spaces
        IsWritten(k, e) ==
            LET written == SubSeq(s, t[k].position, e)
            IN  /\ Spells(t[k], written)
                /\ At(s, e + 1) \notin Extends(t[k], written)
                /\ Gap(e + 1, t[k + 1].position - 1)
        last == Last(t)
    IN  /\ Gap(1, t[1].position - 1)
        /\ \A k \in 1..Len(t) - 1 :
              \E e \in t[k].position..t[k + 1].position - 1 : IsWritten(k, e)
        /\ \/ last.type = "END" /\ last.position = Len(s) + 1
           \/ /\ last.type = "ERROR"
              /\ LET c == s[last.position] IN
                 CASE c \in Quotes -> Unclosed(s, last.position)
                   [] c = "!"      -> At(s, last.position + 1) # "="
                   [] c = "-"      -> At(s, last.position + 1) \notin Digits
                   [] OTHER        ->
                         c \notin IdentChars \cup Spaces \cup {"=", "<", ">", "(", ")", ",", "*"}
=============================================================================
