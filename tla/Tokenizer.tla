------------------------------ MODULE Tokenizer ------------------------------
(***************************************************************************)
(* tokenize of src/tokenizer.cpp: a state machine that reads one byte per  *)
(* iteration.  A character is a one-letter string; position p of the code  *)
(* is element p + 1 of buf.                                                *)
(***************************************************************************)
EXTENDS Integers, Sequences, FiniteSets

CONSTANT Buffers   \* the source texts tokenize is called with

ASSUME BuffersAssumption == Buffers \subseteq Seq(STRING)

VARIABLES
  buf,           \* t.buf
  pos,           \* t.pos
  state,         \* t.state, without the prefix TokenizeState
  tokens,        \* t.tokens
  open,          \* t.cur_tok # nullptr; the open token is the last one
  line, column,  \* t.line, t.column
  commentCount,  \* t.multi_line_comment_count
  outcome        \* "running", "done", "error" (exit) or "crash"

vars == <<buf, pos, state, tokens, open, line, column, commentCount, outcome>>

-----------------------------------------------------------------------------
(* Character classes and token tables.                                     *)

Quote == "\""
Underscore == "_"
Comma == ","
LeftBrace == "{"
RightBrace == "}"
Semicolon == ";"

Alpha == {"a", "b", "c", "d", "e", "f", "g", "h", "i", "j", "k", "l", "m",
          "n", "o", "p", "q", "r", "s", "t", "u", "v", "w", "x", "y", "z",
          "A", "B", "C", "D", "E", "F", "G", "H", "I", "J", "K", "L", "M",
          "N", "O", "P", "Q", "R", "S", "T", "U", "V", "W", "X", "Y", "Z"}
Digit == {"0", "1", "2", "3", "4", "5", "6", "7", "8", "9"}
SymbolChar == Alpha \cup Digit \cup {Underscore}
Whitespace == {" ", "\n"}

(* <<character, token id>>                                                 *)
Single == {<<"(", "LParen">>, <<")", "RParen">>, <<Comma, "Comma">>,
           <<"*", "Star">>, <<"%", "Percent">>, <<LeftBrace, "LBrace">>,
           <<RightBrace, "RBrace">>, <<Semicolon, "Semicolon">>, <<":", "Colon">>,
           <<"+", "Plus">>, <<"~", "Tilde">>, <<"#", "NumberSign">>,
           <<"^", "BinXor">>}

(* <<character that opens a token, token id, next state>>                  *)
Opening == {<<c, "Symbol", "Symbol">> : c \in Alpha \cup {Underscore}} \cup
           {<<c, "NumberLiteral", "Number">> : c \in Digit} \cup
           {<<Quote, "StringLiteral", "String">>,
            <<"-", "Dash", "SawDash">>,
            <<"/", "Slash", "SawSlash">>,
            <<"|", "BinOr", "Pipe">>,
            <<"&", "BinAnd", "Ampersand">>,
            <<"=", "Eq", "Eq">>,
            <<"!", "Bang", "Bang">>,
            <<"<", "CmpLessThan", "LessThan">>,
            <<">", "CmpGreaterThan", "GreaterThan">>}

(* <<state, second character, token id>>                                   *)
Second == {<<"GreaterThan", "=", "CmpGreaterOrEq">>,
           <<"GreaterThan", ">", "BitShiftRight">>,
           <<"LessThan", "<", "BitShiftLeft">>,
           <<"Bang", "=", "CmpNotEq">>,
           <<"Eq", "=", "CmpEq">>,
           <<"Ampersand", "&", "BoolAnd">>,
           <<"Pipe", "|", "BoolOr">>,
           <<"SawDash", ">", "Arrow">>}

(* The states whose default case puts the character back.                  *)
PutsBack == {"GreaterThan", "LessThan", "Bang", "Eq", "Ampersand", "Pipe"}
BlockComment == {"MultiLineComment", "MultiLineCommentSlash",
                 "MultiLineCommentStar"}
InToken == PutsBack \cup {"SawDash", "SawSlash", "Symbol", "Number", "String"}

(* <<text, token id>>                                                      *)
Keyword == {<<<<"f", "u", "n">>, "KeywordFn">>,
            <<<<"r", "e", "t", "u", "r", "n">>, "KeywordReturn">>,
            <<<<"m", "u", "t">>, "KeywordMut">>,
            <<<<"c", "o", "n", "s", "t">>, "KeywordConst">>,
            <<<<"e", "x", "t", "e", "r", "n">>, "KeywordExtern">>,
            <<<<"u", "n", "r", "e", "a", "c", "h", "a", "b", "l", "e">>,
              "KeywordUnreachable">>,
            <<<<"p", "u", "b">>, "KeywordPub">>,
            <<<<"e", "x", "p", "o", "r", "t">>, "KeywordExport">>,
            <<<<"a", "s">>, "KeywordAs">>,
            <<<<"u", "s", "e">>, "KeywordUse">>}

-----------------------------------------------------------------------------
Init == /\ buf \in Buffers
        /\ pos = 0
        /\ state = "Start"
        /\ tokens = <<>>
        /\ open = FALSE
        /\ line = 0
        /\ column = 0
        /\ commentCount = 0
        /\ outcome = "running"

Unset == -2   \* end_position of a token that is still open

(* begin_token, with the id it is given.                                   *)
Begin(id, p) == [id |-> id, start |-> p, end |-> Unset,
                 line |-> line, column |-> column]

(* The bytes of a span, and the NUL behind the buffer.                     *)
Text(first, end) == SubSeq(Append(buf, "NUL"), first + 1, end)

(* end_token, with t.pos = last.                                           *)
Closed(token, last) ==
  LET text == Text(token.start, last + 1)
      id   == IF \E k \in Keyword : k[1] = text
              THEN (CHOOSE k \in Keyword : k[1] = text)[2]
              ELSE token.id
  IN  [token EXCEPT !.end = last + 1, !.id = id]
EndBeforeLast(token, last) == Closed(token, last - 1)   \* mutant: no "+ 1"
End(token, last) == Closed(token, last)

LastToken == tokens[Len(tokens)]
Replace(token) == [tokens EXCEPT ![Len(tokens)] = token]

(* end_token and "state = TokenizeStateStart".                             *)
CloseKeepingState(token) ==    \* mutant: the state is not reset
  tokens' = Replace(token) /\ open' = FALSE /\ state' = state
Close(token) == tokens' = Replace(token) /\ open' = FALSE /\ state' = "Start"

(* The bottom of the loop: the next position, line and column.             *)
MutantNoColumnReset(c) ==   \* mutant: the column survives a line break
  /\ pos' = pos + 1
  /\ line' = IF c = "\n" THEN line + 1 ELSE line
  /\ column' = column + 1
Advance(c) == /\ pos' = pos + 1
              /\ line' = IF c = "\n" THEN line + 1 ELSE line
              /\ column' = IF c = "\n" THEN 0 ELSE column + 1

(* "pos -= 1; ...; continue": the same character again.                    *)
PutBack == UNCHANGED <<pos, line, column>>

Reading(c) == /\ outcome = "running"
              /\ pos < Len(buf)
              /\ c = buf[pos + 1]

-----------------------------------------------------------------------------
(* TokenizeStateStart.                                                     *)

SkipSpace(c) ==
  /\ state = "Start"
  /\ c \in Whitespace
  /\ Advance(c)
  /\ UNCHANGED <<buf, state, tokens, open, commentCount, outcome>>

OpenToken(c) ==
  /\ state = "Start"
  /\ \E t \in Opening :
       /\ t[1] = c
       /\ tokens' = Append(tokens, Begin(t[2], pos))
       /\ state' = t[3]
  /\ open' = TRUE
  /\ Advance(c)
  /\ UNCHANGED <<buf, commentCount, outcome>>

SingleToken(c) ==
  /\ state = "Start"
  /\ \E t \in Single :
       /\ t[1] = c
       /\ tokens' = Append(tokens, End(Begin(t[2], pos), pos))
  /\ Advance(c)
  /\ UNCHANGED <<buf, state, open, commentCount, outcome>>

InvalidCharacter(c) ==
  /\ state = "Start"
  /\ c \notin Whitespace
  /\ \A t \in Opening \cup Single : t[1] # c
  /\ outcome' = "error"
  /\ UNCHANGED <<buf, pos, state, tokens, open, line, column, commentCount>>

-----------------------------------------------------------------------------
(* Inside a token.                                                         *)

Continues(c) == \/ state = "Symbol" /\ c \in SymbolChar
                \/ state = "Number" /\ c \in Digit
                \/ state = "String" /\ c # Quote

Extend(c) ==
  /\ Continues(c)
  /\ Advance(c)
  /\ UNCHANGED <<buf, state, tokens, open, commentCount, outcome>>

CloseString(c) ==
  /\ state = "String"
  /\ c = Quote
  /\ Close(End(LastToken, pos))
  /\ Advance(c)
  /\ UNCHANGED <<buf, commentCount, outcome>>

SecondCharacter(c) ==
  /\ \E t \in Second :
       /\ t[1] = state
       /\ t[2] = c
       /\ Close(End([LastToken EXCEPT !.id = t[3]], pos))
  /\ Advance(c)
  /\ UNCHANGED <<buf, commentCount, outcome>>

(* "<=": the case ends the token, has no break, and the next case writes   *)
(* the id of the current token through a null pointer.                     *)
LessOrEqual(c) ==
  /\ state = "LessThan"
  /\ c = "="
  /\ Close(End([LastToken EXCEPT !.id = "CmpLessOrEq"], pos))
  /\ outcome' = "crash"
  /\ UNCHANGED <<buf, pos, line, column, commentCount>>

(* The default cases that end the token before the character.              *)
Ends(c) == \/ state = "Symbol" /\ c \notin SymbolChar
           \/ state = "Number" /\ c \notin Digit
           \/ /\ state \in PutsBack
              /\ \A t \in Second : <<t[1], t[2]>> # <<state, c>>
              /\ ~(state = "LessThan" /\ c = "=")

EndAndPutBack(c) ==
  /\ Ends(c)
  /\ Close(End(LastToken, pos - 1))
  /\ PutBack
  /\ UNCHANGED <<buf, commentCount, outcome>>

(* The default cases of '-' and '/', which end the token on the character  *)
(* after the operator and go on behind it.                                 *)
EndAndSwallow(c) ==
  /\ \/ state = "SawDash" /\ c # ">"
     \/ state = "SawSlash" /\ c \notin {"/", "*"}
  /\ Close(End(LastToken, pos))
  /\ Advance(c)
  /\ UNCHANGED <<buf, commentCount, outcome>>

-----------------------------------------------------------------------------
(* Comments.                                                               *)

KeepSlash == tokens   \* mutant: no cancel_token
CancelToken == SubSeq(tokens, 1, Len(tokens) - 1)

OpenComment(c) ==
  /\ state = "SawSlash"
  /\ c \in {"/", "*"}
  /\ tokens' = CancelToken
  /\ open' = FALSE
  /\ IF c = "/"
     THEN state' = "LineComment" /\ UNCHANGED commentCount
     ELSE state' = "MultiLineComment" /\ commentCount' = 1
  /\ Advance(c)
  /\ UNCHANGED <<buf, outcome>>

LineComment(c) ==
  /\ state = "LineComment"
  /\ state' = IF c = "\n" THEN "Start" ELSE "LineComment"
  /\ Advance(c)
  /\ UNCHANGED <<buf, tokens, open, commentCount, outcome>>

Nests(c) == state = "MultiLineCommentSlash" /\ c = "*"
Closes(c) == state = "MultiLineCommentStar" /\ c = "/"

FlatCount(c) == IF Closes(c) THEN 0 ELSE commentCount   \* mutant: no nesting
NewCount(c) == commentCount + (IF Nests(c) THEN 1 ELSE IF Closes(c) THEN -1 ELSE 0)

MultiLineComment(c) ==
  /\ state \in BlockComment
  /\ commentCount' = NewCount(c)
  /\ state' = IF Closes(c) /\ NewCount(c) = 0 THEN "Start"
              ELSE IF Nests(c) \/ Closes(c) THEN "MultiLineComment"
              ELSE IF c = "*" THEN "MultiLineCommentStar"
              ELSE IF c = "/" THEN "MultiLineCommentSlash"
              ELSE "MultiLineComment"
  /\ Advance(c)
  /\ UNCHANGED <<buf, tokens, open, outcome>>

-----------------------------------------------------------------------------
(* After the loop: end the last token, at one position past the last       *)
(* character, and append the Eof token at position -1.                     *)
EndOfBuffer ==
  /\ outcome = "running"
  /\ pos = Len(buf)
  /\ LET ended == IF state \in InToken THEN Replace(End(LastToken, pos)) ELSE tokens
     IN  IF state \in BlockComment \cup {"String", "SawSlash"}
         THEN outcome' = "error" /\ UNCHANGED <<pos, tokens, open>>
         ELSE /\ outcome' = "done"
              /\ pos' = -1
              /\ tokens' = Append(ended, [Begin("Eof", -1) EXCEPT !.end = 0])
              /\ open' = FALSE
  /\ UNCHANGED <<buf, state, line, column, commentCount>>

ReadCharacter ==
  \E c \in {buf[i] : i \in DOMAIN buf} :
    /\ Reading(c)
    /\ \/ SkipSpace(c)
       \/ OpenToken(c)
       \/ SingleToken(c)
       \/ InvalidCharacter(c)
       \/ Extend(c)
       \/ CloseString(c)
       \/ SecondCharacter(c)
       \/ LessOrEqual(c)
       \/ EndAndPutBack(c)
       \/ EndAndSwallow(c)
       \/ OpenComment(c)
       \/ LineComment(c)
       \/ MultiLineComment(c)

Next == ReadCharacter \/ EndOfBuffer

Spec == Init /\ [][Next]_vars /\ WF_vars(Next)
-----------------------------------------------------------------------------
(* Properties.                                                             *)

KeywordId == {k[2] : k \in Keyword}
TokenId == {t[2] : t \in Single \cup Opening} \cup KeywordId \cup
           {s[3] : s \in Second} \cup {"CmpLessOrEq", "Eof"}
Token == [id : TokenId, start : Int, end : Int, line : Nat, column : Nat]

(* Every variable keeps its type.                                          *)
TypeOK ==
  /\ buf \in Buffers
  /\ pos \in -1..Len(buf)
  /\ state \in {"Start", "LineComment"} \cup BlockComment \cup InToken
  /\ tokens \in Seq(Token)
  /\ open \in BOOLEAN
  /\ line \in Nat
  /\ column \in Nat
  /\ commentCount \in Nat
  /\ outcome \in {"running", "done", "error", "crash"}

(* A token is open exactly in the states that end or extend one, so        *)
(* begin_token and end_token never meet their assertions                   *)
(* (tokenizer.cpp:131, 147, 535); "<=" gets past them and crashes.         *)
CursorMatchesState ==
  outcome = "running" => /\ open <=> state \in InToken
                         /\ open => tokens # <<>>

IsOpen(i) == open /\ i = Len(tokens)
Scanned(i) == i \in DOMAIN tokens /\ tokens[i].id # "Eof"

(* The tokens lie in the buffer in order, none empty and none overlapping  *)
(* the next or the open one, although characters are put back, swallowed   *)
(* or cancelled; only the last may take in the NUL behind the buffer.      *)
SpansOrdered ==
  \A i \in DOMAIN tokens : Scanned(i) =>
    /\ tokens[i].start \in 0..Len(buf)-1
    /\ ~IsOpen(i) => /\ tokens[i].start < tokens[i].end
                     /\ tokens[i].end <= Len(buf) + 1
                     /\ Scanned(i + 1) => tokens[i].end <= tokens[i+1].start

(* Whatever is put back or cancelled, the list, its open token and the     *)
(* state fit together and to the buffer.                                   *)
TokensConsistent == TypeOK /\ CursorMatchesState /\ SpansOrdered

(* The line and column of a token are those of its first character, so the *)
(* errors of the parser and of the analyzer point at the right place       *)
(* whatever was put back, swallowed or skipped before (lines 497-502).     *)
LineBreaks(p) == {q \in 1..p : buf[q] = "\n"}
At(p, l, c) == /\ l = Cardinality(LineBreaks(p))
               /\ c \in 0..p
               /\ \A q \in p-c+1..p : buf[q] # "\n"
               /\ c < p => buf[p-c] = "\n"
PlacesFaithful ==
  \A i \in DOMAIN tokens : Scanned(i) =>
    At(tokens[i].start, tokens[i].line, tokens[i].column)

(* The text of a finished token fits its id, and no word or number was cut *)
(* in two.  "-" and "/" have an extra character unless the text ends.      *)
AtEnd(t) == t.end > Len(buf)
TextOf(t) == SubSeq(buf, t.start + 1, IF AtEnd(t) THEN Len(buf) ELSE t.end)
Consists(text, chars) == \A j \in DOMAIN text : text[j] \in chars
Followed(t, chars) == t.end < Len(buf) /\ buf[t.end + 1] \in chars
SecondId == {s[3] : s \in Second}

WordFits(t) ==
  /\ Consists(TextOf(t), SymbolChar) /\ TextOf(t)[1] \notin Digit
  /\ ~Followed(t, SymbolChar)
  /\ IF AtEnd(t) \/ \A k \in Keyword : k[1] # TextOf(t)
     THEN t.id = "Symbol" ELSE <<TextOf(t), t.id>> \in Keyword
NumberFits(t) == Consists(TextOf(t), Digit) /\ ~Followed(t, Digit)
StringFits(t) ==
  /\ Len(TextOf(t)) >= 2
  /\ {j \in DOMAIN TextOf(t) : TextOf(t)[j] = Quote} = {1, Len(TextOf(t))}
SwallowFits(t) == /\ t.end = t.start + 2
                  /\ <<TextOf(t)[1], t.id>> \in {<<"-", "Dash">>, <<"/", "Slash">>}
PairFits(t) == \E s \in Second, o \in Opening :
                 s[3] = t.id /\ o[3] = s[1] /\ TextOf(t) = <<o[1], s[2]>>
CharacterFits(t) == \E o \in Single \cup Opening : o[2] = t.id /\ TextOf(t) = <<o[1]>>
TextFits(t) ==
  CASE t.id \in {"Symbol"} \cup KeywordId -> WordFits(t)
    [] t.id = "NumberLiteral" -> NumberFits(t)
    [] t.id = "StringLiteral" -> StringFits(t)
    [] t.id \in {"Dash", "Slash"} -> SwallowFits(t)
    [] t.id \in SecondId -> PairFits(t)
    [] OTHER -> CharacterFits(t)
TextFitsId ==
  outcome # "crash" => \A i \in DOMAIN tokens :
    (Scanned(i) /\ ~IsOpen(i)) => TextFits(tokens[i])

(* How far into comments a scan from position first is at position p:      *)
(* "/*" "*/" pairs nest, line comments end with their line, and whatever   *)
(* else is not blank is text.                                              *)
Between == <<"between", 0>>
Mark(p, a, b) == p < Len(buf) /\ buf[p] = a /\ buf[p+1] = b
Behind(s, p) ==
  IF s[1] = "mark" THEN <<"between", s[2]>>
  ELSE IF s[1] = "line" THEN IF buf[p] = "\n" THEN Between ELSE s
  ELSE IF s[1] = "between" /\ Mark(p, "/", "*") THEN <<"mark", s[2] + 1>>
  ELSE IF s[1] = "between" /\ s[2] > 0 THEN IF Mark(p, "*", "/") THEN <<"mark", s[2] - 1>> ELSE s
  ELSE IF s = Between /\ Mark(p, "/", "/") THEN <<"line", 0>>
  ELSE IF s = Between /\ buf[p] \in Whitespace THEN s
  ELSE <<"text", 0>>
Scan(first) ==
  LET scan[p \in 0..Len(buf)] == IF p < first THEN Between ELSE Behind(scan[p-1], p)
  IN  scan

(* Nothing but blanks and whole comments lies before a token, nothing but  *)
(* these and a line comment behind the last, and a comment is reported     *)
(* unfinished only if it is (tokenizer.cpp:400-450).                       *)
GapStart(i) == (IF i = 1 THEN 0 ELSE tokens[i-1].end) + 1
GapsAreComments ==
  /\ \A i \in DOMAIN tokens :
       IF Scanned(i) THEN Scan(GapStart(i))[tokens[i].start] = Between
       ELSE Scan(GapStart(i))[Len(buf)] \in {Between, <<"line", 0>>}
  /\ (outcome = "error" /\ state \in BlockComment) =>
       Scan(GapStart(Len(tokens) + 1))[Len(buf)][2] > 0

(* "<=" becomes the token the parser looks for (parser.cpp:830): no text   *)
(* makes tokenize crash.                                                   *)
NeverCrashes == outcome # "crash"

(* tokenize returns or exits for every text: putting a character back      *)
(* never repeats.                                                          *)
Terminates == <>(outcome # "running")
=============================================================================
