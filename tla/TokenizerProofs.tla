---------------------------- MODULE TokenizerProofs ----------------------------
(***************************************************************************)
(* Proofs that the token list of tokenize is well formed, that every token *)
(* carries the place and the text it was read from, for every set of       *)
(* buffers.                                                                *)
(***************************************************************************)
EXTENDS Tokenizer, WellFoundedInduction, SequenceTheorems, FiniteSetTheorems, TLAPS

-----------------------------------------------------------------------------
(* The invariant.                                                          *)

(* A token lies in the buffer and has the place of its first character.    *)
PlacedOK(t) == /\ t \in Token
               /\ t.id # "Eof"
               /\ t.start \in 0..Len(buf)-1
               /\ At(t.start, t.line, t.column)

(* A finished one is not empty.                                            *)
ClosedOK(t) == /\ PlacedOK(t)
               /\ t.start < t.end
               /\ t.end <= Len(buf) + 1

(* The open one was begun by its first character, which chose the state;   *)
(* only words, numbers and strings have more than that character.          *)
OpenOK(t, p, s) ==
  /\ PlacedOK(t)
  /\ t.start < p
  /\ <<buf[t.start + 1], t.id, s>> \in Opening
  /\ s = "Symbol" => \A q \in t.start+1..p : buf[q] \in SymbolChar
  /\ s = "Number" => \A q \in t.start+1..p : buf[q] \in Digit
  /\ s = "String" => \A q \in t.start+2..p : buf[q] # Quote
  /\ s \notin {"Symbol", "Number", "String"} => p = t.start + 1

(* The list, of which the last token is open or none is, at position p.    *)
ListOK(list, opened, p, s) ==
  /\ list \in Seq(Token)
  /\ opened => list # <<>>
  /\ \A i \in 1..Len(list) :
       IF opened /\ i = Len(list) THEN OpenOK(list[i], p, s)
       ELSE ClosedOK(list[i]) /\ list[i].end <= p
  /\ \A i \in 1..Len(list) - 1 : list[i].end <= list[i+1].start

(* The texts of the finished tokens.                                       *)
TextsOK(list, opened) ==
  \A i \in 1..Len(list) : (opened /\ i = Len(list)) \/ TextFits(list[i])

CursorOK ==
  /\ open <=> state \in InToken
  /\ pos \in 0..Len(buf)
  /\ At(pos, line, column)
  /\ state \in BlockComment => commentCount >= 1

(* When tokenize is done, the Eof token lies behind such a list.           *)
DoneOK ==
  /\ open = FALSE
  /\ tokens # <<>>
  /\ LastToken.id = "Eof"
  /\ ListOK(CancelToken, FALSE, Len(buf) + 1, "Start")
  /\ TextsOK(CancelToken, FALSE)

(* When it crashes, the "<" and the "=" it ends before lie behind it.      *)
CrashOK == open = FALSE /\ ListOK(tokens, FALSE, pos + 1, "Start")

(* The inductive invariant.                                                *)
IInv ==
  /\ TypeOK
  /\ outcome \in {"running", "error"} =>
       CursorOK /\ ListOK(tokens, open, pos, state) /\ TextsOK(tokens, open)
  /\ outcome = "done" => DoneOK
  /\ outcome = "crash" => CrashOK

-----------------------------------------------------------------------------
(* Places.                                                                 *)

Character == STRING \cup {"NUL"}

(* A text is a sequence of characters.                                     *)
LEMMA BufType ==
  ASSUME TypeOK
  PROVE  buf \in Seq(Character) /\ Len(buf) \in Nat /\ "NUL" \in Character
<1>1. buf \in Seq(STRING)
  BY BuffersAssumption DEF TypeOK
<1>2. STRING \subseteq Character /\ "NUL" \in Character
  BY Zenon DEF Character
<1>3. buf \in Seq(Character)
  BY <1>1, <1>2, SeqMonotonic
<1> QED
  BY <1>2, <1>3

(* The line breaks before a position are finitely many.                    *)
LEMMA LineBreaksFinite ==
  ASSUME NEW p \in Nat
  PROVE  IsFiniteSet(LineBreaks(p)) /\ Cardinality(LineBreaks(p)) \in Nat
<1>1. IsFiniteSet(1..p)
  BY FS_Interval
<1>2. LineBreaks(p) \subseteq 1..p
  BY DEF LineBreaks
<1>3. IsFiniteSet(LineBreaks(p))
  BY <1>1, <1>2, FS_Subset
<1> QED
  BY <1>3, FS_CardinalityType

(* The bottom of the loop keeps line and column those of the position.     *)
LEMMA PlaceAdvances ==
  ASSUME TypeOK, pos \in 0..Len(buf)-1, At(pos, line, column),
         Advance(buf[pos+1]), UNCHANGED buf
  PROVE  At(pos, line, column)' /\ pos' \in 1..Len(buf) /\ line' \in Nat /\ column' \in Nat
<1> DEFINE c == buf[pos+1]
<1>1. /\ buf \in Seq(Character) /\ Len(buf) \in Nat /\ pos \in Nat
      /\ line \in Nat /\ column \in Nat /\ pos' = pos + 1
  BY BufType DEF TypeOK, Advance
<1>2. line' = Cardinality(LineBreaks(pos)')
  <2>1. IsFiniteSet(LineBreaks(pos)) /\ pos + 1 \notin LineBreaks(pos)
    BY <1>1, LineBreaksFinite DEF LineBreaks
  <2>2. CASE c = "\n"
    <3>1. LineBreaks(pos)' = LineBreaks(pos) \cup {pos + 1}
      BY <1>1, <2>2 DEF LineBreaks
    <3>2. Cardinality(LineBreaks(pos) \cup {pos + 1}) = line + 1
      BY <2>1, FS_AddElement DEF At
    <3> QED
      BY <3>1, <3>2, <2>2 DEF Advance
  <2>3. CASE c # "\n"
    <3>1. LineBreaks(pos)' = LineBreaks(pos)
      BY <1>1, <2>3 DEF LineBreaks
    <3> QED
      BY <3>1, <2>3 DEF Advance, At
  <2> QED
    BY <2>2, <2>3
<1>3. CASE c = "\n"
  BY <1>1, <1>2, <1>3 DEF Advance, At
<1>4. CASE c # "\n"
  <2>1. column' = column + 1 /\ line' = line
    BY <1>4 DEF Advance
  <2>2. column \in 0..pos /\ \A q \in pos-column+1..pos : buf[q] # "\n"
    BY DEF At
  <2>3. column < pos => buf[pos-column] = "\n"
    BY DEF At
  <2>4. \A q \in pos-column+1..pos+1 : buf[q] # "\n"
    BY <1>1, <1>4, <2>2
  <2>5. column' \in 0..pos' /\ pos'-column'+1 = pos-column+1 /\ pos'-column' = pos-column
    BY <1>1, <2>1, <2>2
  <2> QED
    BY <1>1, <1>2, <2>1, <2>2, <2>3, <2>4, <2>5 DEF At
<1> QED
  BY <1>3, <1>4

(* What is said of a token is said of the text, which nothing changes.     *)
LEMMA SameText ==
  ASSUME UNCHANGED buf
  PROVE  /\ \A t : PlacedOK(t)' = PlacedOK(t)
         /\ \A t : ClosedOK(t)' = ClosedOK(t)
         /\ \A t, p, s : OpenOK(t, p, s)' = OpenOK(t, p, s)
         /\ \A t : TextOf(t)' = TextOf(t)
         /\ \A t : TextFits(t)' = TextFits(t)
<1>1. \A p, l, c : At(p, l, c)' = At(p, l, c)
  BY DEF At, LineBreaks
<1>2. \A t : PlacedOK(t)' = PlacedOK(t)
  BY <1>1 DEF PlacedOK
<1>3. \A t : ClosedOK(t)' = ClosedOK(t)
  BY <1>2 DEF ClosedOK
<1>4. \A t, p, s : OpenOK(t, p, s)' = OpenOK(t, p, s)
  <2> SUFFICES ASSUME NEW t, NEW p, NEW s PROVE OpenOK(t, p, s)' = OpenOK(t, p, s)
    OBVIOUS
  <2>1. PlacedOK(t)' = PlacedOK(t)
    BY <1>2
  <2> QED
    BY <2>1 DEF OpenOK
<1>5. \A t : TextOf(t)' = TextOf(t)
  BY DEF TextOf, AtEnd
<1>6. \A t : TextFits(t)' = TextFits(t)
  BY <1>5 DEF TextFits, WordFits, NumberFits, StringFits, SwallowFits, PairFits,
              CharacterFits, Followed, AtEnd
<1> QED
  BY <1>2, <1>3, <1>4, <1>5, <1>6

-----------------------------------------------------------------------------
(* The tables.                                                             *)

KeywordInitial == {"f", "r", "m", "c", "e", "u", "p", "a"}

(* Keywords are words: their text begins with one of a few letters and     *)
(* never contains the NUL behind the buffer.                               *)
LEMMA KeywordText ==
  ASSUME NEW k \in Keyword
  PROVE  /\ k = <<k[1], k[2]>>
         /\ k[2] \in KeywordId
         /\ Len(k[1]) \in Nat \ {0}
         /\ k[1][1] \in KeywordInitial
         /\ k[1][Len(k[1])] # "NUL"
<1>1. k = <<k[1], k[2]>> /\ k[2] \in KeywordId
  BY DEF Keyword, KeywordId
<1>2. Len(k[1]) \in Nat \ {0} /\ k[1][1] \in KeywordInitial /\ k[1][Len(k[1])] # "NUL"
  BY DEF Keyword, KeywordInitial
<1> QED
  BY <1>1, <1>2

(* No id of the tables is Eof or, except for words, a keyword's.           *)
LEMMA TableIds ==
  /\ \A o \in Opening : o[2] \in TokenId /\ o[2] # "Eof" /\ o[3] \in InToken
  /\ \A o \in Single : o[2] \in TokenId /\ o[2] # "Eof"
  /\ \A o \in Second : o[3] \in TokenId /\ o[3] # "Eof"
  /\ KeywordId \subseteq TokenId \ {"Eof"}
  /\ {"CmpLessOrEq", "Eof"} \subseteq TokenId
<1>1. \A o \in Opening : o[2] \in TokenId /\ o[2] # "Eof"
  BY DEF Opening, TokenId
<1>2. \A o \in Opening : o[3] \in InToken
  BY DEF Opening, InToken, PutsBack
<1>3. \A o \in Single : o[2] \in TokenId /\ o[2] # "Eof"
  BY DEF Single, TokenId
<1>4. \A o \in Second : o[3] \in TokenId /\ o[3] # "Eof"
  BY DEF Second, TokenId
<1>5. KeywordId \subseteq TokenId \ {"Eof"}
  BY DEF KeywordId, Keyword, TokenId
<1>6. {"CmpLessOrEq", "Eof"} \subseteq TokenId
  BY DEF TokenId
<1> QED
  BY <1>1, <1>2, <1>3, <1>4, <1>5, <1>6

(* What a token that was begun by its first character may look like.       *)
LEMMA OpeningCases ==
  ASSUME NEW c, NEW id, NEW s, <<c, id, s>> \in Opening
  PROVE  \/ c \in Alpha \cup {Underscore} /\ id = "Symbol" /\ s = "Symbol"
         \/ c \in Digit /\ id = "NumberLiteral" /\ s = "Number"
         \/ c = Quote /\ id = "StringLiteral" /\ s = "String"
         \/ c = "-" /\ id = "Dash" /\ s = "SawDash"
         \/ c = "/" /\ id = "Slash" /\ s = "SawSlash"
         \/ c = "|" /\ id = "BinOr" /\ s = "Pipe"
         \/ c = "&" /\ id = "BinAnd" /\ s = "Ampersand"
         \/ c = "=" /\ id = "Eq" /\ s = "Eq"
         \/ c = "!" /\ id = "Bang" /\ s = "Bang"
         \/ c = "<" /\ id = "CmpLessThan" /\ s = "LessThan"
         \/ c = ">" /\ id = "CmpGreaterThan" /\ s = "GreaterThan"
BY DEF Opening

-----------------------------------------------------------------------------
(* end_token.                                                              *)

(* The part of a sequence from the element after first to last.            *)
LEMMA Part ==
  ASSUME NEW S, NEW s \in Seq(S), NEW first \in Nat, NEW last \in Nat,
         first < last, last <= Len(s)
  PROVE  /\ SubSeq(s, first + 1, last) \in Seq(S)
         /\ Len(SubSeq(s, first + 1, last)) = last - first
         /\ \A j \in 1..last-first : SubSeq(s, first + 1, last)[j] = s[first + j]
<1>1. \A i \in first+1..last : s[i] \in S
  OBVIOUS
<1>2. /\ SubSeq(s, first+1, last) \in Seq(S)
      /\ Len(SubSeq(s, first+1, last)) = last - (first+1) + 1
      /\ \A i \in 1..last-(first+1)+1 : SubSeq(s, first+1, last)[i] = s[first+1+i-1]
  BY <1>1, SubSeqProperties
<1>3. last - (first+1) + 1 = last - first
  OBVIOUS
<1>4. \A j \in 1..last-first : SubSeq(s, first + 1, last)[j] = s[first + j]
  <2> SUFFICES ASSUME NEW j \in 1..last-first
               PROVE  SubSeq(s, first + 1, last)[j] = s[first + j]
    OBVIOUS
  <2>1. first+1+j-1 = first+j
    OBVIOUS
  <2> QED
    BY <2>1, <1>2, <1>3
<1> QED
  BY <1>2, <1>3, <1>4

(* The text of a token ends with it or with the buffer.                    *)
LEMMA TextOfToken ==
  ASSUME TypeOK, NEW t \in Token, t.start \in 0..Len(buf)-1,
         t.start < t.end, t.end <= Len(buf) + 1
  PROVE  /\ TextOf(t) \in Seq(Character)
         /\ Len(TextOf(t)) = (IF t.end > Len(buf) THEN Len(buf) ELSE t.end) - t.start
         /\ Len(TextOf(t)) > 0
         /\ \A j \in 1..Len(TextOf(t)) : TextOf(t)[j] = buf[t.start + j]
<1> DEFINE n == IF t.end > Len(buf) THEN Len(buf) ELSE t.end
<1>1. buf \in Seq(Character) /\ Len(buf) \in Nat /\ t.start \in Nat /\ t.end \in Int
  BY BufType DEF Token
<1>2. n \in Nat /\ n <= Len(buf) /\ t.start < n
  BY <1>1
<1>3. TextOf(t) = SubSeq(buf, t.start+1, n)
  BY DEF TextOf, AtEnd
<1> HIDE DEF n
<1>4. /\ TextOf(t) \in Seq(Character)
      /\ Len(TextOf(t)) = n - t.start
      /\ \A j \in 1..n-t.start : TextOf(t)[j] = buf[t.start + j]
  BY <1>1, <1>2, <1>3, Part
<1>5. n - t.start > 0
  BY <1>1, <1>2
<1> QED
  BY <1>4, <1>5 DEF n

(* end_token looks up the text of the span, the NUL behind the buffer      *)
(* included.                                                               *)
LEMMA LookedUp ==
  ASSUME TypeOK, NEW first \in 0..Len(buf)-1, NEW last \in first..Len(buf)
  PROVE  /\ Len(Text(first, last + 1)) = last + 1 - first
         /\ Text(first, last + 1)[1] = buf[first + 1]
         /\ last = Len(buf) => Text(first, last + 1)[last + 1 - first] = "NUL"
         /\ last < Len(buf) => Text(first, last + 1) = SubSeq(buf, first + 1, last + 1)
<1> DEFINE b == Append(buf, "NUL")
           n == last + 1
<1>1. /\ buf \in Seq(Character) /\ Len(buf) \in Nat /\ "NUL" \in Character
      /\ first \in Nat /\ last \in Nat /\ n \in Nat
      /\ first < n /\ n <= Len(buf) + 1
  BY BufType
<1>2. /\ b \in Seq(Character) /\ Len(b) = Len(buf) + 1
      /\ \A i \in 1..Len(buf) : b[i] = buf[i]
      /\ b[Len(buf) + 1] = "NUL"
  BY <1>1, AppendProperties
<1>3. Text(first, n) = SubSeq(b, first+1, n)
  BY DEF Text
<1>4. last = Len(buf) <=> n = Len(buf) + 1
  BY <1>1
<1>5. last < Len(buf) <=> n <= Len(buf)
  BY <1>1
<1> SUFFICES /\ Len(Text(first, n)) = n - first
             /\ Text(first, n)[1] = buf[first + 1]
             /\ n = Len(buf) + 1 => Text(first, n)[n - first] = "NUL"
             /\ n <= Len(buf) => Text(first, n) = SubSeq(buf, first + 1, n)
  BY <1>4, <1>5
<1> HIDE DEF b, n
<1>6. /\ Text(first, n) \in Seq(Character)
      /\ Len(Text(first, n)) = n - first
      /\ \A j \in 1..n-first : Text(first, n)[j] = b[first + j]
  <2>1. b \in Seq(Character) /\ first \in Nat /\ n \in Nat /\ first < n /\ n <= Len(b)
    BY <1>1, <1>2
  <2>2. /\ SubSeq(b, first+1, n) \in Seq(Character)
        /\ Len(SubSeq(b, first+1, n)) = n - first
        /\ \A j \in 1..n-first : SubSeq(b, first+1, n)[j] = b[first + j]
    BY <2>1, Part
  <2> QED BY <2>2, <1>3
<1>7. Text(first, n)[1] = buf[first + 1]
  BY <1>1, <1>2, <1>6
<1>8. ASSUME n = Len(buf) + 1
      PROVE  Text(first, n)[n - first] = "NUL"
  <2>1. n - first \in 1..n-first /\ first + (n - first) = Len(buf) + 1
    BY <1>1, <1>8
  <2> QED
    BY <2>1, <1>2, <1>6
<1>9. ASSUME n <= Len(buf)
      PROVE  Text(first, n) = SubSeq(buf, first + 1, n)
  <2>1. /\ SubSeq(buf, first + 1, n) \in Seq(Character)
        /\ Len(SubSeq(buf, first + 1, n)) = n - first
        /\ \A j \in 1..n-first : SubSeq(buf, first + 1, n)[j] = buf[first + j]
    BY <1>1, <1>9, Part
  <2>2. \A j \in 1..n-first : first + j \in 1..Len(buf)
    BY <1>1, <1>9
  <2>3. \A j \in 1..n-first : Text(first, n)[j] = SubSeq(buf, first + 1, n)[j]
    BY <2>1, <2>2, <1>2, <1>6
  <2> QED
    BY <2>1, <2>3, <1>6, SeqEqual
<1> QED
  BY <1>6, <1>7, <1>8, <1>9

(* end_token keeps the id, or finds the keyword that the text is.          *)
LEMMA EndToken ==
  ASSUME TypeOK, NEW t, PlacedOK(t), NEW last \in t.start..Len(buf)
  PROVE  /\ ClosedOK(End(t, last))
         /\ End(t, last).start = t.start
         /\ End(t, last).end = last + 1
         /\ IF last < Len(buf) /\ \E k \in Keyword : k[1] = TextOf(End(t, last))
            THEN <<TextOf(End(t, last)), End(t, last).id>> \in Keyword
            ELSE End(t, last).id = t.id
         /\ buf[t.start + 1] \notin KeywordInitial => End(t, last).id = t.id
<1> DEFINE d == End(t, last)
           text == Text(t.start, last + 1)
           found == \E k \in Keyword : k[1] = text
           word == CHOOSE k \in Keyword : k[1] = text
<1>1. /\ t \in Token /\ t.id # "Eof" /\ t.start \in 0..Len(buf)-1 /\ Len(buf) \in Nat
      /\ At(t.start, t.line, t.column)
  BY BufType DEF PlacedOK
<1>2. /\ Len(text) = last + 1 - t.start
      /\ text[1] = buf[t.start + 1]
      /\ last = Len(buf) => text[last + 1 - t.start] = "NUL"
      /\ last < Len(buf) => text = SubSeq(buf, t.start + 1, last + 1)
  BY <1>1, LookedUp
<1>3. d = [t EXCEPT !.end = last + 1, !.id = IF found THEN word[2] ELSE t.id]
  BY DEF End, Closed
<1>4. found => word \in Keyword /\ word[1] = text
  OBVIOUS
<1> HIDE DEF text, word
<1>5. /\ d.start = t.start /\ d.end = last + 1 /\ d.line = t.line /\ d.column = t.column
      /\ d.id = IF found THEN word[2] ELSE t.id
  BY <1>1, <1>3 DEF Token
<1>6. found => /\ word = <<text, d.id>> /\ d.id \in KeywordId
               /\ text[1] \in KeywordInitial /\ text[Len(text)] # "NUL"
  BY <1>4, <1>5, KeywordText
<1>7. found => last < Len(buf)
  BY <1>1, <1>2, <1>6
<1>8. d.id \in TokenId /\ d.id # "Eof"
  BY <1>1, <1>5, <1>6, TableIds DEF Token
<1>9. d \in Token
  <2>1. d.end \in Int
    BY <1>1, <1>5
  <2> QED
    BY <1>1, <1>3, <1>8, <2>1, <1>5 DEF Token
<1>10. last < Len(buf) => TextOf(d) = text
  BY <1>1, <1>2, <1>5 DEF TextOf, AtEnd
<1>11. ClosedOK(d)
  BY <1>1, <1>5, <1>8, <1>9 DEF ClosedOK, PlacedOK
<1>12. last < Len(buf) => (found <=> \E k \in Keyword : k[1] = TextOf(d))
  BY <1>10
<1>13. found => <<text, d.id>> \in Keyword
  BY <1>4, <1>6
<1> HIDE DEF found, d
<1>14. IF last < Len(buf) /\ \E k \in Keyword : k[1] = TextOf(d)
       THEN <<TextOf(d), d.id>> \in Keyword
       ELSE d.id = t.id
  BY <1>5, <1>7, <1>10, <1>12, <1>13
<1>15. buf[t.start + 1] \notin KeywordInitial => d.id = t.id
  BY <1>2, <1>5, <1>6
<1> QED
  BY <1>5, <1>11, <1>14, <1>15 DEF d

-----------------------------------------------------------------------------
(* The list.                                                               *)

(* end_token replaces the open token.                                      *)
LEMMA ListEnds ==
  ASSUME ListOK(tokens, TRUE, pos, state), NEW d, ClosedOK(d),
         d.start = LastToken.start,
         pos \in Int, NEW p \in Int, pos <= p, d.end <= p, NEW s
  PROVE  ListOK(Replace(d), FALSE, p, s)
<1> DEFINE n == Len(tokens)
<1>1. /\ tokens \in Seq(Token) /\ n \in Nat \ {0} /\ d \in Token
      /\ \A i \in 1..n-1 : ClosedOK(tokens[i]) /\ tokens[i].end <= pos
      /\ \A i \in 1..n-1 : tokens[i].end <= tokens[i+1].start
      /\ \A i \in 1..n : tokens[i] \in Token
  BY DEF ListOK, ClosedOK, PlacedOK
<1>2. /\ Replace(d) \in Seq(Token) /\ Len(Replace(d)) = n
      /\ \A i \in 1..n : Replace(d)[i] = IF i = n THEN d ELSE tokens[i]
  BY <1>1, ExceptSeq DEF Replace
<1>3. \A i \in 1..n-1 : tokens[i].end <= p
  <2> SUFFICES ASSUME NEW i \in 1..n-1 PROVE tokens[i].end <= p
    OBVIOUS
  <2>1. tokens[i].end \in Int
    <3>1. tokens[i] \in Token
      BY <1>1
    <3> QED
      BY <3>1 DEF Token
  <2> QED
    BY <1>1, <2>1
<1>4. \A i \in 1..n-1 : Replace(d)[i].end <= Replace(d)[i+1].start
  BY <1>1, <1>2 DEF LastToken
<1> HIDE DEF n
<1> QED
  BY <1>1, <1>2, <1>3, <1>4 DEF ListOK

(* begin_token appends a token behind those there are.                     *)
LEMMA ListGrows ==
  ASSUME ListOK(tokens, FALSE, pos, state), NEW d, PlacedOK(d), d.start = pos,
         pos \in Int, NEW p \in Int, pos <= p, NEW opened \in BOOLEAN, NEW s,
         IF opened THEN OpenOK(d, p, s) ELSE ClosedOK(d) /\ d.end <= p
  PROVE  ListOK(Append(tokens, d), opened, p, s)
<1> DEFINE n == Len(tokens)
           list == Append(tokens, d)
<1>1. /\ tokens \in Seq(Token) /\ n \in Nat /\ d \in Token
      /\ \A i \in 1..n : ClosedOK(tokens[i]) /\ tokens[i].end <= pos
      /\ \A i \in 1..n-1 : tokens[i].end <= tokens[i+1].start
      /\ \A i \in 1..n : tokens[i] \in Token
  BY DEF ListOK, PlacedOK
<1>2. /\ list \in Seq(Token) /\ Len(list) = n + 1 /\ list # <<>>
      /\ \A i \in 1..n : list[i] = tokens[i]
      /\ list[n+1] = d
  BY <1>1, AppendProperties
<1>3. \A i \in 1..n : tokens[i].end <= p
  <2> SUFFICES ASSUME NEW i \in 1..n PROVE tokens[i].end <= p
    OBVIOUS
  <2>1. tokens[i].end \in Int
    BY <1>1 DEF Token
  <2> QED
    BY <1>1, <2>1
<1> HIDE DEF n, list
<1>4. \A i \in 1..Len(list)-1 : list[i].end <= list[i+1].start
  <2> SUFFICES ASSUME NEW i \in 1..n PROVE list[i].end <= list[i+1].start
    BY <1>1, <1>2
  <2>1. CASE i = n
    BY <1>1, <1>2, <2>1
  <2>2. CASE i # n
    BY <1>1, <1>2, <2>2
  <2> QED
    BY <2>1, <2>2
<1>5. \A i \in 1..Len(list) : IF opened /\ i = Len(list) THEN OpenOK(list[i], p, s)
                              ELSE ClosedOK(list[i]) /\ list[i].end <= p
  BY <1>1, <1>2, <1>3
<1> QED
  BY <1>2, <1>4, <1>5 DEF ListOK, list

(* cancel_token drops the open token.                                      *)
LEMMA ListShrinks ==
  ASSUME ListOK(tokens, TRUE, pos, state),
         pos \in Int, NEW p \in Int, pos <= p, NEW s
  PROVE  /\ ListOK(CancelToken, FALSE, p, s)
         /\ Len(CancelToken) = Len(tokens) - 1
         /\ \A i \in 1..Len(tokens)-1 : CancelToken[i] = tokens[i]
<1> DEFINE n == Len(tokens)
<1>1. /\ tokens \in Seq(Token) /\ n \in Nat \ {0}
      /\ \A i \in 1..n-1 : ClosedOK(tokens[i]) /\ tokens[i].end <= pos
      /\ \A i \in 1..n-1 : tokens[i].end <= tokens[i+1].start
      /\ \A i \in 1..n : tokens[i] \in Token
  BY DEF ListOK
<1>2. \A i \in 1..n-1 : tokens[i] \in Token
  BY <1>1
<1> HIDE DEF n
<1>3. /\ SubSeq(tokens, 1, n-1) \in Seq(Token)
      /\ Len(SubSeq(tokens, 1, n-1)) = IF 1 <= n-1 THEN (n-1)-1+1 ELSE 0
      /\ \A i \in 1..(n-1)-1+1 : SubSeq(tokens, 1, n-1)[i] = tokens[1+i-1]
  BY <1>1, <1>2, SubSeqProperties
<1>4. /\ CancelToken \in Seq(Token) /\ Len(CancelToken) = n-1
      /\ \A i \in 1..n-1 : CancelToken[i] = tokens[i]
  <2>1. CancelToken = SubSeq(tokens, 1, n-1)
    BY DEF CancelToken, n
  <2>2. (n-1)-1+1 = n-1 /\ \A i \in 1..n-1 : 1+i-1 = i
    BY <1>1
  <2>3. Len(CancelToken) = n-1
    BY <1>1, <1>3, <2>1, <2>2
  <2>4. \A i \in 1..n-1 : CancelToken[i] = tokens[i]
    BY <1>3, <2>1, <2>2
  <2> QED
    BY <1>3, <2>1, <2>3, <2>4
<1>5. \A i \in 1..n-1 : tokens[i].end <= p
  <2> SUFFICES ASSUME NEW i \in 1..n-1 PROVE tokens[i].end <= p
    OBVIOUS
  <2>1. tokens[i].end \in Int
    BY <1>2 DEF Token
  <2> QED
    BY <1>1, <2>1
<1>6. /\ \A i \in 1..n-1 : ClosedOK(CancelToken[i]) /\ CancelToken[i].end <= p
      /\ \A i \in 1..(n-1)-1 : CancelToken[i].end <= CancelToken[i+1].start
  BY <1>1, <1>4, <1>5
<1>7. ListOK(CancelToken, FALSE, p, s)
  BY <1>1, <1>4, <1>6 DEF ListOK
<1> QED
  BY <1>4, <1>7 DEF n

(* Between tokens the position moves on.                                   *)
LEMMA ListStays ==
  ASSUME ListOK(tokens, FALSE, pos, state), pos \in Int, NEW p \in Int, pos <= p, NEW s
  PROVE  ListOK(tokens, FALSE, p, s)
<1>1. tokens \in Seq(Token) /\ \A i \in 1..Len(tokens) : tokens[i] \in Token
  BY DEF ListOK
<1>2. \A i \in 1..Len(tokens) : tokens[i].end <= p
  <2> SUFFICES ASSUME NEW i \in 1..Len(tokens) PROVE tokens[i].end <= p
    OBVIOUS
  <2>1. tokens[i].end \in Int /\ tokens[i].end <= pos
    BY <1>1 DEF Token, ListOK
  <2> QED
    BY <2>1
<1> QED
  BY <1>1, <1>2 DEF ListOK

(* So it does in a token that goes on.                                     *)
LEMMA ListExtends ==
  ASSUME ListOK(tokens, TRUE, pos, state), pos \in Int, NEW p \in Int, pos <= p,
         OpenOK(LastToken, p, state)
  PROVE  ListOK(tokens, TRUE, p, state)
<1>1. /\ tokens \in Seq(Token) /\ Len(tokens) \in Nat \ {0}
      /\ \A i \in 1..Len(tokens) : tokens[i] \in Token
  BY DEF ListOK
<1>2. \A i \in 1..Len(tokens)-1 : tokens[i].end <= p
  <2> SUFFICES ASSUME NEW i \in 1..Len(tokens)-1 PROVE tokens[i].end <= p
    OBVIOUS
  <2>1. i \in 1..Len(tokens) /\ i # Len(tokens)
    BY <1>1
  <2>2. tokens[i].end \in Int /\ tokens[i].end <= pos
    BY <1>1, <2>1 DEF Token, ListOK
  <2> QED
    BY <2>2
<1> QED
  BY <1>1, <1>2 DEF ListOK, LastToken

-----------------------------------------------------------------------------
(* The texts.                                                              *)

(* The ids of tokens that no text decides.                                 *)
LEMMA IdKinds ==
  /\ \A id \in {"NumberLiteral", "StringLiteral", "Dash", "Slash"} \cup SecondId :
       id \notin {"Symbol"} \cup KeywordId
  /\ \A id \in {"Dash", "Slash"} \cup SecondId : id \notin {"NumberLiteral", "StringLiteral"}
  /\ SecondId \cap {"Dash", "Slash"} = {}
  /\ \A o \in Single :
       /\ o[1] \notin KeywordInitial
       /\ o[2] \notin {"Symbol", "NumberLiteral", "StringLiteral", "Dash", "Slash"}
                      \cup KeywordId \cup SecondId
  /\ {"BinOr", "BinAnd", "Eq", "Bang", "CmpLessThan", "CmpGreaterThan"} \cap
       ({"Symbol", "NumberLiteral", "StringLiteral", "Dash", "Slash"}
                      \cup KeywordId \cup SecondId) = {}
<1> DEFINE Kind == {"KeywordFn", "KeywordReturn", "KeywordMut", "KeywordConst",
                    "KeywordExtern", "KeywordUnreachable", "KeywordPub",
                    "KeywordExport", "KeywordAs", "KeywordUse"}
           Pair == {"CmpGreaterOrEq", "BitShiftRight", "BitShiftLeft", "CmpNotEq",
                    "CmpEq", "BoolAnd", "BoolOr", "Arrow"}
<1>1. KeywordId \subseteq Kind
  BY DEF KeywordId, Keyword
<1>2. SecondId \subseteq Pair
  BY DEF SecondId, Second
<1>3. \A o \in Single :
        /\ o[1] \notin KeywordInitial
        /\ o[2] \in {"LParen", "RParen", "Comma", "Star", "Percent", "LBrace", "RBrace",
                     "Semicolon", "Colon", "Plus", "Tilde", "NumberSign", "BinXor"}
  <2>1. /\ Comma \notin KeywordInitial /\ LeftBrace \notin KeywordInitial
        /\ RightBrace \notin KeywordInitial /\ Semicolon \notin KeywordInitial
    BY Zenon DEF Comma, LeftBrace, RightBrace, Semicolon, KeywordInitial
  <2>2. {"(", ")", "*", "%", ":", "+", "~", "#", "^"} \cap KeywordInitial = {}
    BY DEF KeywordInitial
  <2>3. \A o \in Single : o[1] \notin KeywordInitial
    BY <2>1, <2>2 DEF Single
  <2>4. \A o \in Single :
          o[2] \in {"LParen", "RParen", "Comma", "Star", "Percent", "LBrace", "RBrace",
                    "Semicolon", "Colon", "Plus", "Tilde", "NumberSign", "BinXor"}
    BY DEF Single
  <2> QED
    BY <2>3, <2>4
<1> QED
  BY <1>1, <1>2, <1>3

(* The first character of a token tells words from all other tokens.       *)
LEMMA FirstCharacter ==
  /\ \A c \in Alpha \cup {Underscore} : c \in SymbolChar /\ c \notin Digit
  /\ \A c \in Digit \cup {Quote, "-", "/", "|", "&", "=", "!", "<", ">"} :
       c \notin KeywordInitial
<1>1. \A c \in Alpha : c \notin Digit
  BY DEF Alpha, Digit
<1>2. Underscore \notin Digit
  BY Zenon DEF Underscore, Digit
<1>3. Quote \notin KeywordInitial
  BY Zenon DEF Quote, KeywordInitial
<1>4. \A c \in Digit \cup {"-", "/", "|", "&", "=", "!", "<", ">"} : c \notin KeywordInitial
  BY DEF Digit, KeywordInitial
<1> QED
  BY <1>1, <1>2, <1>3, <1>4 DEF SymbolChar

(* A word ends before the first character that cannot go on with it, or    *)
(* with the buffer.                                                        *)
LEMMA WordEnds ==
  ASSUME TypeOK, NEW t, OpenOK(t, pos, "Symbol"), NEW last \in t.start..Len(buf),
         \/ last = pos - 1 /\ pos < Len(buf) /\ buf[pos + 1] \notin SymbolChar
         \/ last = pos /\ pos = Len(buf)
  PROVE  TextFits(End(t, last))
<1> DEFINE d == End(t, last)
<1>1. /\ PlacedOK(t) /\ t.start < pos /\ <<buf[t.start + 1], t.id, "Symbol">> \in Opening
      /\ \A q \in t.start+1..pos : buf[q] \in SymbolChar
  BY DEF OpenOK
<1>2. /\ ClosedOK(d) /\ d.start = t.start /\ d.end = last + 1
      /\ IF last < Len(buf) /\ \E k \in Keyword : k[1] = TextOf(d)
         THEN <<TextOf(d), d.id>> \in Keyword ELSE d.id = t.id
  BY <1>1, EndToken
<1>3. /\ d \in Token /\ t.start \in 0..Len(buf)-1 /\ pos \in Nat /\ Len(buf) \in Nat
      /\ last \in Nat
  BY <1>1, <1>2, BufType DEF ClosedOK, PlacedOK, TypeOK
<1> HIDE DEF d
<1>4. /\ TextOf(d) \in Seq(Character)
      /\ Len(TextOf(d)) = (IF d.end > Len(buf) THEN Len(buf) ELSE d.end) - d.start
      /\ Len(TextOf(d)) > 0
      /\ \A j \in 1..Len(TextOf(d)) : TextOf(d)[j] = buf[d.start + j]
  BY <1>2, <1>3, TextOfToken DEF ClosedOK
<1>5. Len(TextOf(d)) = pos - t.start
  BY <1>2, <1>3, <1>4
<1>6. Consists(TextOf(d), SymbolChar)
  <2> SUFFICES ASSUME NEW j \in 1..Len(TextOf(d)) PROVE TextOf(d)[j] \in SymbolChar
    BY <1>4 DEF Consists
  <2>1. t.start + j \in t.start+1..pos
    BY <1>3, <1>5
  <2> QED
    BY <2>1, <1>1, <1>2, <1>4
<1>7. TextOf(d)[1] = buf[t.start + 1]
  BY <1>2, <1>4
<1>8. t.id = "Symbol" /\ TextOf(d)[1] \notin Digit
  BY <1>1, <1>7, OpeningCases, FirstCharacter
<1>9. ~Followed(d, SymbolChar)
  BY <1>2, <1>3 DEF Followed
<1>10. IF d.end > Len(buf) \/ \A k \in Keyword : k[1] # TextOf(d)
       THEN d.id = "Symbol" ELSE <<TextOf(d), d.id>> \in Keyword
  BY <1>2, <1>3, <1>8
<1>11. d.id \in {"Symbol"} \cup KeywordId
  <2>1. CASE d.id = "Symbol"
    BY <2>1
  <2>2. CASE <<TextOf(d), d.id>> \in Keyword
    BY <2>2, KeywordText
  <2> QED
    BY <1>10, <2>1, <2>2
<1>12. WordFits(d)
  BY <1>6, <1>8, <1>9, <1>10 DEF WordFits, AtEnd
<1> QED
  BY <1>11, <1>12, IdKinds DEF TextFits, d

(* So does a number.                                                       *)
LEMMA NumberEnds ==
  ASSUME TypeOK, NEW t, OpenOK(t, pos, "Number"), NEW last \in t.start..Len(buf),
         \/ last = pos - 1 /\ pos < Len(buf) /\ buf[pos + 1] \notin Digit
         \/ last = pos /\ pos = Len(buf)
  PROVE  TextFits(End(t, last))
<1> DEFINE d == End(t, last)
<1>1. /\ PlacedOK(t) /\ t.start < pos /\ <<buf[t.start + 1], t.id, "Number">> \in Opening
      /\ \A q \in t.start+1..pos : buf[q] \in Digit
  BY DEF OpenOK
<1>2. t.id = "NumberLiteral" /\ buf[t.start + 1] \notin KeywordInitial
  BY <1>1, OpeningCases, FirstCharacter
<1>3. ClosedOK(d) /\ d.start = t.start /\ d.end = last + 1 /\ d.id = t.id
  BY <1>1, <1>2, EndToken
<1>4. /\ d \in Token /\ t.start \in 0..Len(buf)-1 /\ pos \in Nat /\ Len(buf) \in Nat
      /\ last \in Nat
  BY <1>1, <1>3, BufType DEF ClosedOK, PlacedOK, TypeOK
<1> HIDE DEF d
<1>5. /\ TextOf(d) \in Seq(Character)
      /\ Len(TextOf(d)) = (IF d.end > Len(buf) THEN Len(buf) ELSE d.end) - d.start
      /\ \A j \in 1..Len(TextOf(d)) : TextOf(d)[j] = buf[d.start + j]
  BY <1>3, <1>4, TextOfToken DEF ClosedOK
<1>6. Len(TextOf(d)) = pos - t.start
  BY <1>3, <1>4, <1>5
<1>7. Consists(TextOf(d), Digit)
  <2> SUFFICES ASSUME NEW j \in 1..Len(TextOf(d)) PROVE TextOf(d)[j] \in Digit
    BY <1>5 DEF Consists
  <2>1. t.start + j \in t.start+1..pos
    BY <1>4, <1>6
  <2> QED
    BY <2>1, <1>1, <1>3, <1>5
<1>8. ~Followed(d, Digit)
  BY <1>3, <1>4 DEF Followed
<1>9. NumberFits(d)
  BY <1>7, <1>8 DEF NumberFits
<1> QED
  BY <1>2, <1>3, <1>9, IdKinds DEF TextFits, d

(* A string ends with the second quote.                                    *)
LEMMA StringEnds ==
  ASSUME TypeOK, NEW t, OpenOK(t, pos, "String"), pos < Len(buf), buf[pos + 1] = Quote
  PROVE  TextFits(End(t, pos))
<1> DEFINE d == End(t, pos)
           text == TextOf(d)
<1>1. /\ PlacedOK(t) /\ t.start < pos /\ <<buf[t.start + 1], t.id, "String">> \in Opening
      /\ \A q \in t.start+2..pos : buf[q] # Quote
  BY DEF OpenOK
<1>2. t.id = "StringLiteral" /\ buf[t.start + 1] = Quote
  BY <1>1, OpeningCases, FirstCharacter
<1>3. t.start \in 0..Len(buf)-1 /\ pos \in Nat /\ Len(buf) \in Nat
  BY <1>1, BufType DEF PlacedOK, TypeOK
<1>4. pos \in t.start..Len(buf) /\ buf[t.start + 1] \notin KeywordInitial
  BY <1>1, <1>2, <1>3, FirstCharacter
<1>5. ClosedOK(d) /\ d.start = t.start /\ d.end = pos + 1 /\ d.id = t.id
  BY <1>1, <1>4, EndToken
<1> HIDE DEF d
<1>6. /\ TextOf(d) \in Seq(Character)
      /\ Len(TextOf(d)) = (IF d.end > Len(buf) THEN Len(buf) ELSE d.end) - d.start
      /\ \A j \in 1..Len(TextOf(d)) : TextOf(d)[j] = buf[d.start + j]
  BY <1>3, <1>5, TextOfToken DEF ClosedOK, PlacedOK
<1>7. Len(text) = pos + 1 - t.start /\ Len(text) >= 2
  BY <1>1, <1>3, <1>5, <1>6
<1>8. text[1] = Quote /\ text[Len(text)] = Quote
  <2>1. 1 \in 1..Len(text) /\ Len(text) \in 1..Len(text)
    BY <1>3, <1>7
  <2>2. t.start + Len(text) = pos + 1
    BY <1>3, <1>7
  <2> QED
    BY <2>1, <2>2, <1>2, <1>5, <1>6
<1>9. ASSUME NEW j \in 1..Len(text), j # 1, j # Len(text)
      PROVE  text[j] # Quote
  <2>1. t.start + j \in t.start+2..pos
    BY <1>3, <1>7, <1>9
  <2> QED
    BY <2>1, <1>1, <1>5, <1>6
<1>10. DOMAIN text = 1..Len(text)
  BY <1>6
<1> HIDE DEF text
<1>11. {j \in DOMAIN text : text[j] = Quote} = {1, Len(text)}
  BY <1>7, <1>8, <1>9, <1>10
<1>12. StringFits(d)
  BY <1>7, <1>11 DEF StringFits, text
<1> QED
  BY <1>2, <1>5, <1>12, IdKinds DEF TextFits, d

(* Short sequences are what their elements say.                            *)
LEMMA ShortSequence ==
  ASSUME NEW S, NEW s \in Seq(S)
  PROVE  /\ Len(s) = 1 => s = <<s[1]>>
         /\ Len(s) = 2 => s = <<s[1], s[2]>>
OBVIOUS

(* A token of one character.                                               *)
LEMMA OneCharacter ==
  ASSUME TypeOK, NEW d, ClosedOK(d),
         d.end = d.start + 1 \/ d.start + 1 = Len(buf)
  PROVE  TextOf(d) = <<buf[d.start + 1]>>
<1>1. d \in Token /\ d.start \in 0..Len(buf)-1 /\ Len(buf) \in Nat /\ d.end \in Int
  BY BufType DEF ClosedOK, PlacedOK, Token
<1>2. /\ TextOf(d) \in Seq(Character)
      /\ Len(TextOf(d)) = (IF d.end > Len(buf) THEN Len(buf) ELSE d.end) - d.start
      /\ \A j \in 1..Len(TextOf(d)) : TextOf(d)[j] = buf[d.start + j]
  BY <1>1, TextOfToken DEF ClosedOK
<1>3. Len(TextOf(d)) = 1
  BY <1>1, <1>2 DEF ClosedOK
<1>4. TextOf(d)[1] = buf[d.start + 1]
  BY <1>2, <1>3
<1> QED
  BY <1>2, <1>3, <1>4, ShortSequence

(* A token of two characters.                                              *)
LEMMA TwoCharacters ==
  ASSUME TypeOK, NEW d, ClosedOK(d), d.end = d.start + 2, d.end <= Len(buf)
  PROVE  TextOf(d) = <<buf[d.start + 1], buf[d.start + 2]>>
<1>1. d \in Token /\ d.start \in 0..Len(buf)-1 /\ Len(buf) \in Nat /\ d.end \in Int
  BY BufType DEF ClosedOK, PlacedOK, Token
<1>2. /\ TextOf(d) \in Seq(Character)
      /\ Len(TextOf(d)) = (IF d.end > Len(buf) THEN Len(buf) ELSE d.end) - d.start
      /\ \A j \in 1..Len(TextOf(d)) : TextOf(d)[j] = buf[d.start + j]
  BY <1>1, TextOfToken DEF ClosedOK
<1>3. Len(TextOf(d)) = 2
  BY <1>1, <1>2 DEF ClosedOK
<1>4. 1 \in 1..Len(TextOf(d)) /\ 2 \in 1..Len(TextOf(d))
  BY <1>3
<1>5. TextOf(d)[1] = buf[d.start + 1] /\ TextOf(d)[2] = buf[d.start + 2]
  BY <1>2, <1>4
<1> QED
  BY <1>2, <1>3, <1>5, ShortSequence

(* Each character of Single is a token.                                    *)
LEMMA SingleEnds ==
  ASSUME TypeOK, NEW o \in Single, NEW t, PlacedOK(t), t.start = pos, t.id = o[2],
         pos < Len(buf), buf[pos + 1] = o[1]
  PROVE  TextFits(End(t, pos))
<1> DEFINE d == End(t, pos)
<1>1. pos \in Nat /\ Len(buf) \in Nat /\ pos \in t.start..Len(buf)
  BY BufType DEF TypeOK, PlacedOK
<1>2. ClosedOK(d) /\ d.start = pos /\ d.end = pos + 1 /\ d.id = o[2]
  BY <1>1, EndToken, IdKinds
<1> HIDE DEF d
<1>3. TextOf(d) = <<o[1]>>
  BY <1>2, OneCharacter
<1>4. CharacterFits(d)
  BY <1>2, <1>3 DEF CharacterFits
<1> QED
  BY <1>2, <1>4, IdKinds DEF TextFits, d

(* An operator that is put back behind, or that ends the buffer.           *)
LEMMA OperatorEnds ==
  ASSUME TypeOK, NEW t, NEW s \in PutsBack, OpenOK(t, pos, s),
         NEW last \in t.start..Len(buf),
         last = pos - 1 \/ (last = pos /\ pos = Len(buf))
  PROVE  TextFits(End(t, last))
<1> DEFINE d == End(t, last)
<1>1. PlacedOK(t) /\ pos = t.start + 1 /\ <<buf[t.start + 1], t.id, s>> \in Opening
  BY DEF OpenOK, PutsBack
<1>2. /\ t.id \in {"BinOr", "BinAnd", "Eq", "Bang", "CmpLessThan", "CmpGreaterThan"}
      /\ buf[t.start + 1] \notin KeywordInitial
  BY <1>1, OpeningCases, FirstCharacter DEF PutsBack
<1>3. ClosedOK(d) /\ d.start = t.start /\ d.end = last + 1 /\ d.id = t.id
  BY <1>1, <1>2, EndToken
<1>4. t.start \in Int /\ last \in Int
  BY <1>1, BufType DEF PlacedOK
<1>5. d.end = d.start + 1 \/ d.start + 1 = Len(buf)
  BY <1>1, <1>3, <1>4
<1> HIDE DEF d
<1>6. TextOf(d) = <<buf[t.start + 1]>>
  BY <1>3, <1>5, OneCharacter
<1>7. CharacterFits(d)
  BY <1>1, <1>3, <1>6 DEF CharacterFits
<1> QED
  BY <1>2, <1>3, <1>7, IdKinds DEF TextFits, d

(* "-" and "/" with the character behind them.                             *)
LEMMA SwallowEnds ==
  ASSUME TypeOK, NEW t, NEW s \in {"SawDash", "SawSlash"}, OpenOK(t, pos, s)
  PROVE  TextFits(End(t, pos))
<1> DEFINE d == End(t, pos)
<1>1. PlacedOK(t) /\ pos = t.start + 1 /\ <<buf[t.start + 1], t.id, s>> \in Opening
  BY DEF OpenOK
<1>2. /\ <<buf[t.start + 1], t.id>> \in {<<"-", "Dash">>, <<"/", "Slash">>}
      /\ buf[t.start + 1] \notin KeywordInitial
  BY <1>1, OpeningCases, FirstCharacter
<1>3. t.start \in 0..Len(buf)-1 /\ pos \in Nat /\ Len(buf) \in Nat /\ pos \in t.start..Len(buf)
  BY <1>1, BufType DEF PlacedOK, TypeOK
<1>4. ClosedOK(d) /\ d.start = t.start /\ d.end = pos + 1 /\ d.id = t.id
  BY <1>1, <1>2, <1>3, EndToken
<1> HIDE DEF d
<1>5. /\ TextOf(d) \in Seq(Character)
      /\ Len(TextOf(d)) > 0
      /\ \A j \in 1..Len(TextOf(d)) : TextOf(d)[j] = buf[d.start + j]
  BY <1>3, <1>4, TextOfToken DEF ClosedOK, PlacedOK
<1>6. TextOf(d)[1] = buf[t.start + 1]
  BY <1>4, <1>5
<1>7. SwallowFits(d)
  <2>1. d.end = d.start + 2
    BY <1>1, <1>3, <1>4
  <2> QED
    BY <2>1, <1>2, <1>4, <1>6 DEF SwallowFits
<1> QED
  BY <1>2, <1>4, <1>7, IdKinds DEF TextFits, d

(* An operator of two characters.                                          *)
LEMMA PairEnds ==
  ASSUME TypeOK, NEW s \in Second, NEW t, OpenOK(t, pos, s[1]),
         pos < Len(buf), buf[pos + 1] = s[2]
  PROVE  /\ PlacedOK([t EXCEPT !.id = s[3]])
         /\ TextFits(End([t EXCEPT !.id = s[3]], pos))
<1> DEFINE u == [t EXCEPT !.id = s[3]]
           d == End(u, pos)
<1>1. s[1] \notin {"Symbol", "Number", "String"}
  BY DEF Second
<1>2. PlacedOK(t) /\ pos = t.start + 1 /\ <<buf[t.start + 1], t.id, s[1]>> \in Opening
  BY <1>1 DEF OpenOK
<1>3. /\ u.id = s[3] /\ u.start = t.start /\ u.line = t.line /\ u.column = t.column
      /\ u \in Token
  BY <1>2, TableIds DEF PlacedOK, Token
<1>4. PlacedOK(u)
  BY <1>2, <1>3, TableIds DEF PlacedOK
<1>5. buf[t.start + 1] \notin KeywordInitial
  BY <1>1, <1>2, OpeningCases, FirstCharacter
<1>6. t.start \in 0..Len(buf)-1 /\ pos \in Nat /\ Len(buf) \in Nat /\ pos \in t.start..Len(buf)
  BY <1>2, BufType DEF PlacedOK, TypeOK
<1> HIDE DEF u
<1>7. ClosedOK(d) /\ d.start = t.start /\ d.end = pos + 1 /\ d.id = s[3]
  BY <1>3, <1>4, <1>5, <1>6, EndToken
<1> HIDE DEF d
<1>8. TextOf(d) = <<buf[t.start + 1], buf[t.start + 2]>>
  <2>1. d.end = d.start + 2 /\ d.end <= Len(buf)
    BY <1>2, <1>6, <1>7
  <2> QED
    BY <2>1, <1>7, TwoCharacters
<1>9. PairFits(d)
  <2>1. PICK o \in Opening : o = <<buf[t.start + 1], t.id, s[1]>>
    BY <1>2
  <2>2. o[1] = buf[t.start + 1] /\ o[3] = s[1] /\ buf[t.start + 2] = s[2]
    BY <2>1, <1>2, <1>6
  <2> QED
    BY <2>2, <1>7, <1>8 DEF PairFits
<1>10. d.id \in SecondId
  BY <1>7 DEF SecondId
<1>11. TextFits(d)
  BY <1>9, <1>10, IdKinds DEF TextFits
<1> QED
  BY <1>4, <1>11 DEF u, d

-----------------------------------------------------------------------------
(* The steps.                                                              *)

StateType == {"Start", "LineComment"} \cup BlockComment \cup InToken

(* What a step finds.                                                      *)
LEMMA Found ==
  ASSUME IInv, NEW c, Reading(c)
  PROVE  /\ TypeOK /\ CursorOK /\ outcome = "running"
         /\ ListOK(tokens, open, pos, state) /\ TextsOK(tokens, open)
         /\ buf \in Seq(Character) /\ Len(buf) \in Nat
         /\ pos \in 0..Len(buf)-1 /\ pos \in Nat /\ c = buf[pos + 1]
<1>1. TypeOK /\ CursorOK /\ outcome = "running" /\ pos < Len(buf) /\ c = buf[pos + 1]
  BY DEF IInv, Reading
<1>2. ListOK(tokens, open, pos, state) /\ TextsOK(tokens, open)
  BY DEF IInv, Reading
<1>3. buf \in Seq(Character) /\ Len(buf) \in Nat
  BY <1>1, BufType
<1> QED
  BY <1>1, <1>2, <1>3 DEF CursorOK

(* What it finds in a token.                                               *)
LEMMA FoundOpen ==
  ASSUME TypeOK, CursorOK, ListOK(tokens, open, pos, state), state \in InToken
  PROVE  /\ open = TRUE
         /\ Len(tokens) \in Nat \ {0}
         /\ OpenOK(LastToken, pos, state)
         /\ LastToken.start \in 0..Len(buf)-1
         /\ pos \in LastToken.start..Len(buf)
         /\ pos - 1 \in LastToken.start..Len(buf)
<1>1. open = TRUE
  BY DEF CursorOK, TypeOK
<1>2. tokens \in Seq(Token) /\ tokens # <<>>
  BY <1>1 DEF ListOK
<1>3. Len(tokens) \in Nat \ {0}
  BY <1>2
<1>4. OpenOK(LastToken, pos, state)
  BY <1>1, <1>3 DEF ListOK, LastToken
<1>5. /\ LastToken.start \in 0..Len(buf)-1 /\ LastToken.start < pos
      /\ Len(buf) \in Nat /\ pos \in 0..Len(buf)
  BY <1>4, BufType DEF OpenOK, PlacedOK, CursorOK
<1> QED
  BY <1>1, <1>3, <1>4, <1>5

(* The parts of the invariant after a step that goes on.                   *)
LEMMA GoesOn ==
  ASSUME TypeOK, UNCHANGED buf, outcome' = "running",
         open' \in BOOLEAN, state' \in StateType, open' <=> state' \in InToken,
         pos' \in 0..Len(buf), line' \in Nat, column' \in Nat, At(pos, line, column)',
         commentCount' \in Nat, state' \in BlockComment => commentCount' >= 1,
         ListOK(tokens', open', pos', state'), TextsOK(tokens', open')
  PROVE  IInv'
<1>1. Len(buf) \in Nat
  BY BufType
<1>2. tokens' \in Seq(Token)
  BY DEF ListOK
<1>3. TypeOK'
  BY <1>1, <1>2 DEF TypeOK, StateType
<1>4. CursorOK'
  BY DEF CursorOK
<1>5. ListOK(tokens, open, pos, state)'
  BY SameText DEF ListOK
<1>6. TextsOK(tokens, open)'
  BY SameText DEF TextsOK
<1> QED
  BY <1>3, <1>4, <1>5, <1>6 DEF IInv

(* After any token ends, the text of every token is right.                 *)
LEMMA TextsEnd ==
  ASSUME ListOK(tokens, TRUE, pos, state), TextsOK(tokens, TRUE), NEW d, TextFits(d)
  PROVE  TextsOK(Replace(d), FALSE)
<1>1. tokens \in Seq(Token) /\ Len(tokens) \in Nat \ {0}
  BY DEF ListOK
<1>2. /\ Len(Replace(d)) = Len(tokens)
      /\ \A i \in 1..Len(tokens) : Replace(d)[i] = IF i = Len(tokens) THEN d ELSE tokens[i]
  BY <1>1 DEF Replace
<1> QED
  BY <1>1, <1>2 DEF TextsOK

(* So it is when one begins, or is there at once.                          *)
LEMMA TextsGrow ==
  ASSUME ListOK(tokens, FALSE, pos, state), TextsOK(tokens, FALSE), NEW d \in Token,
         NEW opened \in BOOLEAN, opened \/ TextFits(d)
  PROVE  TextsOK(Append(tokens, d), opened)
<1>1. tokens \in Seq(Token) /\ Len(tokens) \in Nat
  BY DEF ListOK
<1>2. /\ Len(Append(tokens, d)) = Len(tokens) + 1
      /\ \A i \in 1..Len(tokens) : Append(tokens, d)[i] = tokens[i]
      /\ Append(tokens, d)[Len(tokens) + 1] = d
  BY <1>1, AppendProperties
<1> QED
  BY <1>1, <1>2 DEF TextsOK

(* A token that ends where the step then goes on.                          *)
LEMMA Closing ==
  ASSUME TypeOK, CursorOK, ListOK(tokens, open, pos, state), TextsOK(tokens, open),
         outcome = "running", state \in InToken,
         NEW t, PlacedOK(t), t.start = LastToken.start,
         NEW last \in t.start..Len(buf), TextFits(End(t, last)), Close(End(t, last)),
         UNCHANGED <<buf, commentCount, outcome>>,
         At(pos, line, column)', pos' \in 0..Len(buf), line' \in Nat, column' \in Nat,
         pos <= pos', last + 1 <= pos'
  PROVE  IInv'
<1>1. /\ open = TRUE /\ Len(buf) \in Nat /\ pos \in Int /\ pos' \in Int
  BY FoundOpen, BufType DEF TypeOK
<1>2. ClosedOK(End(t, last)) /\ End(t, last).start = t.start /\ End(t, last).end = last + 1
  BY EndToken
<1>3. tokens' = Replace(End(t, last)) /\ open' = FALSE /\ state' = "Start"
  BY DEF Close
<1>4. ListOK(tokens', open', pos', state')
  BY <1>1, <1>2, <1>3, ListEnds
<1>5. TextsOK(tokens', open')
  BY <1>1, <1>3, TextsEnd
<1>6. "Start" \in StateType /\ "Start" \notin InToken /\ "Start" \notin BlockComment
  BY DEF StateType, InToken, PutsBack, BlockComment
<1>7. commentCount' \in Nat /\ outcome' = "running"
  BY DEF TypeOK
<1> QED
  BY <1>3, <1>4, <1>5, <1>6, <1>7, GoesOn

(* A step that advances is at its place after it.                          *)
LEMMA Advances ==
  ASSUME IInv, NEW c, Reading(c), Advance(c), UNCHANGED buf
  PROVE  /\ At(pos, line, column)' /\ pos' = pos + 1 /\ pos' \in 0..Len(buf)
         /\ pos \in Int /\ pos' \in Int /\ pos <= pos' /\ line' \in Nat /\ column' \in Nat
<1>1. /\ TypeOK /\ pos \in 0..Len(buf)-1 /\ c = buf[pos + 1] /\ Len(buf) \in Nat
      /\ At(pos, line, column)
  BY Found DEF CursorOK
<1>2. At(pos, line, column)' /\ pos' \in 1..Len(buf) /\ line' \in Nat /\ column' \in Nat
  BY <1>1, PlaceAdvances
<1> QED
  BY <1>1, <1>2 DEF Advance

(* Blanks leave the list as it is.                                         *)
LEMMA SkipSpaceKeeps ==
  ASSUME IInv, NEW c, Reading(c), SkipSpace(c)
  PROVE  IInv'
<1>1. /\ TypeOK /\ CursorOK /\ ListOK(tokens, open, pos, state) /\ TextsOK(tokens, open)
      /\ pos \in Nat /\ outcome = "running"
  BY Found
<1>2. /\ At(pos, line, column)' /\ pos' \in 0..Len(buf) /\ pos <= pos'
      /\ pos \in Int /\ pos' \in Int
      /\ line' \in Nat /\ column' \in Nat
  BY Advances DEF SkipSpace
<1>3. state = "Start" /\ open = FALSE /\ state \notin BlockComment /\ state \in StateType
  BY <1>1 DEF SkipSpace, CursorOK, TypeOK, StateType, InToken, PutsBack, BlockComment
<1>4. ListOK(tokens, FALSE, pos', "Start")
  BY <1>1, <1>2, <1>3, ListStays
<1>5. commentCount \in Nat /\ open' \in BOOLEAN
  BY <1>1 DEF TypeOK, SkipSpace
<1> QED
  BY <1>1, <1>2, <1>3, <1>4, <1>5, GoesOn DEF SkipSpace, CursorOK

(* A token begins where the position is.                                   *)
LEMMA BeginPlaced ==
  ASSUME TypeOK, CursorOK, pos \in 0..Len(buf)-1, NEW id \in TokenId, id # "Eof"
  PROVE  /\ PlacedOK(Begin(id, pos)) /\ Begin(id, pos).start = pos
         /\ Begin(id, pos).id = id
<1>1. Begin(id, pos) \in Token
  BY BufType DEF Begin, Token, Unset, TypeOK
<1> QED
  BY <1>1 DEF Begin, PlacedOK, CursorOK

(* The first character opens a token.                                      *)
LEMMA OpenTokenKeeps ==
  ASSUME IInv, NEW c, Reading(c), OpenToken(c)
  PROVE  IInv'
<1>1. /\ TypeOK /\ CursorOK /\ ListOK(tokens, open, pos, state) /\ TextsOK(tokens, open)
      /\ pos \in Nat /\ outcome = "running" /\ pos \in 0..Len(buf)-1 /\ Len(buf) \in Nat
      /\ c = buf[pos + 1]
  BY Found
<1>2. /\ At(pos, line, column)' /\ pos' = pos + 1 /\ pos' \in 0..Len(buf)
      /\ pos \in Int /\ pos' \in Int
      /\ pos <= pos' /\ line' \in Nat /\ column' \in Nat
  BY Advances DEF OpenToken
<1>3. state = "Start" /\ open = FALSE
  BY <1>1 DEF OpenToken, CursorOK, TypeOK, InToken, PutsBack
<1>4. PICK t \in Opening : /\ t[1] = c
                           /\ tokens' = Append(tokens, Begin(t[2], pos))
                           /\ state' = t[3]
  BY DEF OpenToken
<1> DEFINE d == Begin(t[2], pos)
<1>5. t[2] \in TokenId /\ t[2] # "Eof" /\ t[3] \in InToken
  BY <1>4, TableIds
<1>6. PlacedOK(d) /\ d.start = pos /\ d.id = t[2]
  BY <1>1, <1>5, BeginPlaced
<1> HIDE DEF d
<1>7. OpenOK(d, pos', state')
  <2>1. <<c, t[2], t[3]>> \in Opening
    <3>1. t = <<t[1], t[2], t[3]>>
      BY <1>4 DEF Opening
    <3> QED
      BY <3>1, <1>4
  <2>2. t[3] = "Symbol" => c \in SymbolChar
    BY <2>1, OpeningCases, FirstCharacter
  <2>3. t[3] = "Number" => c \in Digit
    BY <2>1, OpeningCases
  <2>4. \A q \in pos+1..pos' : buf[q] = c
    BY <1>1, <1>2
  <2>5. \A q \in pos+2..pos' : FALSE
    BY <1>1, <1>2
  <2> QED
    BY <1>1, <1>2, <1>4, <1>6, <2>1, <2>2, <2>3, <2>4, <2>5 DEF OpenOK
<1>8. ListOK(tokens', TRUE, pos', state')
  <2>1. TRUE \in BOOLEAN
    OBVIOUS
  <2> QED
    BY <1>1, <1>2, <1>3, <1>4, <1>6, <1>7, <2>1, ListGrows DEF d
<1>9. TextsOK(tokens', TRUE)
  <2>1. d \in Token /\ TRUE \in BOOLEAN
    BY <1>6 DEF PlacedOK
  <2> QED
    BY <1>1, <1>3, <1>4, <2>1, TextsGrow DEF d
<1>10. /\ state' \in StateType /\ state' \in InToken /\ state' \notin BlockComment
       /\ open' = TRUE /\ commentCount' \in Nat /\ outcome' = "running" /\ UNCHANGED buf
  BY <1>1, <1>4, <1>5 DEF OpenToken, StateType, TypeOK, InToken, PutsBack, BlockComment
<1> QED
  BY <1>1, <1>2, <1>8, <1>9, <1>10, GoesOn

(* A character of Single is begun and ended at once.                       *)
LEMMA SingleTokenKeeps ==
  ASSUME IInv, NEW c, Reading(c), SingleToken(c)
  PROVE  IInv'
<1>1. /\ TypeOK /\ CursorOK /\ ListOK(tokens, open, pos, state) /\ TextsOK(tokens, open)
      /\ pos \in Nat /\ outcome = "running" /\ pos \in 0..Len(buf)-1 /\ Len(buf) \in Nat
      /\ c = buf[pos + 1]
  BY Found
<1>2. /\ At(pos, line, column)' /\ pos' = pos + 1 /\ pos' \in 0..Len(buf)
      /\ pos \in Int /\ pos' \in Int
      /\ pos <= pos' /\ line' \in Nat /\ column' \in Nat
  BY Advances DEF SingleToken
<1>3. /\ state = "Start" /\ open = FALSE /\ state \in StateType
      /\ state \notin InToken /\ state \notin BlockComment
  BY <1>1 DEF SingleToken, CursorOK, TypeOK, StateType, InToken, PutsBack, BlockComment
<1>4. PICK t \in Single : /\ t[1] = c
                          /\ tokens' = Append(tokens, End(Begin(t[2], pos), pos))
  BY DEF SingleToken
<1> DEFINE b == Begin(t[2], pos)
           d == End(b, pos)
<1>5. t[2] \in TokenId /\ t[2] # "Eof"
  BY <1>4, TableIds
<1>6. PlacedOK(b) /\ b.start = pos /\ b.id = t[2]
  BY <1>1, <1>5, BeginPlaced
<1> HIDE DEF b
<1>7. pos \in b.start..Len(buf) /\ pos < Len(buf)
  BY <1>1, <1>6
<1>8. ClosedOK(d) /\ d.start = pos /\ d.end = pos + 1
  BY <1>1, <1>6, <1>7, EndToken
<1>9. TextFits(d)
  BY <1>1, <1>4, <1>6, <1>7, SingleEnds
<1>10. tokens' = Append(tokens, d)
  BY <1>4 DEF b
<1> HIDE DEF d
<1>11. ListOK(tokens', FALSE, pos', state)
  <2>1. FALSE \in BOOLEAN /\ d.end <= pos' /\ PlacedOK(d)
    BY <1>1, <1>2, <1>8 DEF ClosedOK
  <2> QED
    BY <1>1, <1>2, <1>3, <1>8, <1>10, <2>1, ListGrows
<1>12. TextsOK(tokens', FALSE)
  <2>1. d \in Token /\ FALSE \in BOOLEAN
    BY <1>8 DEF ClosedOK, PlacedOK
  <2> QED
    BY <1>1, <1>3, <1>9, <1>10, <2>1, TextsGrow
<1>13. /\ state' = state /\ open' = FALSE /\ commentCount' \in Nat /\ outcome' = "running"
       /\ UNCHANGED buf
  BY <1>1, <1>3 DEF SingleToken, TypeOK
<1> QED
  BY <1>1, <1>2, <1>3, <1>11, <1>12, <1>13, GoesOn

(* The error leaves everything as it is.                                   *)
LEMMA InvalidCharacterKeeps ==
  ASSUME IInv, NEW c, Reading(c), InvalidCharacter(c)
  PROVE  IInv'
<1>1. /\ TypeOK /\ CursorOK /\ ListOK(tokens, open, pos, state) /\ TextsOK(tokens, open)
  BY Found
<1>2. UNCHANGED <<buf, pos, state, tokens, open, line, column, commentCount>> /\ outcome' = "error"
  BY DEF InvalidCharacter
<1>3. TypeOK'
  BY <1>1, <1>2 DEF TypeOK
<1>4. CursorOK'
  BY <1>1, <1>2 DEF CursorOK, At, LineBreaks
<1>5. ListOK(tokens, open, pos, state)' /\ TextsOK(tokens, open)'
  BY <1>1, <1>2, SameText DEF ListOK, TextsOK
<1> QED
  BY <1>2, <1>3, <1>4, <1>5 DEF IInv

(* A character that goes on with the token.                                *)
LEMMA ExtendKeeps ==
  ASSUME IInv, NEW c, Reading(c), Extend(c)
  PROVE  IInv'
<1>1. /\ TypeOK /\ CursorOK /\ ListOK(tokens, open, pos, state) /\ TextsOK(tokens, open)
      /\ pos \in Nat /\ outcome = "running" /\ pos \in 0..Len(buf)-1 /\ Len(buf) \in Nat
      /\ c = buf[pos + 1]
  BY Found
<1>2. /\ At(pos, line, column)' /\ pos' = pos + 1 /\ pos' \in 0..Len(buf)
      /\ pos \in Int /\ pos' \in Int
      /\ pos <= pos' /\ line' \in Nat /\ column' \in Nat
  BY Advances DEF Extend
<1>3. /\ state \in {"Symbol", "Number", "String"} /\ state \in InToken
      /\ state \in StateType /\ state \notin BlockComment
  BY DEF Extend, Continues, InToken, PutsBack, StateType, BlockComment
<1>4. /\ open = TRUE /\ OpenOK(LastToken, pos, state) /\ LastToken.start \in Nat
  BY <1>1, <1>3, FoundOpen
<1>5. OpenOK(LastToken, pos', state)
  <2>1. \A q \in LastToken.start+1..pos' : q \in LastToken.start+1..pos \/ buf[q] = c
    BY <1>1, <1>2, <1>4
  <2>2. \A q \in LastToken.start+2..pos' : q \in LastToken.start+2..pos \/ buf[q] = c
    BY <1>1, <1>2, <1>4
  <2>3. LastToken.start < pos'
    BY <1>1, <1>2, <1>4 DEF OpenOK
  <2> QED
    BY <1>3, <1>4, <2>1, <2>2, <2>3 DEF OpenOK, Extend, Continues
<1>6. ListOK(tokens, TRUE, pos', state)
  BY <1>1, <1>2, <1>4, <1>5, ListExtends
<1>7. /\ state' = state /\ open' = TRUE /\ tokens' = tokens /\ commentCount' \in Nat
      /\ outcome' = "running" /\ UNCHANGED buf
  BY <1>1, <1>4 DEF Extend, TypeOK
<1> QED
  BY <1>1, <1>2, <1>3, <1>4, <1>6, <1>7, GoesOn

(* The second quote ends a string.                                         *)
LEMMA CloseStringKeeps ==
  ASSUME IInv, NEW c, Reading(c), CloseString(c)
  PROVE  IInv'
<1>1. /\ TypeOK /\ CursorOK /\ ListOK(tokens, open, pos, state) /\ TextsOK(tokens, open)
      /\ outcome = "running" /\ pos \in 0..Len(buf)-1 /\ Len(buf) \in Nat /\ c = buf[pos + 1]
  BY Found
<1>2. /\ At(pos, line, column)' /\ pos' = pos + 1 /\ pos' \in 0..Len(buf)
      /\ pos <= pos' /\ line' \in Nat /\ column' \in Nat
  BY Advances DEF CloseString
<1>3. state = "String" /\ state \in InToken /\ c = Quote
  BY DEF CloseString, InToken
<1>4. OpenOK(LastToken, pos, "String") /\ pos \in LastToken.start..Len(buf)
  BY <1>1, <1>3, FoundOpen
<1>5. PlacedOK(LastToken) /\ pos < Len(buf)
  BY <1>1, <1>4 DEF OpenOK
<1>6. TextFits(End(LastToken, pos))
  BY <1>1, <1>3, <1>4, <1>5, StringEnds
<1>7. Close(End(LastToken, pos)) /\ UNCHANGED <<buf, commentCount, outcome>>
  BY DEF CloseString
<1> QED
  BY <1>1, <1>2, <1>3, <1>4, <1>5, <1>6, <1>7, Closing

(* The second character completes an operator.                             *)
LEMMA SecondCharacterKeeps ==
  ASSUME IInv, NEW c, Reading(c), SecondCharacter(c)
  PROVE  IInv'
<1>1. /\ TypeOK /\ CursorOK /\ ListOK(tokens, open, pos, state) /\ TextsOK(tokens, open)
      /\ outcome = "running" /\ pos \in 0..Len(buf)-1 /\ Len(buf) \in Nat /\ c = buf[pos + 1]
  BY Found
<1>2. /\ At(pos, line, column)' /\ pos' = pos + 1 /\ pos' \in 0..Len(buf)
      /\ pos <= pos' /\ line' \in Nat /\ column' \in Nat
  BY Advances DEF SecondCharacter
<1>3. PICK t \in Second : /\ t[1] = state
                          /\ t[2] = c
                          /\ Close(End([LastToken EXCEPT !.id = t[3]], pos))
  BY DEF SecondCharacter
<1> DEFINE u == [LastToken EXCEPT !.id = t[3]]
<1>4. state \in InToken
  BY <1>3 DEF Second, InToken, PutsBack
<1>5. OpenOK(LastToken, pos, t[1]) /\ pos \in LastToken.start..Len(buf) /\ pos < Len(buf)
  BY <1>1, <1>3, <1>4, FoundOpen
<1>6. PlacedOK(u) /\ TextFits(End(u, pos))
  BY <1>1, <1>3, <1>5, PairEnds
<1>7. u.start = LastToken.start
  BY <1>5 DEF OpenOK, PlacedOK, Token
<1>8. UNCHANGED <<buf, commentCount, outcome>>
  BY DEF SecondCharacter
<1> HIDE DEF u
<1>9. pos \in u.start..Len(buf) /\ pos + 1 <= pos'
  BY <1>1, <1>2, <1>5, <1>7
<1>10. Close(End(u, pos))
  BY <1>3 DEF u
<1> QED
  BY <1>1, <1>2, <1>4, <1>6, <1>7, <1>8, <1>9, <1>10, Closing

(* The character after a word, a number or an operator is read again.      *)
LEMMA EndAndPutBackKeeps ==
  ASSUME IInv, NEW c, Reading(c), EndAndPutBack(c)
  PROVE  IInv'
<1>1. /\ TypeOK /\ CursorOK /\ ListOK(tokens, open, pos, state) /\ TextsOK(tokens, open)
      /\ outcome = "running" /\ pos \in 0..Len(buf)-1 /\ Len(buf) \in Nat /\ c = buf[pos + 1]
  BY Found
<1>2. /\ UNCHANGED <<pos, line, column>> /\ UNCHANGED <<buf, commentCount, outcome>>
      /\ Ends(c) /\ Close(End(LastToken, pos - 1))
  BY DEF EndAndPutBack, PutBack
<1>3. /\ At(pos, line, column)' /\ pos' \in 0..Len(buf) /\ pos <= pos'
      /\ line' \in Nat /\ column' \in Nat
  BY <1>1, <1>2 DEF At, LineBreaks, TypeOK, CursorOK
<1>4. state \in InToken
  BY <1>2 DEF Ends, InToken
<1>5. /\ OpenOK(LastToken, pos, state) /\ pos - 1 \in LastToken.start..Len(buf)
      /\ pos < Len(buf)
  BY <1>1, <1>4, FoundOpen
<1>6. PlacedOK(LastToken)
  BY <1>5 DEF OpenOK
<1>7. TextFits(End(LastToken, pos - 1))
  <2>1. CASE state = "Symbol" /\ c \notin SymbolChar
    BY <1>1, <1>5, <2>1, WordEnds
  <2>2. CASE state = "Number" /\ c \notin Digit
    BY <1>1, <1>5, <2>2, NumberEnds
  <2>3. CASE state \in PutsBack
    BY <1>1, <1>5, <2>3, OperatorEnds
  <2> QED
    BY <1>2, <2>1, <2>2, <2>3 DEF Ends
<1>8. (pos - 1) + 1 <= pos'
  BY <1>1, <1>2
<1> QED
  BY <1>1, <1>2, <1>3, <1>4, <1>5, <1>6, <1>7, <1>8, Closing

(* "-" and "/" take the character behind them in.                          *)
LEMMA EndAndSwallowKeeps ==
  ASSUME IInv, NEW c, Reading(c), EndAndSwallow(c)
  PROVE  IInv'
<1>1. /\ TypeOK /\ CursorOK /\ ListOK(tokens, open, pos, state) /\ TextsOK(tokens, open)
      /\ outcome = "running" /\ pos \in 0..Len(buf)-1 /\ Len(buf) \in Nat
  BY Found
<1>2. /\ At(pos, line, column)' /\ pos' = pos + 1 /\ pos' \in 0..Len(buf)
      /\ pos <= pos' /\ line' \in Nat /\ column' \in Nat
  BY Advances DEF EndAndSwallow
<1>3. state \in {"SawDash", "SawSlash"} /\ state \in InToken
  BY DEF EndAndSwallow, InToken
<1>4. OpenOK(LastToken, pos, state) /\ pos \in LastToken.start..Len(buf)
  BY <1>1, <1>3, FoundOpen
<1>5. PlacedOK(LastToken)
  BY <1>4 DEF OpenOK
<1>6. TextFits(End(LastToken, pos))
  BY <1>1, <1>3, <1>4, SwallowEnds
<1>7. Close(End(LastToken, pos)) /\ UNCHANGED <<buf, commentCount, outcome>>
  BY DEF EndAndSwallow
<1> QED
  BY <1>1, <1>2, <1>3, <1>4, <1>5, <1>6, <1>7, Closing

(* A second "/" or a "*" turns the open token into a comment.              *)
LEMMA OpenCommentKeeps ==
  ASSUME IInv, NEW c, Reading(c), OpenComment(c)
  PROVE  IInv'
<1>1. /\ TypeOK /\ CursorOK /\ ListOK(tokens, open, pos, state) /\ TextsOK(tokens, open)
      /\ outcome = "running" /\ pos \in 0..Len(buf)-1 /\ Len(buf) \in Nat
  BY Found
<1>2. /\ At(pos, line, column)' /\ pos' = pos + 1 /\ pos' \in 0..Len(buf)
      /\ pos \in Int /\ pos' \in Int /\ pos <= pos' /\ line' \in Nat /\ column' \in Nat
  BY Advances DEF OpenComment
<1>3. state = "SawSlash" /\ state \in InToken
  BY DEF OpenComment, InToken
<1>4. open = TRUE
  BY <1>1, <1>3, FoundOpen
<1>5. tokens' = CancelToken /\ open' = FALSE /\ outcome' = "running" /\ UNCHANGED buf
  BY <1>1 DEF OpenComment
<1>6. /\ state' \in StateType /\ state' \notin InToken
      /\ commentCount' \in Nat
      /\ state' \in BlockComment => commentCount' >= 1
  BY <1>1 DEF OpenComment, StateType, InToken, PutsBack, BlockComment, TypeOK
<1>7. /\ ListOK(CancelToken, FALSE, pos', state')
      /\ Len(CancelToken) = Len(tokens) - 1
      /\ \A i \in 1..Len(tokens)-1 : CancelToken[i] = tokens[i]
  BY <1>1, <1>2, <1>4, ListShrinks
<1>8. TextsOK(CancelToken, FALSE)
  <2>1. Len(tokens) \in Nat
    BY <1>1 DEF ListOK
  <2> QED
    BY <1>1, <1>4, <1>7, <2>1 DEF TextsOK
<1> QED
  BY <1>1, <1>2, <1>5, <1>6, <1>7, <1>8, GoesOn

(* Comments leave the list as it is.                                       *)
LEMMA CommentKeeps ==
  ASSUME IInv, NEW c, Reading(c), LineComment(c) \/ MultiLineComment(c)
  PROVE  IInv'
<1>1. /\ TypeOK /\ CursorOK /\ ListOK(tokens, open, pos, state) /\ TextsOK(tokens, open)
      /\ outcome = "running"
  BY Found
<1>2. /\ At(pos, line, column)' /\ pos' \in 0..Len(buf) /\ pos \in Int /\ pos' \in Int
      /\ pos <= pos' /\ line' \in Nat /\ column' \in Nat
  BY Advances DEF LineComment, MultiLineComment
<1>3. state \notin InToken /\ open = FALSE
  BY <1>1 DEF LineComment, MultiLineComment, InToken, PutsBack, BlockComment, CursorOK, TypeOK
<1>4. /\ tokens' = tokens /\ open' = FALSE /\ outcome' = "running" /\ UNCHANGED buf
  BY <1>1, <1>3 DEF LineComment, MultiLineComment
<1>5. /\ state' \in StateType /\ state' \notin InToken
      /\ commentCount' \in Nat
      /\ state' \in BlockComment => commentCount' >= 1
  <2>1. CASE LineComment(c)
    BY <1>1, <2>1 DEF LineComment, StateType, InToken, PutsBack, BlockComment, TypeOK
  <2>2. CASE MultiLineComment(c)
    <3>1. commentCount \in Nat /\ commentCount >= 1 /\ commentCount' = NewCount(c)
      BY <1>1, <2>2 DEF MultiLineComment, CursorOK, TypeOK
    <3>2. commentCount' \in Nat /\ (commentCount' = 0 => Closes(c))
      BY <3>1 DEF NewCount
    <3>3. state' \in {"Start"} \cup BlockComment
      BY <2>2 DEF MultiLineComment, BlockComment
    <3>4. commentCount' = 0 => state' = "Start"
      BY <2>2, <3>1, <3>2 DEF MultiLineComment
    <3> QED
      BY <3>2, <3>3, <3>4 DEF StateType, InToken, PutsBack, BlockComment
  <2> QED
    BY <2>1, <2>2
<1>6. ListOK(tokens, FALSE, pos', state')
  BY <1>1, <1>2, <1>3, ListStays
<1> QED
  BY <1>1, <1>2, <1>3, <1>4, <1>5, <1>6, GoesOn

(* "<=" crashes after its token has ended.                                 *)
LEMMA LessOrEqualKeeps ==
  ASSUME IInv, NEW c, Reading(c), LessOrEqual(c)
  PROVE  IInv'
<1>1. /\ TypeOK /\ CursorOK /\ ListOK(tokens, open, pos, state)
      /\ pos \in 0..Len(buf)-1 /\ Len(buf) \in Nat
  BY Found
<1>2. state \in InToken
  BY DEF LessOrEqual, InToken, PutsBack
<1>3. /\ open = TRUE /\ OpenOK(LastToken, pos, state) /\ pos \in LastToken.start..Len(buf)
  BY <1>1, <1>2, FoundOpen
<1> DEFINE u == [LastToken EXCEPT !.id = "CmpLessOrEq"]
           d == End(u, pos)
<1>4. PlacedOK(LastToken)
  BY <1>3 DEF OpenOK
<1>5. PlacedOK(u) /\ u.start = LastToken.start
  <2>1. "CmpLessOrEq" \in TokenId
    BY TableIds
  <2> QED
    BY <1>4, <2>1 DEF PlacedOK, Token
<1> HIDE DEF u
<1>6. ClosedOK(d) /\ d.start = LastToken.start /\ d.end = pos + 1
  BY <1>1, <1>3, <1>5, EndToken
<1>7. tokens' = Replace(d) /\ open' = FALSE /\ state' = "Start"
  BY DEF LessOrEqual, Close, u
<1> HIDE DEF d
<1>8. outcome' = "crash" /\ UNCHANGED <<buf, pos, line, column, commentCount>>
  BY DEF LessOrEqual
<1>9. ListOK(tokens', FALSE, pos + 1, "Start")
  <2>1. pos \in Int /\ pos + 1 \in Int /\ pos <= pos + 1 /\ d.end <= pos + 1
    BY <1>1, <1>6
  <2> QED
    BY <1>1, <1>3, <1>6, <1>7, <2>1, ListEnds
<1>10. TypeOK'
  BY <1>1, <1>7, <1>8, <1>9 DEF TypeOK, ListOK
<1>11. CrashOK'
  BY <1>7, <1>8, <1>9, SameText DEF CrashOK, ListOK
<1> QED
  BY <1>8, <1>10, <1>11 DEF IInv

-----------------------------------------------------------------------------
(* The end of the buffer.                                                  *)

(* The text ends every token but a string and a "/".                       *)
LEMMA EndOfTextEnds ==
  ASSUME TypeOK, CursorOK, ListOK(tokens, open, pos, state), TextsOK(tokens, open),
         pos = Len(buf), state \in InToken \ {"String", "SawSlash"}
  PROVE  /\ ListOK(Replace(End(LastToken, pos)), FALSE, Len(buf) + 1, "Start")
         /\ TextsOK(Replace(End(LastToken, pos)), FALSE)
<1> DEFINE d == End(LastToken, pos)
<1>1. /\ open = TRUE /\ OpenOK(LastToken, pos, state) /\ pos \in LastToken.start..Len(buf)
      /\ Len(buf) \in Nat
  BY FoundOpen, BufType
<1>2. PlacedOK(LastToken)
  BY <1>1 DEF OpenOK
<1>3. ClosedOK(d) /\ d.start = LastToken.start /\ d.end = pos + 1
  BY <1>1, <1>2, EndToken
<1>4. TextFits(d)
  <2>1. CASE state = "Symbol"
    BY <1>1, <2>1, WordEnds
  <2>2. CASE state = "Number"
    BY <1>1, <2>2, NumberEnds
  <2>3. CASE state \in PutsBack
    BY <1>1, <2>3, OperatorEnds
  <2>4. CASE state = "SawDash"
    BY <1>1, <2>4, SwallowEnds
  <2> QED
    BY <2>1, <2>2, <2>3, <2>4 DEF InToken
<1> HIDE DEF d
<1>5. pos \in Int /\ pos + 1 \in Int /\ pos <= pos + 1 /\ d.end <= pos + 1
  BY <1>1, <1>3
<1>6. ListOK(Replace(d), FALSE, pos + 1, "Start")
  BY <1>1, <1>3, <1>5, ListEnds
<1>7. TextsOK(Replace(d), FALSE)
  BY <1>1, <1>4, TextsEnd
<1> QED
  BY <1>6, <1>7 DEF d

(* The Eof token is the last, and the list before it as it was.            *)
LEMMA EofBehind ==
  ASSUME NEW list \in Seq(Token), NEW e \in Token
  PROVE  /\ Append(list, e) \in Seq(Token) /\ Append(list, e) # <<>>
         /\ Append(list, e)[Len(Append(list, e))] = e
         /\ SubSeq(Append(list, e), 1, Len(Append(list, e)) - 1) = list
<1> DEFINE n == Len(list)
           all == Append(list, e)
<1>1. /\ n \in Nat /\ all \in Seq(Token) /\ all # <<>> /\ Len(all) = n + 1
      /\ \A i \in 1..n : all[i] = list[i]
      /\ all[n + 1] = e
  BY AppendProperties
<1> HIDE DEF n, all
<1>2. n = Len(list) /\ \A i \in 1..n : list[i] \in Token
  BY DEF n
<1>3. 0 \in Nat /\ 1 \in Int /\ \A i \in 1..n : all[i] \in Token
  BY <1>1, <1>2
<1>4. /\ SubSeq(all, 1, n) \in Seq(Token)
      /\ Len(SubSeq(all, 1, n)) = IF 1 <= n THEN n - 1 + 1 ELSE 0
      /\ \A i \in 1..n-1+1 : SubSeq(all, 1, n)[i] = all[1 + i - 1]
  BY <1>1, <1>3, SubSeqProperties
<1>5. Len(SubSeq(all, 1, n)) = n
  BY <1>1, <1>4
<1>6. \A i \in 1..n : SubSeq(all, 1, n)[i] = list[i]
  <2> SUFFICES ASSUME NEW i \in 1..n PROVE SubSeq(all, 1, n)[i] = list[i]
    OBVIOUS
  <2>1. 1 + i - 1 = i /\ i \in 1..n-1+1
    BY <1>1
  <2> QED
    BY <2>1, <1>1, <1>4
<1>7. SubSeq(all, 1, n) = list
  BY <1>2, <1>4, <1>5, <1>6, SeqEqual
<1>8. Len(all) - 1 = n
  BY <1>1
<1> QED
  BY <1>1, <1>7, <1>8 DEF all

(* After the loop.                                                         *)
LEMMA EndOfBufferKeeps ==
  ASSUME IInv, EndOfBuffer
  PROVE  IInv'
<1>1. /\ TypeOK /\ CursorOK /\ ListOK(tokens, open, pos, state) /\ TextsOK(tokens, open)
      /\ pos = Len(buf) /\ Len(buf) \in Nat
  BY BufType DEF IInv, EndOfBuffer
<1>2. UNCHANGED <<buf, state, line, column, commentCount>>
  BY DEF EndOfBuffer
<1>3. CASE state \in BlockComment \cup {"String", "SawSlash"}
  <2>1. outcome' = "error" /\ UNCHANGED <<pos, tokens, open>>
    BY <1>3 DEF EndOfBuffer
  <2>2. TypeOK'
    BY <1>1, <1>2, <2>1 DEF TypeOK
  <2>3. CursorOK'
    BY <1>1, <1>2, <2>1 DEF CursorOK, At, LineBreaks
  <2>4. ListOK(tokens, open, pos, state)' /\ TextsOK(tokens, open)'
    BY <1>1, <1>2, <2>1, SameText DEF ListOK, TextsOK
  <2> QED
    BY <2>1, <2>2, <2>3, <2>4 DEF IInv
<1>4. CASE state \notin BlockComment \cup {"String", "SawSlash"}
  <2> DEFINE ended == IF state \in InToken THEN Replace(End(LastToken, pos)) ELSE tokens
             eof == [Begin("Eof", -1) EXCEPT !.end = 0]
  <2>1. /\ outcome' = "done" /\ pos' = -1 /\ tokens' = Append(ended, eof) /\ open' = FALSE
    BY <1>4 DEF EndOfBuffer
  <2>2. ListOK(ended, FALSE, Len(buf) + 1, "Start") /\ TextsOK(ended, FALSE)
    <3>1. CASE state \in InToken
      BY <1>1, <1>4, <3>1, EndOfTextEnds
    <3>2. CASE state \notin InToken
      <4>1. open = FALSE
        BY <1>1, <3>2 DEF CursorOK, TypeOK
      <4>2. pos \in Int /\ Len(buf) + 1 \in Int /\ pos <= Len(buf) + 1
        BY <1>1
      <4>3. ListOK(tokens, FALSE, Len(buf) + 1, "Start")
        BY <1>1, <4>1, <4>2, ListStays
      <4> QED
        BY <1>1, <3>2, <4>1, <4>3
    <3> QED
      BY <3>1, <3>2
  <2>3. eof \in Token /\ eof.id = "Eof"
    BY <1>1, TableIds DEF Begin, Token, Unset, TypeOK
  <2> HIDE DEF ended, eof
  <2>4. ended \in Seq(Token)
    BY <2>2 DEF ListOK
  <2>5. /\ tokens' \in Seq(Token) /\ tokens' # <<>>
        /\ tokens'[Len(tokens')] = eof
        /\ SubSeq(tokens', 1, Len(tokens') - 1) = ended
    BY <2>1, <2>3, <2>4, EofBehind
  <2>6. TypeOK'
    <3>1. pos' \in -1..Len(buf)
      BY <1>1, <2>1
    <3> QED
      BY <1>1, <1>2, <2>1, <2>5, <3>1 DEF TypeOK
  <2>7. LastToken' = eof /\ CancelToken' = ended
    BY <2>5 DEF LastToken, CancelToken
  <2>8. DoneOK'
    BY <1>2, <2>1, <2>2, <2>3, <2>5, <2>7, SameText DEF DoneOK, ListOK, TextsOK
  <2> QED
    BY <2>1, <2>6, <2>8 DEF IInv
<1> QED
  BY <1>3, <1>4

-----------------------------------------------------------------------------
(* What the invariant means.                                               *)

(* A list that is right in the sense of the invariant is in order, with    *)
(* faithful places.                                                        *)
LEMMA ListMeans ==
  ASSUME NEW p, NEW s, ListOK(tokens, open, p, s)
  PROVE  SpansOrdered /\ PlacesFaithful
<1>1. tokens \in Seq(Token) /\ Len(tokens) \in Nat /\ DOMAIN tokens = 1..Len(tokens)
  BY DEF ListOK
<1>2. \A i \in 1..Len(tokens) : PlacedOK(tokens[i])
  BY DEF ListOK, OpenOK, ClosedOK
<1>3. \A i \in 1..Len(tokens) : ~IsOpen(i) => ClosedOK(tokens[i])
  BY DEF ListOK, IsOpen
<1>4. \A i \in 1..Len(tokens) : i + 1 \in 1..Len(tokens) =>
        tokens[i].end <= tokens[i+1].start
  <2> SUFFICES ASSUME NEW i \in 1..Len(tokens), i + 1 \in 1..Len(tokens)
               PROVE  tokens[i].end <= tokens[i+1].start
    OBVIOUS
  <2>1. i \in 1..Len(tokens)-1
    BY <1>1
  <2> QED
    BY <2>1 DEF ListOK
<1>5. SpansOrdered
  BY <1>1, <1>2, <1>3, <1>4 DEF SpansOrdered, Scanned, ClosedOK, PlacedOK
<1>6. PlacesFaithful
  BY <1>1, <1>2 DEF PlacesFaithful, PlacedOK
<1> QED
  BY <1>5, <1>6

(* Likewise for the texts.                                                 *)
LEMMA TextsMean ==
  ASSUME TypeOK, TextsOK(tokens, open)
  PROVE  TextFitsId
BY DEF TypeOK, TextsOK, TextFitsId, IsOpen

(* The Eof token, which was not scanned, changes nothing of that.          *)
LEMMA DoneMeans ==
  ASSUME TypeOK, DoneOK
  PROVE  SpansOrdered /\ PlacesFaithful /\ TextFitsId
<1> DEFINE n == Len(tokens)
           list == CancelToken
<1>1. tokens \in Seq(Token) /\ n \in Nat \ {0} /\ DOMAIN tokens = 1..n
  BY DEF TypeOK, DoneOK
<1>2. \A i \in 1..n-1 : tokens[i] \in Token
  BY <1>1
<1>3. list = SubSeq(tokens, 1, n-1) /\ n-1 \in Int /\ 1 \in Int
  BY <1>1 DEF CancelToken
<1> HIDE DEF n, list
<1>4. /\ Len(list) = IF 1 <= n-1 THEN (n-1)-1+1 ELSE 0
      /\ \A i \in 1..(n-1)-1+1 : list[i] = tokens[1+i-1]
  BY <1>1, <1>2, <1>3, SubSeqProperties
<1>5. (n-1)-1+1 = n-1 /\ \A i \in 1..n-1 : 1+i-1 = i
  BY <1>1
<1>6. Len(list) = n-1 /\ \A i \in 1..n-1 : list[i] = tokens[i]
  BY <1>1, <1>4, <1>5
<1>7. ListOK(list, FALSE, Len(buf) + 1, "Start") /\ TextsOK(list, FALSE)
  BY DEF DoneOK, list
<1>8. \A i \in 1..n-1 : ClosedOK(tokens[i]) /\ TextFits(tokens[i])
  BY <1>6, <1>7 DEF ListOK, TextsOK
<1>9. \A i : Scanned(i) => i \in 1..n-1
  BY <1>1 DEF Scanned, DoneOK, LastToken, n
<1>10. \A i \in 1..n-1 : i + 1 \in 1..n-1 => tokens[i].end <= tokens[i+1].start
  <2> SUFFICES ASSUME NEW i \in 1..n-1, i + 1 \in 1..n-1
               PROVE  tokens[i].end <= tokens[i+1].start
    OBVIOUS
  <2>1. i \in 1..Len(list)-1
    BY <1>1, <1>6
  <2>2. list[i].end <= list[i+1].start
    BY <1>7, <2>1 DEF ListOK
  <2> QED
    BY <2>2, <1>6
<1>11. SpansOrdered
  BY <1>8, <1>9, <1>10 DEF SpansOrdered, ClosedOK, PlacedOK
<1>12. PlacesFaithful
  BY <1>8, <1>9 DEF PlacesFaithful, ClosedOK, PlacedOK
<1>13. TextFitsId
  BY <1>8, <1>9 DEF TextFitsId
<1> QED
  BY <1>11, <1>12, <1>13

(* The inductive invariant has the three invariants of the runs.           *)
LEMMA InvariantMeans ==
  ASSUME IInv
  PROVE  TokensConsistent /\ PlacesFaithful /\ TextFitsId
<1>1. TypeOK
  BY DEF IInv
<1>2. CASE outcome \in {"running", "error"}
  <2>1. CursorOK /\ ListOK(tokens, open, pos, state) /\ TextsOK(tokens, open)
    BY <1>2 DEF IInv
  <2>2. CursorMatchesState
    BY <2>1 DEF CursorMatchesState, CursorOK, ListOK
  <2> QED
    BY <1>1, <2>1, <2>2, ListMeans, TextsMean DEF TokensConsistent
<1>3. CASE outcome = "done"
  BY <1>1, <1>3, DoneMeans DEF IInv, TokensConsistent, CursorMatchesState
<1>4. CASE outcome = "crash"
  <2>1. ListOK(tokens, open, pos + 1, "Start")
    BY <1>4 DEF IInv, CrashOK
  <2> QED
    BY <1>1, <1>4, <2>1, ListMeans DEF TokensConsistent, CursorMatchesState, TextFitsId
<1> QED
  BY <1>1, <1>2, <1>3, <1>4 DEF TypeOK

-----------------------------------------------------------------------------
(* Before the first character there are no tokens.                         *)
LEMMA InitInvariant == Init => IInv
<1> SUFFICES ASSUME Init PROVE IInv
  OBVIOUS
<1>1. buf \in Seq(STRING) /\ Len(buf) \in Nat
  BY BuffersAssumption DEF Init
<1>2. TypeOK
  <2>1. pos \in -1..Len(buf) /\ tokens \in Seq(Token)
    BY <1>1 DEF Init
  <2> QED
    BY <2>1 DEF Init, TypeOK
<1>3. LineBreaks(0) = {} /\ Cardinality({}) = 0
  BY FS_EmptySet DEF LineBreaks
<1>4. At(pos, line, column)
  BY <1>3 DEF Init, At
<1>5. CursorOK
  BY <1>1, <1>4 DEF Init, CursorOK, InToken, PutsBack, BlockComment
<1>6. ListOK(tokens, open, pos, state) /\ TextsOK(tokens, open)
  BY DEF Init, ListOK, TextsOK
<1> QED
  BY <1>2, <1>5, <1>6 DEF IInv, Init

(* No step leaves the invariant.                                           *)
LEMMA NextInvariant == IInv /\ [Next]_vars => IInv'
<1> SUFFICES ASSUME IInv, [Next]_vars PROVE IInv'
  OBVIOUS
<1>1. ASSUME NEW c, Reading(c), SkipSpace(c) PROVE IInv'
  BY <1>1, SkipSpaceKeeps
<1>2. ASSUME NEW c, Reading(c), OpenToken(c) PROVE IInv'
  BY <1>2, OpenTokenKeeps
<1>3. ASSUME NEW c, Reading(c), SingleToken(c) PROVE IInv'
  BY <1>3, SingleTokenKeeps
<1>4. ASSUME NEW c, Reading(c), InvalidCharacter(c) PROVE IInv'
  BY <1>4, InvalidCharacterKeeps
<1>5. ASSUME NEW c, Reading(c), Extend(c) PROVE IInv'
  BY <1>5, ExtendKeeps
<1>6. ASSUME NEW c, Reading(c), CloseString(c) PROVE IInv'
  BY <1>6, CloseStringKeeps
<1>7. ASSUME NEW c, Reading(c), SecondCharacter(c) PROVE IInv'
  BY <1>7, SecondCharacterKeeps
<1>8. ASSUME NEW c, Reading(c), LessOrEqual(c) PROVE IInv'
  BY <1>8, LessOrEqualKeeps
<1>9. ASSUME NEW c, Reading(c), EndAndPutBack(c) PROVE IInv'
  BY <1>9, EndAndPutBackKeeps
<1>10. ASSUME NEW c, Reading(c), EndAndSwallow(c) PROVE IInv'
  BY <1>10, EndAndSwallowKeeps
<1>11. ASSUME NEW c, Reading(c), OpenComment(c) PROVE IInv'
  BY <1>11, OpenCommentKeeps
<1>12. ASSUME NEW c, Reading(c), LineComment(c) \/ MultiLineComment(c) PROVE IInv'
  BY <1>12, CommentKeeps
<1>13. CASE EndOfBuffer
  BY <1>13, EndOfBufferKeeps
<1>14. CASE UNCHANGED vars
  <2>1. UNCHANGED <<buf, pos, state, tokens, open, line, column, commentCount, outcome>>
    BY <1>14 DEF vars
  <2>2. TypeOK' = TypeOK /\ CursorOK' = CursorOK
    BY <2>1 DEF TypeOK, CursorOK, At, LineBreaks
  <2>3. /\ ListOK(tokens, open, pos, state)' = ListOK(tokens, open, pos, state)
        /\ ListOK(tokens, FALSE, pos + 1, "Start")' = ListOK(tokens, FALSE, pos + 1, "Start")
        /\ TextsOK(tokens, open)' = TextsOK(tokens, open)
    BY <2>1, SameText DEF ListOK, TextsOK
  <2>4. CancelToken' = CancelToken
    BY <2>1 DEF CancelToken
  <2>5. /\ ListOK(CancelToken, FALSE, Len(buf) + 1, "Start")'
              = ListOK(CancelToken, FALSE, Len(buf) + 1, "Start")
        /\ TextsOK(CancelToken, FALSE)' = TextsOK(CancelToken, FALSE)
    BY <2>1, <2>4, SameText DEF ListOK, TextsOK
  <2>6. DoneOK' = DoneOK /\ CrashOK' = CrashOK
    BY <2>1, <2>3, <2>5 DEF DoneOK, CrashOK, LastToken
  <2> QED
    BY <2>1, <2>2, <2>3, <2>6 DEF IInv
<1> QED
  BY <1>1, <1>2, <1>3, <1>4, <1>5, <1>6, <1>7, <1>8, <1>9, <1>10, <1>11, <1>12, <1>13, <1>14
     DEF Next, ReadCharacter

-----------------------------------------------------------------------------
(* What lies between the tokens.                                           *)

(* Numbers have a least one.                                               *)
LEMMA Least ==
  ASSUME NEW T, T \subseteq Nat, T # {}
  PROVE  \E x \in T : \A y \in T : x <= y
<1> DEFINE R == OpToRel(<, Nat)
<1>1. IsWellFoundedOn(R, Nat)
  BY NatLessThanWellFounded
<1>2. \A x, y \in Nat : y < x => <<y, x>> \in R
  BY DEF OpToRel
<1> HIDE DEF R
<1>3. PICK x \in T : \A y \in T : <<y, x>> \notin R
  BY <1>1, WFMin
<1>4. ASSUME NEW y \in T
      PROVE  x <= y
  <2>1. x \in Nat /\ y \in Nat /\ ~(y < x)
    BY <1>2, <1>3
  <2> QED BY <2>1
<1> QED BY <1>4

(* A set that has 0 and the successor of each of its numbers has them all. *)
LEMMA Induction ==
  ASSUME NEW S, 0 \in S, \A n \in Nat : n \in S => n + 1 \in S
  PROVE  Nat \subseteq S
<1> DEFINE T == Nat \ S
<1> SUFFICES ASSUME T # {} PROVE FALSE
  OBVIOUS
<1>1. T \subseteq Nat
  OBVIOUS
<1>2. PICK x \in T : \A y \in T : x <= y
  <2> HIDE DEF T
  <2> QED BY <1>1, Least
<1>3. x \in Nat /\ x # 0 /\ x - 1 \in Nat /\ x - 1 < x /\ x = (x - 1) + 1
  OBVIOUS
<1>4. x - 1 \notin T
  BY <1>2, <1>3
<1> QED BY <1>3, <1>4

(* What a scan can be in.                                                  *)
Within == {"between", "line", "mark", "text"} \X Nat

(* A scan is within something behind every character.                      *)
LEMMA BehindWithin ==
  ASSUME NEW s \in Within, NEW p
  PROVE  Behind(s, p) \in Within
<1>1. s[1] \in {"between", "line", "mark", "text"} /\ s[2] \in Nat
  BY DEF Within
<1>2. s[2] > 0 => s[2] - 1 \in Nat
  BY <1>1
<1>3. 0 \in Nat /\ s[2] + 1 \in Nat
  BY <1>1
<1> QED BY <1>1, <1>2, <1>3 DEF Behind, Within, Between

(* A scan goes on from character to character.                             *)
LEMMA ScanStep ==
  ASSUME TypeOK, NEW first \in Nat, NEW p \in 0..Len(buf), 1 <= first
  PROVE  /\ Scan(first)[p] \in Within
         /\ p < first => Scan(first)[p] = Between
         /\ first <= p => Scan(first)[p] = Behind(Scan(first)[p - 1], p)
<1> DEFINE m == Len(buf)
           Value(u, q) == IF q < first THEN Between ELSE Behind(u[q - 1], q)
           Is(u) == u = [q \in 0..m |-> Value(u, q)]
           Good(u, n) == u \in [0..n -> Within] /\ \A q \in 0..n : u[q] = Value(u, q)
           S == {n \in Nat : \E u : Good(u, n)}
<1>1. m \in Nat /\ Between \in Within
  BY BufType DEF Between, Within
<1>2. 0 \in S
  <2> DEFINE u == [q \in 0..0 |-> Between]
  <2>1. u \in [0..0 -> Within] /\ \A q \in 0..0 : q < first /\ u[q] = Between
    BY <1>1
  <2> HIDE DEF u
  <2>2. Good(u, 0)
    BY <2>1
  <2> QED BY <2>2
<1>3. ASSUME NEW n \in Nat, n \in S
      PROVE  n + 1 \in S
  <2>1. PICK u : Good(u, n)
    BY <1>3
  <2> DEFINE new == Value(u, n + 1)
             e == [q \in 0..n + 1 |-> IF q = n + 1 THEN new ELSE u[q]]
  <2>2. n + 1 - 1 = n /\ n \in 0..n /\ u[n] \in Within
    BY <2>1
  <2>3. new \in Within
    BY <1>1, <2>2, BehindWithin
  <2> HIDE DEF new
  <2>4. e \in [0..n + 1 -> Within]
    <3>1. \A q \in 0..n + 1 : q # n + 1 => q \in 0..n
      OBVIOUS
    <3> QED BY <2>1, <2>3, <3>1
  <2>5. \A q \in 0..n : e[q] = u[q]
    OBVIOUS
  <2>6. n + 1 \in 0..n + 1 /\ e[n + 1] = new
    OBVIOUS
  <2> HIDE DEF e
  <2>7. ASSUME NEW q \in 0..n + 1
        PROVE  e[q] = Value(e, q)
    <3>1. CASE q = n + 1
      BY <3>1, <2>2, <2>5, <2>6 DEF new
    <3>2. CASE q # n + 1
      <4>1. q \in 0..n /\ (q < first \/ q - 1 \in 0..n)
        BY <3>2
      <4>2. u[q] = Value(u, q)
        BY <2>1, <4>1
      <4> QED BY <4>1, <4>2, <2>5
    <3> QED BY <3>1, <3>2
  <2> HIDE DEF Value
  <2>8. Good(e, n + 1)
    BY <2>4, <2>7
  <2> QED BY <2>8
<1>4. PICK u : Good(u, m)
  <2>1. Nat \subseteq S
    <3> HIDE DEF S
    <3> QED BY <1>2, <1>3, Induction
  <2> QED BY <1>1, <2>1
<1>5. Is(u)
  <2> HIDE DEF Value
  <2> QED BY <1>4
<1>6. Scan(first) = CHOOSE v : Is(v)
  BY DEF Scan
<1>7. Is(Scan(first))
  <2> HIDE DEF Is
  <2> QED BY <1>5, <1>6
<1> DEFINE s == Scan(first)
<1> HIDE DEF s, m
<1>8. s = [q \in 0..m |-> Value(s, q)]
  BY <1>7 DEF s
<1>9. ASSUME NEW q \in 0..m PROVE s[q] = Value(s, q)
  <2> HIDE DEF Value
  <2> QED BY <1>8
<1> DEFINE T == {n \in Nat : n \in 0..m => s[n] \in Within}
<1>10. 0 \in T
  <2>1. 0 \in 0..m => s[0] = Value(s, 0)
    <3> HIDE DEF Value
    <3> QED BY <1>9
  <2> QED BY <1>1, <2>1
<1>11. ASSUME NEW n \in Nat, n \in T
       PROVE  n + 1 \in T
  <2> SUFFICES ASSUME n + 1 \in 0..m PROVE s[n + 1] \in Within
    OBVIOUS
  <2>1. s[n + 1] = Value(s, n + 1)
    <3> HIDE DEF Value
    <3> QED BY <1>9
  <2>2. n \in 0..m /\ n + 1 - 1 = n
    BY <1>1
  <2>3. s[n] \in Within
    BY <1>11, <2>2
  <2> QED BY <1>1, <2>1, <2>2, <2>3, BehindWithin
<1>12. Nat \subseteq T
  <2> HIDE DEF T
  <2> QED BY <1>10, <1>11, Induction
<1>13. p \in 0..m /\ p \in Nat
  BY <1>1 DEF m
<1>14. s[p] \in Within
  BY <1>12, <1>13
<1>15. s[p] = Value(s, p)
  <2> HIDE DEF Value
  <2> QED BY <1>9, <1>13
<1>16. first <= p => ~(p < first)
  BY <1>13
<1> QED BY <1>14, <1>15, <1>16 DEF s

(* What the text says of it does not change.                               *)
LEMMA SameScan ==
  ASSUME UNCHANGED buf
  PROVE  \A first : Scan(first)' = Scan(first)
<1>1. \A s, p : Behind(s, p)' = Behind(s, p)
  BY DEF Behind, Mark
<1> QED BY <1>1 DEF Scan

StartIn(list, i) == (IF i = 1 THEN 0 ELSE list[i-1].end) + 1

(* Only blanks and comments lie before the tokens of a list.               *)
BeforeOK(list) == \A i \in 1..Len(list) : Scan(StartIn(list, i))[list[i].start] = Between

(* Where the state says that a scan is at p; in a block comment a mark     *)
(* that the next character completes has begun.                            *)
Expected(p, s, n) ==
  IF s = "Start" THEN Between
  ELSE IF s = "LineComment" THEN <<"line", 0>>
  ELSE IF s = "MultiLineCommentSlash" /\ p < Len(buf) /\ buf[p+1] = "*" THEN <<"mark", n + 1>>
  ELSE IF s = "MultiLineCommentStar" /\ p < Len(buf) /\ buf[p+1] = "/" THEN <<"mark", n - 1>>
  ELSE <<"between", n>>
Behindmost(list) == StartIn(list, Len(list) + 1)

GInv ==
  /\ outcome # "done" => BeforeOK(tokens)
  /\ (outcome \in {"running", "error"} /\ ~open) =>
       Scan(Behindmost(tokens))[pos] = Expected(pos, state, commentCount)
  /\ (outcome = "error" /\ state \in BlockComment) => pos = Len(buf)
  /\ outcome = "done" =>
       /\ BeforeOK(CancelToken)
       /\ Scan(Behindmost(CancelToken))[Len(buf)] \in {Between, <<"line", 0>>}

(* Where gaps begin.                                                       *)
LEMMA GapsBegin ==
  ASSUME TypeOK, NEW list, NEW opened, NEW p, NEW s, ListOK(list, opened, p, s),
         NEW i \in 1..Len(list) + 1, i = Len(list) + 1 => opened = FALSE
  PROVE  StartIn(list, i) \in Nat /\ 1 <= StartIn(list, i)
<1>1. list \in Seq(Token) /\ Len(list) \in Nat
  BY DEF ListOK
<1>2. CASE i = 1
  BY <1>2 DEF StartIn
<1>3. CASE i # 1
  <2>1. i - 1 \in 1..Len(list) /\ ~(opened /\ i - 1 = Len(list))
    BY <1>1, <1>3
  <2>2. ClosedOK(list[i-1])
    BY <2>1 DEF ListOK
  <2>3. list[i-1].end \in Int /\ list[i-1].start \in Nat
        /\ list[i-1].start < list[i-1].end
    BY <2>2, BufType DEF ClosedOK, PlacedOK, Token
  <2> QED BY <1>3, <2>3 DEF StartIn
<1> QED BY <1>2, <1>3

(* end_token moves no gap, and one that begins behind the position is      *)
(* empty so far.                                                           *)
LEMMA BeforeEnds ==
  ASSUME TypeOK, ListOK(tokens, TRUE, pos, state), BeforeOK(tokens),
         NEW d, d.start = LastToken.start, d.end \in Nat
  PROVE  /\ BeforeOK(Replace(d))
         /\ \A p \in 0..Len(buf) : p <= d.end => Scan(Behindmost(Replace(d)))[p] = Between
<1> DEFINE n == Len(tokens)
<1>1. tokens \in Seq(Token) /\ n \in Nat \ {0} /\ Len(buf) \in Nat
  BY BufType DEF ListOK
<1>2. /\ Len(Replace(d)) = n
      /\ \A i \in 1..n : Replace(d)[i] = IF i = n THEN d ELSE tokens[i]
  BY <1>1 DEF Replace
<1>3. ASSUME NEW i \in 1..n
      PROVE  /\ StartIn(Replace(d), i) = StartIn(tokens, i)
             /\ Replace(d)[i].start = tokens[i].start
  <2>1. i = 1 \/ Replace(d)[i-1] = tokens[i-1]
    BY <1>1, <1>2
  <2>2. Replace(d)[i].start = tokens[i].start
    BY <1>2 DEF LastToken
  <2> QED BY <2>1, <2>2 DEF StartIn
<1>4. BeforeOK(Replace(d))
  BY <1>2, <1>3 DEF BeforeOK
<1>5. Behindmost(Replace(d)) = d.end + 1
  <2>1. n + 1 # 1 /\ n + 1 - 1 = n /\ n \in 1..n
    BY <1>1
  <2>2. Replace(d)[n] = d
    BY <1>2, <2>1
  <2> HIDE DEF n
  <2> QED BY <1>2, <2>1, <2>2 DEF Behindmost, StartIn
<1>6. ASSUME NEW p \in 0..Len(buf), p <= d.end
      PROVE  Scan(d.end + 1)[p] = Between
  <2>1. d.end + 1 \in Nat /\ 1 <= d.end + 1 /\ p < d.end + 1
    BY <1>1, <1>6
  <2> QED BY <2>1, ScanStep
<1> QED BY <1>4, <1>5, <1>6

(* A token begins where only blanks and comments lie behind.               *)
LEMMA BeforeGrows ==
  ASSUME tokens \in Seq(Token), BeforeOK(tokens), NEW d \in Token, NEW p,
         Scan(Behindmost(tokens))[p] = Between, d.start = p
  PROVE  /\ BeforeOK(Append(tokens, d))
         /\ Behindmost(Append(tokens, d)) = d.end + 1
<1> DEFINE n == Len(tokens)
           list == Append(tokens, d)
<1>1. /\ n \in Nat /\ Len(list) = n + 1
      /\ \A i \in 1..n : list[i] = tokens[i]
      /\ list[n+1] = d
  BY AppendProperties
<1> HIDE DEF list
<1>2. ASSUME NEW i \in 1..n + 1
      PROVE  StartIn(list, i) = StartIn(tokens, i)
  <2>1. i = 1 \/ i - 1 \in 1..n
    BY <1>1
  <2> QED BY <1>1, <2>1 DEF StartIn
<1>3. ASSUME NEW i \in 1..n + 1
      PROVE  Scan(StartIn(list, i))[list[i].start] = Between
  <2>1. CASE i = n + 1
    BY <1>1, <1>2, <2>1 DEF Behindmost
  <2>2. CASE i # n + 1
    <3>1. i \in 1..n
      BY <1>1, <2>2
    <3> QED BY <1>1, <1>2, <3>1 DEF BeforeOK
  <2> QED BY <2>1, <2>2
<1>4. StartIn(list, n + 2) = d.end + 1
  BY <1>1 DEF StartIn
<1> QED BY <1>1, <1>3, <1>4 DEF BeforeOK, Behindmost, list

(* cancel_token gives the gap back.                                        *)
LEMMA BeforeShrinks ==
  ASSUME ListOK(tokens, TRUE, pos, state), pos \in Int, BeforeOK(tokens)
  PROVE  /\ BeforeOK(CancelToken)
         /\ Behindmost(CancelToken) = StartIn(tokens, Len(tokens))
         /\ Scan(Behindmost(CancelToken))[LastToken.start] = Between
<1> DEFINE n == Len(tokens)
<1>1. n \in Nat \ {0}
  BY DEF ListOK
<1>2. /\ Len(CancelToken) = n - 1
      /\ \A i \in 1..n-1 : CancelToken[i] = tokens[i]
  <2>1. /\ ListOK(CancelToken, FALSE, pos, state)
        /\ Len(CancelToken) = Len(tokens) - 1
        /\ \A i \in 1..Len(tokens)-1 : CancelToken[i] = tokens[i]
    <3>1. pos <= pos
      OBVIOUS
    <3> QED BY <3>1, ListShrinks
  <2> QED BY <2>1
<1>3. ASSUME NEW i \in 1..n
      PROVE  StartIn(CancelToken, i) = StartIn(tokens, i)
  <2>1. i = 1 \/ i - 1 \in 1..n-1
    BY <1>1
  <2> QED BY <1>2, <2>1 DEF StartIn
<1>4. BeforeOK(CancelToken)
  BY <1>1, <1>2, <1>3 DEF BeforeOK
<1>5. n - 1 + 1 = n /\ n \in 1..n
  BY <1>1
<1>6. Behindmost(CancelToken) = StartIn(tokens, n)
  BY <1>2, <1>3, <1>5 DEF Behindmost
<1>7. Scan(StartIn(tokens, n))[tokens[n].start] = Between
  BY <1>5 DEF BeforeOK
<1> QED BY <1>4, <1>6, <1>7 DEF LastToken

(* The gaps after a step that goes on.                                     *)
LEMMA GapsGoOn ==
  ASSUME UNCHANGED <<buf, outcome>>, outcome = "running", BeforeOK(tokens'),
         open' = FALSE => Scan(Behindmost(tokens'))[pos'] = Expected(pos', state', commentCount'),
         open' \in BOOLEAN
  PROVE  GInv'
<1>1. \A first : Scan(first)' = Scan(first)
  BY SameScan
<1>2. Expected(pos, state, commentCount)' = Expected(pos', state', commentCount')
  BY DEF Expected
<1>3. BeforeOK(tokens)' /\ Behindmost(tokens)' = Behindmost(tokens')
  BY <1>1 DEF BeforeOK, Behindmost, StartIn
<1>4. ~open' => Scan(Behindmost(tokens))'[pos'] = Expected(pos, state, commentCount)'
  <2>1. Scan(Behindmost(tokens))' = Scan(Behindmost(tokens'))
    BY <1>3 DEF Scan, Behind, Mark
  <2> QED BY <1>2, <2>1
<1> QED BY <1>3, <1>4 DEF GInv

(* What a step finds of the gaps.                                          *)
LEMMA FoundGaps ==
  ASSUME IInv, GInv, NEW c, Reading(c)
  PROVE  /\ BeforeOK(tokens) /\ outcome = "running"
         /\ pos \in 0..Len(buf)-1 /\ pos \in Nat /\ Len(buf) \in Nat
         /\ open = FALSE =>
              /\ Scan(Behindmost(tokens))[pos] = Expected(pos, state, commentCount)
              /\ Behindmost(tokens) \in Nat /\ 1 <= Behindmost(tokens)
              /\ Scan(Behindmost(tokens))[pos + 1] =
                   Behind(Expected(pos, state, commentCount), pos + 1)
<1>1. /\ TypeOK /\ ListOK(tokens, open, pos, state) /\ outcome = "running"
      /\ pos \in 0..Len(buf)-1 /\ pos \in Nat /\ Len(buf) \in Nat
  BY Found
<1>2. BeforeOK(tokens)
  BY <1>1 DEF GInv
<1>3. ASSUME open = FALSE
      PROVE  /\ Scan(Behindmost(tokens))[pos] = Expected(pos, state, commentCount)
             /\ Behindmost(tokens) \in Nat /\ 1 <= Behindmost(tokens)
             /\ Scan(Behindmost(tokens))[pos + 1] =
                   Behind(Expected(pos, state, commentCount), pos + 1)
  <2>1. Scan(Behindmost(tokens))[pos] = Expected(pos, state, commentCount)
    BY <1>1, <1>3 DEF GInv
  <2>2. Len(tokens) + 1 \in 1..Len(tokens) + 1
    BY <1>1 DEF ListOK
  <2>3. Behindmost(tokens) \in Nat /\ 1 <= Behindmost(tokens)
    BY <1>1, <1>3, <2>2, GapsBegin DEF Behindmost
  <2>4. pos + 1 \in 0..Len(buf) /\ pos + 1 - 1 = pos
    BY <1>1
  <2>6. Behindmost(tokens) <= pos + 1
    <3>1. Len(tokens) \in Nat
      BY <1>1 DEF ListOK
    <3>2. CASE Len(tokens) = 0
      BY <1>1, <3>2 DEF Behindmost, StartIn
    <3>3. CASE Len(tokens) # 0
      <4>1. Len(tokens) \in 1..Len(tokens) /\ Len(tokens) + 1 # 1 /\ Len(tokens) + 1 - 1 = Len(tokens)
        BY <3>1, <3>3
      <4>2. tokens[Len(tokens)].end <= pos /\ tokens[Len(tokens)] \in Token
        BY <1>1, <1>3, <4>1 DEF ListOK, ClosedOK, PlacedOK
      <4>3. tokens[Len(tokens)].end \in Int
        BY <4>2 DEF Token
      <4> QED BY <1>1, <4>1, <4>2, <4>3 DEF Behindmost, StartIn
    <3> QED BY <3>2, <3>3
  <2>5. /\ pos + 1 < Behindmost(tokens) => Scan(Behindmost(tokens))[pos + 1] = Between
        /\ Behindmost(tokens) <= pos + 1 =>
             Scan(Behindmost(tokens))[pos + 1] = Behind(Scan(Behindmost(tokens))[pos], pos + 1)
    BY <1>1, <2>3, <2>4, ScanStep
  <2> QED BY <1>1, <2>1, <2>3, <2>5, <2>6
<1> QED BY <1>1, <1>2, <1>3

(* Where nothing is read and no token changes, the gaps are the same.      *)
LEMMA GapsStay ==
  ASSUME UNCHANGED <<buf, tokens>>
  PROVE  /\ BeforeOK(tokens)' = BeforeOK(tokens)
         /\ Scan(Behindmost(tokens))' = Scan(Behindmost(tokens))
         /\ BeforeOK(CancelToken)' = BeforeOK(CancelToken)
         /\ Scan(Behindmost(CancelToken))' = Scan(Behindmost(CancelToken))
<1> DEFINE list == CancelToken
<1>1. CancelToken' = list
  BY DEF CancelToken
<1>2. /\ Behindmost(tokens)' = Behindmost(tokens)
      /\ Behindmost(CancelToken)' = Behindmost(list)
  BY <1>1 DEF Behindmost, StartIn
<1>3. /\ Scan(Behindmost(tokens))' = Scan(Behindmost(tokens))
      /\ Scan(Behindmost(CancelToken))' = Scan(Behindmost(list))
  BY <1>2 DEF Scan, Behind, Mark
<1> HIDE DEF list
<1>4. BeforeOK(tokens)' = BeforeOK(tokens)
  BY SameScan DEF BeforeOK, StartIn
<1>5. BeforeOK(CancelToken)' = BeforeOK(list)
  BY <1>1, SameScan DEF BeforeOK, StartIn
<1> QED BY <1>3, <1>4, <1>5 DEF list

(* Blanks and comments are scanned as the states say.                      *)
LEMMA SkipSpaceGaps ==
  ASSUME IInv, GInv, NEW c, Reading(c), SkipSpace(c)
  PROVE  GInv'
<1>1. /\ TypeOK /\ CursorOK /\ outcome = "running" /\ c = buf[pos + 1]
  BY Found
<1>2. /\ state = "Start" /\ c \in Whitespace /\ pos' = pos + 1
      /\ UNCHANGED <<buf, state, tokens, open, commentCount, outcome>>
  BY DEF SkipSpace, Advance
<1>3. open = FALSE /\ BeforeOK(tokens) /\ pos \in Nat
  BY <1>1, <1>2, FoundGaps DEF CursorOK, TypeOK, InToken, PutsBack
<1>4. Scan(Behindmost(tokens))[pos + 1] = Behind(Between, pos + 1)
  BY <1>2, <1>3, FoundGaps DEF Expected
<1>5. \A a : ~Mark(pos + 1, "/", a)
  BY <1>1, <1>2 DEF Mark, Whitespace
<1>6. Behind(Between, pos + 1) = Between
  BY <1>1, <1>2, <1>5 DEF Behind, Between
<1>7. Scan(Behindmost(tokens'))[pos'] = Expected(pos', state', commentCount')
  BY <1>2, <1>4, <1>6 DEF Expected
<1> QED BY <1>1, <1>2, <1>3, <1>7, GapsGoOn

(* Line comments end with their line.                                      *)
LEMMA LineCommentGaps ==
  ASSUME IInv, GInv, NEW c, Reading(c), LineComment(c)
  PROVE  GInv'
<1>1. /\ TypeOK /\ CursorOK /\ outcome = "running" /\ c = buf[pos + 1]
  BY Found
<1>2. /\ state = "LineComment" /\ pos' = pos + 1
      /\ state' = IF c = "\n" THEN "Start" ELSE "LineComment"
      /\ UNCHANGED <<buf, tokens, open, commentCount, outcome>>
  BY DEF LineComment, Advance
<1>3. open = FALSE /\ BeforeOK(tokens) /\ pos \in Nat
  BY <1>1, <1>2, FoundGaps DEF CursorOK, TypeOK, InToken, PutsBack
<1>4. Scan(Behindmost(tokens))[pos + 1] = Behind(<<"line", 0>>, pos + 1)
  BY <1>2, <1>3, FoundGaps DEF Expected
<1>5. Behind(<<"line", 0>>, pos + 1) = IF c = "\n" THEN Between ELSE <<"line", 0>>
  BY <1>1 DEF Behind, Between
<1>6. Scan(Behindmost(tokens'))[pos'] = Expected(pos', state', commentCount')
  BY <1>2, <1>4, <1>5 DEF Expected
<1> QED BY <1>1, <1>2, <1>3, <1>6, GapsGoOn

(* Block comments nest: the count is that of the scan.                     *)
LEMMA MultiLineCommentGaps ==
  ASSUME IInv, GInv, NEW c, Reading(c), MultiLineComment(c)
  PROVE  GInv'
<1>1. /\ TypeOK /\ CursorOK /\ outcome = "running" /\ c = buf[pos + 1]
  BY Found
<1> DEFINE n == commentCount
           m == commentCount'
           p == pos + 1
<1>2. /\ state \in BlockComment /\ pos' = p
      /\ m = NewCount(c)
      /\ state' = IF Closes(c) /\ m = 0 THEN "Start"
                  ELSE IF Nests(c) \/ Closes(c) THEN "MultiLineComment"
                  ELSE IF c = "*" THEN "MultiLineCommentStar"
                  ELSE IF c = "/" THEN "MultiLineCommentSlash"
                  ELSE "MultiLineComment"
      /\ UNCHANGED <<buf, tokens, open, outcome>>
  BY DEF MultiLineComment, Advance
<1>3. open = FALSE /\ BeforeOK(tokens) /\ pos \in Nat /\ pos < Len(buf) /\ Len(buf) \in Nat
  <2>1. open = FALSE
    BY <1>1, <1>2 DEF CursorOK, TypeOK, InToken, PutsBack, BlockComment
  <2>2. BeforeOK(tokens) /\ pos \in Nat /\ Len(buf) \in Nat /\ pos \in 0..Len(buf)-1
    BY FoundGaps
  <2> QED BY <2>1, <2>2
<1>4. n \in Nat /\ n >= 1
  BY <1>1, <1>2 DEF CursorOK, TypeOK
<1>5. Scan(Behindmost(tokens))[p] = Behind(Expected(pos, state, n), p)
  BY <1>3, FoundGaps
<1> HIDE DEF n, m
<1>6. Behind(Expected(pos, state, n), p) = Expected(p, state', m)
  <2>1. CASE Nests(c)
    <3>1. state = "MultiLineCommentSlash" /\ c = "*" /\ m = n + 1 /\ state' = "MultiLineComment"
      BY <1>2, <2>1 DEF Nests, Closes, NewCount, n
    <3>2. Expected(pos, state, n) = <<"mark", n + 1>>
      BY <1>1, <1>3, <3>1 DEF Expected
    <3> QED BY <3>1, <3>2 DEF Behind, Expected
  <2>2. CASE Closes(c)
    <3>1. /\ state = "MultiLineCommentStar" /\ c = "/" /\ m = n - 1
          /\ state' = IF m = 0 THEN "Start" ELSE "MultiLineComment"
      BY <1>2, <1>4, <2>2 DEF Nests, Closes, NewCount, n
    <3>2. Expected(pos, state, n) = <<"mark", n - 1>>
      BY <1>1, <1>3, <3>1 DEF Expected
    <3>3. Behind(<<"mark", n - 1>>, p) = <<"between", n - 1>>
      BY DEF Behind
    <3> QED BY <3>1, <3>2, <3>3 DEF Expected, Between
  <2>3. CASE ~Nests(c) /\ ~Closes(c)
    <3>1. m = n /\ state' = IF c = "*" THEN "MultiLineCommentStar"
                  ELSE IF c = "/" THEN "MultiLineCommentSlash"
                  ELSE "MultiLineComment"
      BY <1>2, <1>4, <2>3 DEF NewCount, n
    <3>2. Expected(pos, state, n) = <<"between", n>>
      BY <1>1, <1>2, <2>3 DEF Expected, BlockComment, Nests, Closes
    <3>3. Behind(<<"between", n>>, p) = IF Mark(p, "/", "*") THEN <<"mark", n + 1>>
                                        ELSE IF Mark(p, "*", "/") THEN <<"mark", n - 1>>
                                        ELSE <<"between", n>>
      BY <1>4 DEF Behind
    <3>4. \A a, b : Mark(p, a, b) <=> p < Len(buf) /\ c = a /\ buf[p+1] = b
      BY <1>1 DEF Mark
    <3> QED BY <3>1, <3>2, <3>3, <3>4 DEF Expected
  <2> QED BY <2>1, <2>2, <2>3
<1>7. Scan(Behindmost(tokens'))[pos'] = Expected(pos', state', commentCount')
  BY <1>2, <1>5, <1>6 DEF m
<1> QED BY <1>1, <1>2, <1>3, <1>7, GapsGoOn

(* A comment is scanned from its first mark on.                            *)
LEMMA OpenCommentGaps ==
  ASSUME IInv, GInv, NEW c, Reading(c), OpenComment(c)
  PROVE  GInv'
<1>1. /\ TypeOK /\ CursorOK /\ ListOK(tokens, open, pos, state) /\ outcome = "running"
      /\ c = buf[pos + 1] /\ pos \in 0..Len(buf)-1 /\ Len(buf) \in Nat /\ BeforeOK(tokens)
  BY Found, FoundGaps
<1>2. /\ state = "SawSlash" /\ c \in {"/", "*"} /\ pos' = pos + 1
      /\ tokens' = CancelToken /\ open' = FALSE
      /\ IF c = "/" THEN state' = "LineComment"
         ELSE state' = "MultiLineComment" /\ commentCount' = 1
      /\ UNCHANGED <<buf, outcome>>
  BY DEF OpenComment, Advance
<1> DEFINE t == LastToken
           first == Behindmost(CancelToken)
<1>3. open = TRUE /\ OpenOK(t, pos, "SawSlash") /\ Len(tokens) \in Nat \ {0}
  BY <1>1, <1>2, FoundOpen DEF InToken
<1>4. /\ t.start \in Nat /\ pos = t.start + 1
      /\ <<buf[t.start + 1], t.id, "SawSlash">> \in Opening
  BY <1>1, <1>3 DEF OpenOK, PlacedOK
<1>5. buf[pos] = "/"
  BY <1>4, OpeningCases
<1>6. /\ BeforeOK(CancelToken) /\ first = StartIn(tokens, Len(tokens))
      /\ Scan(first)[t.start] = Between
  BY <1>1, <1>3, BeforeShrinks
<1>7. first \in Nat /\ 1 <= first
  <2>1. Len(tokens) \in 1..Len(tokens) + 1 /\ Len(tokens) # Len(tokens) + 1
    BY <1>3
  <2> QED BY <1>1, <1>6, <2>1, GapsBegin
<1>8. first <= pos
  <2>1. CASE Len(tokens) = 1
    BY <1>4, <1>6, <2>1 DEF StartIn
  <2>2. CASE Len(tokens) # 1
    <3> DEFINE k == Len(tokens) - 1
    <3>1. k \in 1..Len(tokens)-1 /\ k + 1 = Len(tokens) /\ k \in 1..Len(tokens)
      <4> DEFINE n == Len(tokens)
      <4>1. n \in Nat \ {0} /\ n # 1
        BY <1>3, <2>2
      <4> HIDE DEF n
      <4>2. n - 1 \in 1..n - 1 /\ n - 1 + 1 = n /\ n - 1 \in 1..n
        BY <4>1
      <4> QED BY <4>2 DEF n
    <3>5. k = Len(tokens) - 1
      OBVIOUS
    <3> HIDE DEF k
    <3>2. tokens[k].end <= tokens[k + 1].start /\ tokens[k] \in Token
      BY <1>1, <3>1 DEF ListOK
    <3>4. tokens[k].end <= t.start
      BY <3>1, <3>2 DEF LastToken
    <3>3. tokens[k].end \in Int
      BY <3>2 DEF Token
    <3> QED BY <1>4, <1>6, <2>2, <3>3, <3>4, <3>5 DEF StartIn
  <2> QED BY <2>1, <2>2
<1> HIDE DEF first, t
<1> DEFINE q == pos + 1
<1>9. /\ pos \in 0..Len(buf) /\ q \in 0..Len(buf) /\ pos - 1 = t.start /\ q - 1 = pos
      /\ first <= q /\ pos < Len(buf)
  BY <1>1, <1>4, <1>7, <1>8
<1>10. /\ Scan(first)[pos] = Behind(Between, pos)
       /\ Scan(first)[q] = Behind(Scan(first)[pos], q)
  <2>1. Scan(first)[pos] = Behind(Scan(first)[pos - 1], pos)
    BY <1>1, <1>7, <1>8, <1>9, ScanStep
  <2>2. Scan(first)[q] = Behind(Scan(first)[q - 1], q)
    BY <1>1, <1>7, <1>9, ScanStep
  <2> QED BY <1>6, <1>9, <2>1, <2>2
<1>11. Scan(first)[q] = Expected(q, state', commentCount')
  <2>1. \A a, b : Mark(pos, a, b) <=> a = "/" /\ c = b
    BY <1>1, <1>5, <1>9 DEF Mark
  <2>2. CASE c = "/"
    <3>1. Behind(Between, pos) = <<"line", 0>>
      BY <1>5, <2>1, <2>2 DEF Behind, Between, Whitespace
    <3>2. Behind(<<"line", 0>>, q) = <<"line", 0>>
      BY <1>1, <2>2 DEF Behind, Between
    <3> QED BY <1>2, <1>10, <2>2, <3>1, <3>2 DEF Expected
  <2>3. CASE c = "*"
    <3>1. Behind(Between, pos) = <<"mark", 1>>
      BY <2>1, <2>3 DEF Behind, Between
    <3>2. Behind(<<"mark", 1>>, q) = <<"between", 1>>
      BY DEF Behind
    <3> QED BY <1>2, <1>10, <2>3, <3>1, <3>2 DEF Expected
  <2> QED BY <1>2, <2>2, <2>3
<1>12. Scan(Behindmost(tokens'))[pos'] = Expected(pos', state', commentCount')
  BY <1>2, <1>11 DEF first
<1> QED BY <1>1, <1>2, <1>6, <1>12, GapsGoOn

(* Behind a token that ends, the next gap begins.                          *)
LEMMA ClosingGaps ==
  ASSUME TypeOK, CursorOK, ListOK(tokens, open, pos, state), state \in InToken,
         outcome = "running", BeforeOK(tokens),
         NEW t, PlacedOK(t), t.start = LastToken.start,
         NEW last \in t.start..Len(buf), Close(End(t, last)),
         UNCHANGED <<buf, outcome>>, pos' \in 0..Len(buf), pos' <= last + 1
  PROVE  GInv'
<1> DEFINE d == End(t, last)
<1>1. d.start = t.start /\ d.end = last + 1
  BY EndToken
<1>2. open = TRUE /\ t.start \in Nat /\ Len(buf) \in Nat
  BY FoundOpen, BufType DEF PlacedOK
<1>3. tokens' = Replace(d) /\ open' = FALSE /\ state' = "Start"
  BY DEF Close
<1> HIDE DEF d
<1>4. d.end \in Nat /\ d.start = LastToken.start
  BY <1>1, <1>2
<1>5. BeforeOK(Replace(d)) /\ Scan(Behindmost(Replace(d)))[pos'] = Between
  BY <1>1, <1>2, <1>4, BeforeEnds
<1> QED BY <1>3, <1>5, GapsGoOn DEF Expected

(* A token begins behind a gap.                                            *)
LEMMA BeginGaps ==
  ASSUME IInv, GInv, NEW c, Reading(c), state = "Start", UNCHANGED <<buf, outcome>>,
         NEW d \in Token, d.start = pos, tokens' = Append(tokens, d), pos' = pos + 1,
         \/ open' = TRUE
         \/ open' = FALSE /\ d.end = pos + 1 /\ state' = "Start"
  PROVE  GInv'
<1>1. /\ TypeOK /\ CursorOK /\ ListOK(tokens, open, pos, state) /\ outcome = "running"
      /\ pos \in 0..Len(buf)-1 /\ Len(buf) \in Nat /\ BeforeOK(tokens) /\ tokens \in Seq(Token)
  BY Found, FoundGaps DEF ListOK
<1>2. open = FALSE
  BY <1>1 DEF CursorOK, TypeOK, InToken, PutsBack
<1>3. Scan(Behindmost(tokens))[pos] = Between
  BY <1>2, FoundGaps DEF Expected
<1>4. BeforeOK(tokens') /\ Behindmost(tokens') = d.end + 1
  BY <1>1, <1>3, BeforeGrows
<1>5. open' = FALSE => Scan(Behindmost(tokens'))[pos'] = Expected(pos', state', commentCount')
  <2> SUFFICES ASSUME open' = FALSE
               PROVE  Scan(Behindmost(tokens'))[pos'] = Expected(pos', state', commentCount')
    OBVIOUS
  <2>1. d.end = pos + 1 /\ state' = "Start"
    OBVIOUS
  <2>2. /\ d.end + 1 \in Nat /\ 1 <= d.end + 1 /\ pos' \in 0..Len(buf)
        /\ pos' < d.end + 1
    BY <1>1, <2>1
  <2>3. Scan(d.end + 1)[pos'] = Between
    BY <1>1, <2>2, ScanStep
  <2> QED BY <1>4, <2>1, <2>3 DEF Expected
<1> QED BY <1>1, <1>4, <1>5, GapsGoOn

(* Behind the loop.                                                        *)
LEMMA EndOfBufferGaps ==
  ASSUME IInv, GInv, EndOfBuffer
  PROVE  GInv'
<1>1. /\ TypeOK /\ CursorOK /\ ListOK(tokens, open, pos, state) /\ BeforeOK(tokens)
      /\ pos = Len(buf) /\ Len(buf) \in Nat /\ outcome = "running"
      /\ ~open => Scan(Behindmost(tokens))[pos] = Expected(pos, state, commentCount)
  BY BufType DEF IInv, GInv, EndOfBuffer
<1>2. UNCHANGED <<buf, state, commentCount>>
  BY DEF EndOfBuffer
<1>3. /\ \A first : Scan(first)' = Scan(first)
      /\ Expected(pos, state, commentCount)' = Expected(pos', state, commentCount)
  BY <1>2, SameScan DEF Expected
<1>4. CASE state \in BlockComment \cup {"String", "SawSlash"}
  <2>1. outcome' = "error" /\ UNCHANGED <<pos, tokens, open>>
    BY <1>4 DEF EndOfBuffer
  <2>2. BeforeOK(tokens)' /\ Scan(Behindmost(tokens))' = Scan(Behindmost(tokens))
    BY <1>1, <1>2, <2>1, GapsStay
  <2> QED BY <1>1, <1>2, <1>3, <2>1, <2>2 DEF GInv
<1>5. CASE state \notin BlockComment \cup {"String", "SawSlash"}
  <2> DEFINE ended == IF state \in InToken THEN Replace(End(LastToken, pos)) ELSE tokens
             eof == [Begin("Eof", -1) EXCEPT !.end = 0]
  <2>1. outcome' = "done" /\ tokens' = Append(ended, eof)
    BY <1>5 DEF EndOfBuffer
  <2>2. eof \in Token
    BY <1>1, TableIds DEF Begin, Token, Unset, TypeOK
  <2>3. /\ ended \in Seq(Token) /\ BeforeOK(ended)
        /\ Scan(Behindmost(ended))[Len(buf)] \in {Between, <<"line", 0>>}
    <3>1. CASE state \in InToken
      <4> DEFINE d == End(LastToken, pos)
      <4>1. /\ open = TRUE /\ OpenOK(LastToken, pos, state) /\ pos \in LastToken.start..Len(buf)
            /\ tokens \in Seq(Token)
        BY <1>1, <3>1, FoundOpen DEF ListOK
      <4>2. ClosedOK(d) /\ d.start = LastToken.start /\ d.end = pos + 1
        BY <1>1, <4>1, EndToken DEF OpenOK
      <4> HIDE DEF d
      <4>3. d.end \in Nat /\ Len(buf) \in 0..Len(buf) /\ Len(buf) <= d.end /\ d \in Token
        BY <1>1, <4>2 DEF ClosedOK, PlacedOK
      <4>4. BeforeOK(Replace(d)) /\ Scan(Behindmost(Replace(d)))[Len(buf)] = Between
        BY <1>1, <4>1, <4>2, <4>3, BeforeEnds
      <4>5. Replace(d) \in Seq(Token)
        <5>1. tokens # <<>>
          BY <1>1, <4>1 DEF ListOK
        <5>2. Len(tokens) \in 1..Len(tokens)
          BY <4>1, <5>1
        <5> QED BY <4>1, <4>3, <5>2, ExceptSeq DEF Replace
      <4> QED BY <3>1, <4>4, <4>5 DEF d
    <3>2. CASE state \notin InToken
      <4>1. open = FALSE /\ tokens \in Seq(Token) /\ state \in {"Start", "LineComment"}
        BY <1>1, <1>5, <3>2 DEF CursorOK, TypeOK
      <4>2. Expected(pos, state, commentCount) \in {Between, <<"line", 0>>}
        BY <4>1 DEF Expected
      <4> QED BY <1>1, <3>2, <4>1, <4>2
    <3> QED BY <3>1, <3>2
  <2> HIDE DEF ended, eof
  <2>4. CancelToken' = ended
    <3>1. SubSeq(Append(ended, eof), 1, Len(Append(ended, eof)) - 1) = ended
      BY <2>2, <2>3, EofBehind
    <3> QED BY <2>1, <3>1 DEF CancelToken
  <2>5. BeforeOK(CancelToken)'
    BY <1>3, <2>3, <2>4 DEF BeforeOK, StartIn
  <2>6. Scan(Behindmost(CancelToken))' = Scan(Behindmost(ended)) /\ Len(buf)' = Len(buf)
    <3>1. Behindmost(CancelToken)' = Behindmost(ended)
      BY <2>4 DEF Behindmost, StartIn
    <3> QED BY <1>2, <3>1 DEF Scan, Behind, Mark
  <2>7. Scan(Behindmost(CancelToken))'[Len(buf)'] \in {Between, <<"line", 0>>}
    BY <2>3, <2>6
  <2> QED BY <2>1, <2>5, <2>7 DEF GInv
<1> QED BY <1>4, <1>5

(* No step disturbs the gaps.                                              *)
LEMMA NextGaps == IInv /\ GInv /\ [Next]_vars => GInv'
<1> SUFFICES ASSUME IInv, GInv, [Next]_vars PROVE GInv'
  OBVIOUS
<1>1. ASSUME NEW c, Reading(c), SkipSpace(c) PROVE GInv'
  BY <1>1, SkipSpaceGaps
<1>2. ASSUME NEW c, Reading(c), OpenToken(c) PROVE GInv'
  <2>1. PICK t \in Opening : tokens' = Append(tokens, Begin(t[2], pos))
    BY <1>2 DEF OpenToken
  <2> DEFINE d == Begin(t[2], pos)
  <2>2. TypeOK /\ pos \in Nat
    BY <1>2, Found
  <2>3. d \in Token /\ d.start = pos
    BY <2>1, <2>2, TableIds DEF Begin, Token, Unset, TypeOK
  <2>4. /\ state = "Start" /\ UNCHANGED <<buf, outcome>> /\ pos' = pos + 1 /\ open' = TRUE
        /\ tokens' = Append(tokens, d)
    BY <1>2, <2>1 DEF OpenToken, Advance
  <2> HIDE DEF d
  <2> QED BY <1>2, <2>3, <2>4, BeginGaps
<1>3. ASSUME NEW c, Reading(c), SingleToken(c) PROVE GInv'
  <2>1. PICK t \in Single : t[1] = c /\ tokens' = Append(tokens, End(Begin(t[2], pos), pos))
    BY <1>3 DEF SingleToken
  <2> DEFINE b == Begin(t[2], pos)
             d == End(b, pos)
  <2>2. /\ TypeOK /\ CursorOK /\ pos \in 0..Len(buf)-1 /\ Len(buf) \in Nat
        /\ t[2] \in TokenId /\ t[2] # "Eof"
    BY <1>3, <2>1, Found, TableIds
  <2>3. PlacedOK(b) /\ b.start = pos
    BY <2>2, BeginPlaced
  <2> HIDE DEF b
  <2>4. pos \in b.start..Len(buf)
    BY <2>2, <2>3
  <2>5. ClosedOK(d) /\ d.start = pos /\ d.end = pos + 1
    BY <2>2, <2>3, <2>4, EndToken
  <2>6. d \in Token
    BY <2>5 DEF ClosedOK, PlacedOK
  <2>7. open = FALSE
    BY <1>3, <2>2 DEF SingleToken, CursorOK, TypeOK, InToken, PutsBack
  <2>8. /\ state = "Start" /\ UNCHANGED <<buf, outcome>> /\ pos' = pos + 1 /\ open' = FALSE
        /\ state' = "Start" /\ tokens' = Append(tokens, d)
    BY <1>3, <2>1, <2>7 DEF SingleToken, Advance, b
  <2> HIDE DEF d
  <2> QED BY <1>3, <2>5, <2>6, <2>8, BeginGaps
<1>4. ASSUME NEW c, Reading(c), InvalidCharacter(c) PROVE GInv'
  <2>1. /\ UNCHANGED <<buf, pos, state, tokens, open, commentCount>> /\ outcome' = "error"
        /\ outcome = "running"
    BY <1>4 DEF InvalidCharacter, Reading
  <2>2. /\ state = "Start" /\ BeforeOK(tokens)' = BeforeOK(tokens)
        /\ Scan(Behindmost(tokens))' = Scan(Behindmost(tokens))
        /\ Expected(pos, state, commentCount)' = Expected(pos, state, commentCount)
    BY <1>4, <2>1, GapsStay DEF InvalidCharacter, Expected
  <2> QED BY <2>1, <2>2 DEF GInv, BlockComment
<1>5. ASSUME NEW c, Reading(c), Extend(c) PROVE GInv'
  <2>1. TypeOK /\ CursorOK /\ outcome = "running" /\ BeforeOK(tokens)
    BY <1>5, Found, FoundGaps
  <2>2. UNCHANGED <<buf, outcome, tokens>> /\ open' = TRUE
    BY <1>5, <2>1 DEF Extend, Continues, CursorOK, TypeOK, InToken
  <2> QED BY <2>1, <2>2, GapsGoOn
<1>6. ASSUME NEW c, Reading(c), NEW t, NEW last, Close(End(t, last)), state \in InToken,
             t.start = LastToken.start, PlacedOK(t), last \in t.start..Len(buf),
             UNCHANGED <<buf, outcome>>, pos' \in 0..Len(buf), pos' <= last + 1
      PROVE  GInv'
  <2>1. /\ TypeOK /\ CursorOK /\ ListOK(tokens, open, pos, state) /\ outcome = "running"
        /\ BeforeOK(tokens)
    BY <1>6, Found, FoundGaps
  <2> QED BY <1>6, <2>1, ClosingGaps
<1>7. ASSUME NEW c, Reading(c), state \in InToken
      PROVE  /\ PlacedOK(LastToken) /\ LastToken \in Token
             /\ pos \in LastToken.start..Len(buf) /\ pos - 1 \in LastToken.start..Len(buf)
             /\ pos \in 0..Len(buf) /\ pos + 1 \in 0..Len(buf)
             /\ OpenOK(LastToken, pos, state) /\ pos <= pos /\ pos = pos - 1 + 1
  <2>1. TypeOK /\ CursorOK /\ ListOK(tokens, open, pos, state) /\ Len(buf) \in Nat
        /\ pos \in 0..Len(buf)-1
    BY <1>7, Found
  <2>2. OpenOK(LastToken, pos, state) /\ pos \in LastToken.start..Len(buf)
        /\ pos - 1 \in LastToken.start..Len(buf)
    BY <1>7, <2>1, FoundOpen
  <2>3. PlacedOK(LastToken) /\ LastToken \in Token
    BY <2>2 DEF OpenOK, PlacedOK
  <2> QED BY <2>1, <2>2, <2>3
<1>8. ASSUME NEW c, Reading(c), CloseString(c) PROVE GInv'
  <2>1. /\ state \in InToken /\ Close(End(LastToken, pos)) /\ pos' = pos + 1
        /\ UNCHANGED <<buf, outcome>>
    BY <1>8 DEF CloseString, Advance, InToken
  <2>2. pos' \in 0..Len(buf) /\ pos' <= pos + 1
    BY <1>7, <1>8, <2>1
  <2> QED BY <1>6, <1>7, <1>8, <2>1, <2>2
<1>9. ASSUME NEW c, Reading(c), SecondCharacter(c) PROVE GInv'
  <2>1. PICK s \in Second : /\ s[1] = state
                            /\ s[2] = c
                            /\ Close(End([LastToken EXCEPT !.id = s[3]], pos))
    BY <1>9 DEF SecondCharacter
  <2> DEFINE u == [LastToken EXCEPT !.id = s[3]]
  <2>2. state \in InToken /\ pos' = pos + 1 /\ UNCHANGED <<buf, outcome>>
    BY <1>9, <2>1 DEF SecondCharacter, Advance, Second, InToken, PutsBack
  <2>3. /\ TypeOK /\ OpenOK(LastToken, pos, s[1]) /\ LastToken \in Token
        /\ pos < Len(buf) /\ buf[pos + 1] = s[2] /\ pos \in LastToken.start..Len(buf)
        /\ pos' \in 0..Len(buf) /\ pos' <= pos + 1
    BY <1>7, <1>9, <2>1, <2>2, Found
  <2>4. PlacedOK(u) /\ u.start = LastToken.start
    BY <2>3, PairEnds DEF Token
  <2>5. Close(End(u, pos))
    BY <2>1
  <2> HIDE DEF u
  <2>6. pos \in u.start..Len(buf)
    BY <2>3, <2>4
  <2> QED BY <1>6, <1>9, <2>2, <2>3, <2>4, <2>5, <2>6
<1>10. ASSUME NEW c, Reading(c), LessOrEqual(c) PROVE GInv'
  <2> DEFINE u == [LastToken EXCEPT !.id = "CmpLessOrEq"]
             d == End(u, pos)
  <2>1. state \in InToken /\ Close(d) /\ outcome' = "crash" /\ UNCHANGED buf
    BY <1>10 DEF LessOrEqual, InToken, PutsBack
  <2>2. /\ TypeOK /\ CursorOK /\ ListOK(tokens, open, pos, state) /\ BeforeOK(tokens)
        /\ PlacedOK(LastToken) /\ LastToken \in Token /\ pos \in LastToken.start..Len(buf)
        /\ pos + 1 \in 0..Len(buf) /\ open = TRUE
    BY <1>7, <1>10, <2>1, Found, FoundGaps, FoundOpen
  <2>3. PlacedOK(u) /\ u.start = LastToken.start
    BY <2>2, TableIds DEF PlacedOK, Token
  <2> HIDE DEF u
  <2>4. d.start = LastToken.start /\ d.end = pos + 1
    BY <2>2, <2>3, EndToken
  <2> HIDE DEF d
  <2>5. BeforeOK(Replace(d))
    <3>1. d.end \in Nat
      BY <2>2, <2>4, BufType
    <3> QED BY <2>2, <2>4, <3>1, BeforeEnds
  <2>6. BeforeOK(tokens)'
    BY <2>1, <2>5, SameScan DEF Close, BeforeOK, StartIn
  <2> QED BY <2>1, <2>6 DEF GInv
<1>11. ASSUME NEW c, Reading(c), EndAndPutBack(c) PROVE GInv'
  <2>1. /\ state \in InToken /\ Close(End(LastToken, pos - 1)) /\ pos' = pos
        /\ UNCHANGED <<buf, outcome>>
    BY <1>11 DEF EndAndPutBack, PutBack, Ends, InToken
  <2>2. pos' \in 0..Len(buf) /\ pos' <= pos - 1 + 1
    BY <1>7, <1>11, <2>1
  <2> QED BY <1>6, <1>7, <1>11, <2>1, <2>2
<1>12. ASSUME NEW c, Reading(c), EndAndSwallow(c) PROVE GInv'
  <2>1. /\ state \in InToken /\ Close(End(LastToken, pos)) /\ pos' = pos + 1
        /\ UNCHANGED <<buf, outcome>>
    BY <1>12 DEF EndAndSwallow, Advance, InToken
  <2>2. pos' \in 0..Len(buf) /\ pos' <= pos + 1
    BY <1>7, <1>12, <2>1
  <2> QED BY <1>6, <1>7, <1>12, <2>1, <2>2
<1>13. ASSUME NEW c, Reading(c), OpenComment(c) \/ LineComment(c) \/ MultiLineComment(c)
       PROVE  GInv'
  BY <1>13, OpenCommentGaps, LineCommentGaps, MultiLineCommentGaps
<1>14. CASE EndOfBuffer
  BY <1>14, EndOfBufferGaps
<1>15. CASE UNCHANGED vars
  <2>1. UNCHANGED <<buf, pos, state, tokens, open, line, column, commentCount, outcome>>
    BY <1>15 DEF vars
  <2>2. /\ BeforeOK(tokens)' = BeforeOK(tokens)
        /\ BeforeOK(CancelToken)' = BeforeOK(CancelToken)
    BY <2>1, GapsStay
  <2>3. /\ Scan(Behindmost(tokens))' = Scan(Behindmost(tokens))
        /\ Scan(Behindmost(CancelToken))' = Scan(Behindmost(CancelToken))
        /\ Expected(pos, state, commentCount)' = Expected(pos, state, commentCount)
    BY <2>1, GapsStay DEF Expected
  <2> QED BY <2>1, <2>2, <2>3 DEF GInv
<1> QED
  BY <1>1, <1>2, <1>3, <1>4, <1>5, <1>8, <1>9, <1>10, <1>11, <1>12, <1>13, <1>14, <1>15
     DEF Next, ReadCharacter

(* Before the first character there is no gap.                             *)
LEMMA InitGaps == Init => GInv
<1> SUFFICES ASSUME Init PROVE GInv
  OBVIOUS
<1>1. TypeOK /\ Len(buf) \in Nat
  BY InitInvariant, BufType DEF IInv
<1>2. Len(tokens) = 0 /\ Behindmost(tokens) = 1
  BY DEF Init, Behindmost, StartIn
<1>3. Scan(1)[0] = Between
  BY <1>1, ScanStep
<1> QED BY <1>2, <1>3 DEF Init, GInv, BeforeOK, Expected

(* What the gaps of a list that is finished or not mean.                   *)
LEMMA GapsMean ==
  ASSUME IInv, GInv
  PROVE  GapsAreComments
<1>1. TypeOK /\ tokens \in Seq(Token) /\ Len(tokens) \in Nat /\ Len(buf) \in Nat
  BY BufType DEF IInv, TypeOK
<1>2. \A i : GapStart(i) = StartIn(tokens, i)
  BY DEF GapStart, StartIn
<1>3. CASE outcome # "done"
  <2>1. \A i \in 1..Len(tokens) : Scanned(i)
    <3>1. PICK o, p, s : ListOK(tokens, o, p, s)
      BY <1>1, <1>3 DEF IInv, TypeOK, CrashOK
    <3>2. \A i \in 1..Len(tokens) : PlacedOK(tokens[i])
      BY <3>1 DEF ListOK, OpenOK, ClosedOK
    <3> QED BY <1>1, <3>2 DEF PlacedOK, Scanned
  <2>2. \A i \in 1..Len(tokens) : Scan(GapStart(i))[tokens[i].start] = Between
    BY <1>2, <1>3 DEF GInv, BeforeOK
  <2>3. ASSUME outcome = "error", state \in BlockComment
        PROVE  Scan(GapStart(Len(tokens) + 1))[Len(buf)][2] > 0
    <3>1. open = FALSE /\ commentCount >= 1 /\ pos \in 0..Len(buf) /\ commentCount \in Nat
      BY <1>1, <2>3 DEF IInv, CursorOK, TypeOK, BlockComment, InToken, PutsBack
    <3>2. Scan(GapStart(Len(tokens) + 1))[pos] = Expected(pos, state, commentCount)
      BY <1>2, <2>3, <3>1 DEF GInv, Behindmost
    <3>3. pos = Len(buf)
      BY <2>3 DEF GInv
    <3>4. Expected(pos, state, commentCount) = <<"between", commentCount>>
      BY <1>1, <2>3, <3>3 DEF Expected, BlockComment
    <3> QED BY <3>1, <3>2, <3>3, <3>4
  <2> QED BY <1>1, <2>1, <2>2, <2>3 DEF GapsAreComments
<1>4. CASE outcome = "done"
  <2> DEFINE n == Len(tokens)
             list == CancelToken
  <2>1. n \in Nat \ {0} /\ tokens[n].id = "Eof"
    BY <1>1, <1>4 DEF IInv, DoneOK, LastToken
  <2>2. Len(list) = n - 1 /\ \A i \in 1..n-1 : list[i] = tokens[i]
    <3> HIDE DEF n
    <3>1. list = SubSeq(tokens, 1, n-1) /\ \A i \in 1..n-1 : tokens[i] \in Token
      BY <1>1, <2>1 DEF CancelToken, n
    <3> HIDE DEF list
    <3>2. /\ Len(list) = IF 1 <= n-1 THEN (n-1)-1+1 ELSE 0
          /\ \A i \in 1..(n-1)-1+1 : list[i] = tokens[1+i-1]
      BY <2>1, <3>1, SubSeqProperties
    <3>3. (n-1)-1+1 = n-1 /\ \A i \in 1..n-1 : 1+i-1 = i
      BY <2>1
    <3> QED BY <2>1, <3>2, <3>3
  <2>3. ListOK(list, FALSE, Len(buf) + 1, "Start") /\ BeforeOK(list)
        /\ Scan(Behindmost(list))[Len(buf)] \in {Between, <<"line", 0>>}
    BY <1>4 DEF IInv, DoneOK, GInv
  <2> HIDE DEF n, list
  <2>4. ASSUME NEW i \in 1..n
        PROVE  StartIn(list, i) = GapStart(i)
    <3>1. i = 1 \/ i - 1 \in 1..n-1
      BY <2>1
    <3> QED BY <1>2, <2>2, <3>1 DEF StartIn
  <2>5. ASSUME NEW i \in 1..n-1
        PROVE  Scanned(i) /\ Scan(GapStart(i))[tokens[i].start] = Between
    <3>1. i \in 1..n /\ list[i] = tokens[i] /\ i \in 1..Len(list)
      BY <2>1, <2>2
    <3>2. tokens[i].id # "Eof"
      BY <2>3, <3>1 DEF ListOK, ClosedOK, PlacedOK
    <3> QED BY <1>1, <2>3, <2>4, <3>1, <3>2 DEF Scanned, BeforeOK, n
  <2>6. ~Scanned(n) /\ Scan(GapStart(n))[Len(buf)] \in {Between, <<"line", 0>>}
    <3>1. Len(list) + 1 = n /\ n \in 1..n
      BY <2>1, <2>2
    <3> QED BY <2>1, <2>3, <2>4, <3>1 DEF Scanned, Behindmost
  <2>7. DOMAIN tokens = 1..n /\ \A i \in 1..n : i = n \/ i \in 1..n-1
    BY <1>1, <2>1 DEF n
  <2> QED BY <1>4, <2>5, <2>6, <2>7 DEF GapsAreComments
<1> QED BY <1>3, <1>4

(* The inductive invariant of the gaps.                                    *)
LEMMA GapsInvariant == Spec => [](IInv /\ GInv)
<1>1. Init => IInv /\ GInv
  BY InitInvariant, InitGaps
<1>2. IInv /\ GInv /\ [Next]_vars => (IInv /\ GInv)'
  BY NextInvariant, NextGaps
<1> QED BY <1>1, <1>2, PTL DEF Spec

(* Before every token lie only blanks and whole comments, on every text:   *)
(* block comments nest, to any depth, and line comments end with their     *)
(* line (tokenizer.cpp:400-450).                                           *)
THEOREM GapsHold == Spec => []GapsAreComments
<1>1. IInv /\ GInv => GapsAreComments
  BY GapsMean
<1> QED BY <1>1, GapsInvariant, PTL

(* The inductive invariant holds of tokenize on every text.                *)
THEOREM InvariantHolds == Spec => []IInv
BY InitInvariant, NextInvariant, PTL DEF Spec

(* The token list, its open token and the state fit together, and the      *)
(* spans are in order, on every text (begin_token, end_token).             *)
THEOREM TokensHold == Spec => []TokensConsistent
<1>1. IInv => TokensConsistent
  BY InvariantMeans
<1> QED
  BY <1>1, InvariantHolds, PTL

(* Line and column of every token are those of its first character, on     *)
(* every text (tokenizer.cpp:497-502).                                     *)
THEOREM PlacesHold == Spec => []PlacesFaithful
<1>1. IInv => PlacesFaithful
  BY InvariantMeans
<1> QED
  BY <1>1, InvariantHolds, PTL

(* The text of every token fits its id, on every text: no word or number   *)
(* is cut in two, and exactly the keywords' texts are keywords.            *)
THEOREM TextsHold == Spec => []TextFitsId
<1>1. IInv => TextFitsId
  BY InvariantMeans
<1> QED
  BY <1>1, InvariantHolds, PTL
=============================================================================
