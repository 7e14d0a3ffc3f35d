------------------------------ MODULE MCParser ------------------------------
(* Token sequences for TLC.                                                *)
EXTENDS Parser, SequencesExt

Close(ids) == Append(ids, "Eof")

(* Programs of a few declarations, with one token replaced or left out.    *)
Attribute == <<"NumberSign", "Symbol", "LParen", "StringLiteral">>
Export == <<"KeywordExport", "Symbol", "StringLiteral", "Semicolon">>
Empty == <<"LBrace", "RBrace">>
Plain == <<"KeywordFn", "Symbol", "LParen", "RParen">>
Params == <<"KeywordPub", "KeywordFn", "Symbol", "LParen", "Symbol", "Colon", "Star", "KeywordMut",
            "Symbol", "Comma", "Symbol", "Colon", "Symbol", "RParen">>
Returns == <<"Arrow", "Star", "KeywordConst", "KeywordUnreachable">>
Bases ==
  {Attribute \o Export \o Attribute \o Attribute \o Plain \o Empty,
   Plain \o Empty \o Export \o Params \o Returns \o Empty,
   Attribute \o <<"KeywordExport">> \o Plain \o Returns \o Empty \o Export \o Attribute}
Id == {"NumberSign", "Symbol", "LParen", "RParen", "StringLiteral", "KeywordExport", "KeywordPub",
       "KeywordFn", "Colon", "Comma", "Star", "KeywordMut", "Arrow", "KeywordUnreachable", "LBrace",
       "RBrace", "Semicolon", "KeywordExtern", "KeywordUse"}
Declarations ==
  UNION {{Close(base)} \cup
         {Close(ReplaceAt(base, k, id)) : k \in 1..Len(base), id \in Id} \cup
         {Close(RemoveAt(base, k)) : k \in 1..Len(base)} \cup
         {Close(SubSeq(base, 1, k)) : k \in 0..Len(base)} : base \in Bases}

(* A function with every short body.                                       *)
BodyId == {"Symbol", "Semicolon", "BinXor", "BoolAnd", "BoolOr", "Plus", "Dash", "KeywordAs",
           "KeywordReturn", "LParen", "RParen", "LBrace", "RBrace"}
Bodies(n) == {Close(Plain \o <<"LBrace">> \o body) : body \in UNION {[1..k -> BodyId] : k \in 0..n}}

(* Longer bodies over fewer tokens.                                        *)
LongId == {"Symbol", "Semicolon", "BoolAnd", "BinAnd", "KeywordReturn"}
LongBodies(n) == {Close(Plain \o <<"LBrace">> \o body) : body \in [1..n -> LongId]}

(* Texts of the repository's examples: include_files.jn and testother.jn.  *)
Linked == Attribute \o <<"RParen", "KeywordExtern", "LBrace", "RBrace">>
Uses == <<"KeywordUse", "StringLiteral", "Semicolon">>

MCTexts == {Close(Linked), Close(Uses)} \cup Declarations \cup Bodies(3) \cup LongBodies(5)
=============================================================================
