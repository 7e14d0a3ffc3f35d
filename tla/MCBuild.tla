------------------------------- MODULE MCBuild -------------------------------
(* Command lines for TLC: every short one over a few words, and whole      *)
(* builds with each option in turn; sources with up to two functions.      *)
EXTENDS Build

MCOption == Flag \cup Valued \cup {"--version", "--verbose"}
Typed == {"build", "version", "in", "exe", "-Ipath", ""} \cup MCOption
MCWord == Typed \cup OutType \cup {"out", "n", "m", "elf", "rooted"}
OptionLists ==
  {<<>>, <<"--static">>, <<"--output", "out">>, <<"--output", "out", "--static">>,
   <<"--output", "out", "--output", "exe">>, <<"--output", "--static">>,
   <<"--name", "n", "--strip", "--name", "m">>, <<"--output", "">>}
Exports1 == {<<>>} \cup {<<"--export", t>> : t \in OutType \cup {"elf"}}
Inputs == {<<"-Ipath">>, <<"-Ipath", "in">>, <<"in", "-Ipath">>, <<"--output", "-Ipath", "in">>}
Names == {<<>>, <<"--name", "n">>}
MCCommandLines ==
  UNION {[1..n -> Typed] : n \in 0..3} \cup
  {<<"build">> \o o \o <<"in">> \o e \o n : o \in OptionLists, e \in Exports1, n \in Names} \cup
  {n \o e \o <<"build", "in">> : e \in Exports1, n \in Names} \cup
  {<<"build">> \o n \o <<"in">> \o <<"--export", s>> \o <<"--export", t>> :
     n \in Names, s \in OutType, t \in OutType} \cup
  {<<"build">> \o w \o <<"--name", "n">> : w \in Inputs} \cup
  {w \o <<"build", "--name", "n", "in">> : w \in Inputs}

Fn(exported, cTypes) == [exported |-> exported, cTypes |-> cTypes]
MCSources ==
  [sound : BOOLEAN,
   export : {<<>>, <<[name |-> "rooted", type |-> "lib"]>>, <<[name |-> "rooted", type |-> "exe"]>>},
   fns : {<<>>, <<Fn(TRUE, TRUE)>>, <<Fn(TRUE, FALSE)>>, <<Fn(FALSE, FALSE), Fn(TRUE, TRUE)>>,
          <<Fn(FALSE, TRUE), Fn(TRUE, TRUE)>>}]
=============================================================================
