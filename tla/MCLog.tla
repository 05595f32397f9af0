------------------------------- MODULE MCLog -------------------------------
(* Masks for the letters a and b: names, prefixes, no name, bad levels, a text *)
(* that abbreviates two levels, and an empty item in and at the end of a mask. *)
EXTENDS Log

Item(name, star, levels) == [name |-> name, star |-> star, colon |-> TRUE, level |-> levels]
NoLevel(name, star)      == [name |-> name, star |-> star, colon |-> FALSE, level |-> {}]

A == <<"a">>  AB == <<"a", "b">>

TwoNames == {A, AB}

SomeMasks == {
  <<Item(A, TRUE, {0, 4}), NoLevel(AB, FALSE)>>,
  <<Item(AB, FALSE, {1}), Item(<<>>, TRUE, {2}), Empty>>,
  <<NoLevel(A, FALSE), Empty, Item(AB, FALSE, {})>>,
  <<Item(A, FALSE, {3}), Empty, Item(A, TRUE, {1})>>,
  <<Empty>>}
=============================================================================
