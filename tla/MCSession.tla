----------------------------- MODULE MCSession -----------------------------
(* Instances of Session for TLC.                                           *)
EXTENDS Session

ShortNames == BoundedSeq({"a", "b", "_"}, 4)
Patterns   == BoundedSeq({"a", "b", "*"}, 5) \cup BoundedSeq({"a", "_", "*"}, 3)

Says(ps, e) == [channels |-> ps, expires |-> e]

(* Every pattern of up to five characters (two middles need five), pairs of short   *)
(* ones, no grants; lifetimes in and out of range.                              *)
GrantAnswers ==
  {Says(<<p>>, 5) : p \in Patterns}
    \cup {Says(<<p, q>>, 5) : p, q \in BoundedSeq({"a", "_", "*"}, 2)}
    \cup {Says(<<>>, 5)}
Lifetimes == {Says(<<<<"*">>>>, e) : e \in 0..127}
AnyLifetime == {Says(<<<<"*">>>>, e) : e \in (-128)..127}
SaneAnswers == GrantAnswers \cup Lifetimes

(* "b" separates: channels of the namespace "a", of the reserved block, of one    *)
(* that takes no client events. *)
TwoSpaces ==
  [n \in {<<"a">>, <<>>, <<"a", "a">>} |->
     [events |-> n # <<"a", "a">>,
      count  |-> IF n = <<>> THEN 2 ELSE 1,
      per    |-> IF n = <<>> THEN 3 ELSE 2]]
SomeBlocks == {{<<"a">>, <<>>, <<"a", "a">>}, {<<"a">>}}
Published  == {<<"a", "b", "a">>, <<"b">>, <<"a", "a", "b">>, <<"_", "a">>}
=============================================================================
