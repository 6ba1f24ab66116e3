------------------------------- MODULE MCQuiz --------------------------------
(* A small instance of Quiz for TLC.                                        *)
EXTENDS Quiz, TLC

Symmetry == Permutations(Handlers)

Typed_(amount) == [amount |-> amount, formatted |-> FALSE]

\* 85% of the home is 340,000: the smallest line exactly, and a dollar less.
MCTyped ==
  [estimated_home_value |-> {Typed_(NaN), Typed_(400000)},
   mortgage_balance |-> {Typed_(315000), Typed_(315001)},
   credit_band |-> {5, 7}]
==============================================================================
