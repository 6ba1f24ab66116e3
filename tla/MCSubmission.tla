---------------------------- MODULE MCSubmission -----------------------------
(* Small instances of Submission for TLC.                                   *)
EXTENDS Submission, TLC

Symmetry == Permutations(Handlers) \union Permutations(Emails) \union Permutations(Answers)

\* Whole cents only, as the quiz sends them.
StoredExactly == [a \in Answers |-> a]
==============================================================================
