---------------------------- MODULE MCLifecycle ----------------------------
(* An instance of Lifecycle for TLC: three interchangeable orders, each     *)
(* able to be the parent of a split or a child of one.                      *)
EXTENDS Lifecycle

CONSTANTS p, c1, c2, terms, noTerms, noOrder

MCOrderIds == {p, c1, c2}
MCTerms == {terms}
MCSymmetry == Permutations(MCOrderIds)
=============================================================================
