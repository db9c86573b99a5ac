-------------------------- MODULE MCAlertEvaluator --------------------------
EXTENDS AlertEvaluator, TLC

CONSTANTS g1, g2

\* Goroutines are interchangeable.
Symmetry == Permutations(Gor)
=============================================================================
