---------------------------- MODULE MCThrottling ----------------------------
EXTENDS Throttling

CONSTANTS i1, i2, i3, r1, r2

\* Addresses and requests are interchangeable.
Symmetry == Permutations(IPs) \cup Permutations(Attempts)
=============================================================================
