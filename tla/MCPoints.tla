------------------------------- MODULE MCPoints -------------------------------
\* Points with a symmetry over its calls and rows, for the safety runs.
EXTENDS Points, TLC

CONSTANTS c1, c2, s1, s2, h1, h2

Symmetry == Permutations({c1, c2}) \cup Permutations({h1, h2})
=============================================================================
