------------------------------ MODULE MCRecovery ------------------------------
\* Recovery with its scenarios, and a symmetry for the safety runs.
EXTENDS Recovery, TLC

CONSTANTS c1, c2, s1, s2, p1, p2

\* Settings beside recoveries; a store that fails; a nonce for every signature.
Settling == {{"consent", "server", "forget", "down"},
             {"register", "forget", "revoke", "down", "fault"},
             {"consent", "forget", "down", "fault", "nonce"}}
\* Nothing but refreshes, of a device that the server knows or not.
Undisturbed == {{}}

PairSymmetry == Permutations({c1, c2}) \cup Permutations({p1, p2})
=============================================================================
