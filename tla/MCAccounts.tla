----------------------------- MODULE MCAccounts -----------------------------
EXTENDS AccountSystem, TLC

CONSTANTS s1, s2, c1, c2, c3, d1, d2

\* What each part of the system has two of; a behaviour exercises one part only, so the
\* parts share the values.
Alike == UNION {Permutations(S) : S \in {{s1, s2}, {c1, c2}, {d1, d2}}}

=============================================================================
