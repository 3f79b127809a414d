------------------------- MODULE MCSessionRegistry -------------------------
EXTENDS SessionRegistry, TLC

\* Starts, requests and ids are interchangeable.
Symmetry == Permutations(Sessions) \cup Permutations(Calls) \cup Permutations(Ids)
=============================================================================
