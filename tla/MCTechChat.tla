----------------------------- MODULE MCTechChat -----------------------------
\* Instances of TechChat for TLC.
EXTENDS TechChat, TLC

\* Requests and typed texts are interchangeable.
Requests == Permutations(Handler) \cup Permutations(Text)
=============================================================================
