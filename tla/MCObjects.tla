----------------------------- MODULE MCObjects -----------------------------
EXTENDS Objects, TLC

Interchangeable == {p @@ q : p \in Permutations(Event), q \in Permutations(Queue)}
=============================================================================
