---------------------------- MODULE MCMemObjects ----------------------------
EXTENDS MemObjects, TLC

CONSTANTS t1, t2, d1, d2

MCThread == {t1, t2}
MCDevice == {d1, d2}

\* A thread for each device, or two for one.
Apart  == t1 :> {d1} @@ t2 :> {d2}
Shared == t1 :> {d1, d2} @@ t2 :> {d1}

\* Buffers can be exchanged and, under Apart, the threads with their devices.
Same == [x \in MCThread \union MCDevice |-> x]
Swap == t1 :> t2 @@ t2 :> t1 @@ d1 :> d2 @@ d2 :> d1
ApartSymmetry == {p @@ q : p \in Permutations(Buffer), q \in {Same, Swap}}
=============================================================================
