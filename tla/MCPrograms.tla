----------------------------- MODULE MCPrograms -----------------------------
EXTENDS Programs, TLC

CONSTANTS p1, p2, n1, n2, d1, d2

MCProgram == {p1, p2}
\* The second one is not built for the second device.
MCFor == p1 :> {d1, d2} @@ p2 :> {d1}
MCName == {n1, n2}

\* The programs have a kernel of the same name, and the first one of its own.
MCHas == p1 :> {n1, n2} @@ p2 :> {n1}

\* The programs, the names, the devices and the threads cannot be exchanged.
Interchangeable ==
  {p @@ q @@ r : p \in Permutations(Command), q \in Permutations(Kernel),
                 r \in Permutations(Args)}
=============================================================================
