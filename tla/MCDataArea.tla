----------------------------- MODULE MCDataArea -----------------------------
(***************************************************************************)
(* Kernels of one variable, one struct and up to three arguments, of every *)
(* type the driver treats in a way of its own; structs of every type with  *)
(* one argument.  The sizes are those at which lines and words differ.     *)
(***************************************************************************)
EXTENDS DataArea, TLC, FiniteSets

CONSTANTS b1, b2

MCBuffers == {b1, b2}

R(s, t, n, b, neg) ==
  [section |-> s, type |-> t, size |-> n, buffer |-> b, negative |-> neg]

MCVars == {<<>>, <<R("var", "byte", 3, NoBuffer, FALSE)>>, <<R("var", "half", 2, NoBuffer, FALSE)>>}
MCStructs == {<<>>, <<R("struct", "word", 8, NoBuffer, FALSE)>>}

\* An argument has one of two buffers, each of one type, or is local.
ArgOf(t1, n1, t2, n2, neg) == {
  R("global", t1, n1, b1, neg), R("global", t2, n2, b2, FALSE),
  R("local", "word", 4, NoBuffer, FALSE), R("local", "byte", 6, NoBuffer, FALSE),
  R("local", "word", Modulus \div NumCores, NoBuffer, FALSE)}

Args(A) == {<<a>> : a \in A} \union (A \X A) \union (A \X A \X A)

\* Structs that are printed wrongly, or only after one of words.
MCFields == {
  <<R("struct", "byte", 4, NoBuffer, FALSE)>>, <<R("struct", "half", 4, NoBuffer, FALSE)>>,
  <<R("struct", "mixed", 8, NoBuffer, FALSE)>>, <<R("struct", "wide", 8, NoBuffer, FALSE)>>,
  <<R("struct", "word", 4, NoBuffer, FALSE), R("struct", "half", 4, NoBuffer, FALSE)>>}

MCArgs == UNION {Args(A) : A \in {
  ArgOf("byte", 5, "word", 4, FALSE), ArgOf("byte", 8, "word", 6, TRUE),
  ArgOf("half", 2, "byte", 4, FALSE), ArgOf("half", 6, "mixed", 8, TRUE),
  ArgOf("half", 4, "wide", 4, FALSE)}}

MCData == {s \o a : s \in MCStructs, a \in MCArgs}
            \union {s \o a : s \in MCFields, a \in {k \in MCArgs : Len(k) = 1}}

MCKernels == {v \o d : v \in MCVars, d \in MCData}
=============================================================================
