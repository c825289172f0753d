----------------------------- MODULE WorkGroups -----------------------------
(***************************************************************************)
(* How a kernel's work-groups reach the cores of the LE1 device: the sizes *)
(* that the kernel's event accepts (core/events.cpp), the numbers of       *)
(* work-groups that CompileSource derives from them, and the launcher that *)
(* CreateLauncher generates (core/devices/LE1/LE1kernel.cpp), which every  *)
(* core runs.  Each core keeps the id of its work-group in two bytes of    *)
(* the data memory (LE1DataPrinter.cpp), where the kernel reads it.        *)
(***************************************************************************)
EXTENDS Integers

CONSTANTS
  Cores,    \* numLE1s()
  Byte,     \* values of a byte: a work-group's id is stored in one
  MaxSize   \* bound: the global size of a dimension

ASSUME SizesOK == Cores \in Nat \ {0} /\ Byte \in Nat \ {0} /\ MaxSize \in Nat

Core == 0 .. Cores - 1
Dim  == 1 .. 3

VARIABLES
  phase,    \* "call", "queued", "compiled", "running"
  dims,     \* work_dim
  global,   \* global_work_size of each dimension
  local,    \* local_work_size of each dimension
  groups,   \* workgroups[]
  total,    \* totalWorkgroups
  pc,       \* where each core is in the launcher
  id,       \* the launcher's variables
  x,
  y,
  groupId,  \* the bytes of each core's work-group id
  ran,      \* history: work-groups the kernel was run for
  twice     \* history: those it was run for again

callVars == <<dims, global, local>>
sizeVars == <<groups, total>>
coreVars == <<pc, id, x, y, groupId>>
vars == <<phase, callVars, sizeVars, coreVars, ran, twice>>

Init ==
  /\ phase = "call"
  /\ dims = 1
  /\ global = [d \in Dim |-> 0] /\ local = [d \in Dim |-> 0]
  /\ groups = [d \in Dim |-> 0] /\ total = 1
  /\ pc = [c \in Core |-> "off"]
  /\ id = [c \in Core |-> 0] /\ x = [c \in Core |-> 0] /\ y = [c \in Core |-> 0]
  /\ groupId = [c \in Core |-> <<0, 0>>]
  /\ ran = {} /\ twice = {}

\* guessWorkGroupSize
Guess(size) == size \div Cores

\* The constructor of the kernel's event accepts sizes that are not zero and
\* local sizes that divide them, or guesses the local sizes.
Enqueue ==
  /\ phase = "call" /\ phase' = "queued"
  /\ dims' \in Dim
  /\ \E g \in [1 .. dims' -> 1 .. MaxSize] :
       /\ global' = [d \in Dim |-> IF d <= dims' THEN g[d] ELSE 0]
       /\ \/ local' = [d \in Dim |-> IF d <= dims' THEN Guess(g[d]) ELSE 0]
          \/ \E l \in [1 .. dims' -> 1 .. MaxSize] :
               /\ \A d \in 1 .. dims' : g[d] % l[d] = 0
               /\ local' = [d \in Dim |-> IF d <= dims' THEN l[d] ELSE 0]
  /\ UNCHANGED <<sizeVars, coreVars, ran, twice>>

\* The number of work-groups of a dimension; a dimension of size one has none.
GroupsOf(d) == IF d <= dims /\ global[d] > 1 THEN global[d] \div local[d] ELSE 0

\* CompileSource.  A guessed local size of zero divides by zero: the process
\* ends.
Compile ==
  /\ phase = "queued" /\ phase' = "compiled"
  /\ \A d \in 1 .. dims : global[d] > 1 => local[d] > 0
  /\ groups' = [d \in Dim |-> GroupsOf(d)]
  /\ total' = LET Factor(d) == IF GroupsOf(d) = 0 THEN 1 ELSE GroupsOf(d)
              IN Factor(1) * Factor(2) * Factor(3)
  /\ UNCHANGED <<callVars, coreVars, ran, twice>>

\* Mutant: every core begins with the first work-group.
StartAtZero ==
  /\ phase = "compiled" /\ phase' = "running"
  /\ pc' = [c \in Core |-> "loop"]
  /\ UNCHANGED <<callVars, sizeVars, id, x, y, groupId, ran, twice>>

\* The simulator starts the launcher on every core with the core's number.
Start ==
  /\ phase = "compiled" /\ phase' = "running"
  /\ pc' = [c \in Core |-> "loop"]
  /\ id' = [c \in Core |-> c]
  /\ UNCHANGED <<callVars, sizeVars, x, y, groupId, ran, twice>>

\* The launcher's loop: the work-group of id, stored for the kernel.
Select(c, i, j) ==
  /\ x' = [x EXCEPT ![c] = i]
  /\ y' = [y EXCEPT ![c] = j]
  /\ \/ /\ j > groups[2]
        /\ pc' = [pc EXCEPT ![c] = "done"]
        /\ UNCHANGED groupId
     \/ /\ j <= groups[2]
        /\ groupId' = [groupId EXCEPT ![c] = <<i % Byte, j % Byte>>]
        /\ pc' = [pc EXCEPT ![c] = "kernel"]
  /\ UNCHANGED <<phase, callVars, sizeVars, id, ran, twice>>

SelectInRow(c) ==
  /\ pc[c] = "loop" /\ id[c] < total /\ id[c] < groups[1]
  /\ Select(c, id[c], y[c])

SelectRow(c) ==
  /\ pc[c] = "loop" /\ id[c] < total /\ id[c] >= groups[1] /\ groups[1] # 0
  /\ Select(c, id[c] % groups[1], id[c] \div groups[1])

\* A first dimension of size one: the launcher divides by zero, which C leaves
\* undefined.  Either result is in the NDRange or, as a bound, just outside it.
AnyResult == {0, MaxSize + 1}

SelectUndefined(c) ==
  /\ pc[c] = "loop" /\ id[c] < total /\ groups[1] = 0
  /\ \E i, j \in AnyResult : Select(c, i, j)

\* Mutant: the id stays what it is.
RunAgain(c) ==
  /\ pc[c] = "kernel"
  /\ ran' = ran \union {groupId[c]}
  /\ twice' = IF groupId[c] \in ran THEN twice \union {groupId[c]} ELSE twice
  /\ pc' = [pc EXCEPT ![c] = "loop"]
  /\ UNCHANGED <<phase, callVars, sizeVars, id, x, y, groupId>>

\* Mutant: the next id is the next number.
RunNext(c) ==
  /\ pc[c] = "kernel"
  /\ ran' = ran \union {groupId[c]}
  /\ twice' = IF groupId[c] \in ran THEN twice \union {groupId[c]} ELSE twice
  /\ id' = [id EXCEPT ![c] = @ + 1]
  /\ pc' = [pc EXCEPT ![c] = "loop"]
  /\ UNCHANGED <<phase, callVars, sizeVars, x, y, groupId>>

\* The kernel runs for the work-group whose id it reads, and the core goes on to
\* the next work-group that is its own.
RunGroup(c) ==
  /\ pc[c] = "kernel"
  /\ ran' = ran \union {groupId[c]}
  /\ twice' = IF groupId[c] \in ran THEN twice \union {groupId[c]} ELSE twice
  /\ id' = [id EXCEPT ![c] = @ + Cores]
  /\ pc' = [pc EXCEPT ![c] = "loop"]
  /\ UNCHANGED <<phase, callVars, sizeVars, x, y, groupId>>

\* Mutant: the last work-group is left out.
LeaveBeforeLast(c) ==
  /\ pc[c] = "loop" /\ id[c] >= total - 1
  /\ pc' = [pc EXCEPT ![c] = "done"]
  /\ UNCHANGED <<phase, callVars, sizeVars, id, x, y, groupId, ran, twice>>

Leave(c) ==
  /\ pc[c] = "loop" /\ id[c] >= total
  /\ pc' = [pc EXCEPT ![c] = "done"]
  /\ UNCHANGED <<phase, callVars, sizeVars, id, x, y, groupId, ran, twice>>

Launch(c) ==
  SelectInRow(c) \/ SelectRow(c) \/ SelectUndefined(c) \/ RunGroup(c) \/ Leave(c)

Next == Enqueue \/ Compile \/ Start \/ \E c \in Core : Launch(c)

Spec == Init /\ [][Next]_vars

\* The simulator steps every core.
FairSpec == Spec /\ WF_vars(Start) /\ \A c \in Core : WF_vars(Launch(c))

-----------------------------------------------------------------------------
\* Every variable has its type.
TypeOK ==
  /\ phase \in {"call", "queued", "compiled", "running"}
  /\ dims \in Dim
  /\ global \in [Dim -> Nat] /\ local \in [Dim -> Nat]
  /\ groups \in [Dim -> Nat] /\ total \in Nat
  /\ pc \in [Core -> {"off", "loop", "kernel", "done"}]
  /\ id \in [Core -> Nat] /\ x \in [Core -> Nat] /\ y \in [Core -> Nat]
  /\ groupId \in [Core -> Nat \X Nat]
  /\ ran \subseteq Nat \X Nat /\ twice \subseteq Nat \X Nat

\* The work-groups of the NDRange in a dimension.
Count(d) == IF d <= dims /\ global[d] > 1 THEN global[d] \div local[d] ELSE 1
Grid == (0 .. Count(1) - 1) \X (0 .. Count(2) - 1)

\* What CompileSource and the launcher take for granted: the first dimension has
\* more than one work-item, the third no more than one work-group, every local
\* size divides its global size (a guessed one may not), and the numbers of
\* work-groups fit their bytes.
Fits ==
  /\ global[1] > 1
  /\ \A d \in 1 .. dims : local[d] > 0 /\ global[d] % local[d] = 0
  /\ Count(1) <= Byte /\ Count(2) <= Byte /\ Count(3) = 1

Launchable == phase \in {"compiled", "running"} /\ Fits

\* No work-group is executed twice, by one core or by two, and none that the
\* NDRange does not have.
GroupsOnce == Launchable => twice = {} /\ ran \subseteq Grid

\* When every core has left the launcher the whole NDRange was executed.
Ended == phase = "running" /\ \A c \in Core : pc[c] = "done"
AllGroupsRun == Launchable /\ Ended => ran = Grid

\* Under FairSpec: the launcher comes to an end on every core.
LauncherEnds == phase = "compiled" ~> Ended

-----------------------------------------------------------------------------
\* The work-group that the launcher means by a number, and the numbers that
\* every core has done of its own.
Group(i) == <<i % groups[1], i \div groups[1]>>
Done == {i \in 0 .. total - 1 : i < id[i % Cores]}

\* Before the launcher runs no core has done anything.
IdleInv ==
  phase # "running" =>
    /\ ran = {} /\ twice = {}
    /\ \A c \in Core : pc[c] = "off" /\ y[c] = 0

\* The launcher's constants describe the NDRange.
SizesInv ==
  Launchable =>
    /\ groups[1] = Count(1) /\ groups[1] > 0
    /\ total = groups[1] * Count(2) /\ Count(2) > 0
    /\ groups[2] \in {Count(2), 0} /\ (groups[2] = 0 => Count(2) = 1)

\* A core's ids are its number modulo the number of cores, y is zero in the first
\* row, and what the kernel reads is the work-group of the id.
CoresInv ==
  Launchable /\ phase = "running" =>
    \A c \in Core :
      /\ id[c] % Cores = c
      /\ id[c] < groups[1] => y[c] = 0
      /\ pc[c] = "kernel" => id[c] < total /\ groupId[c] = Group(id[c])
      /\ pc[c] = "done" => id[c] >= total

\* The work-groups executed are those of the numbers done.
RanInv ==
  Launchable /\ phase = "running" =>
    ran = {Group(i) : i \in Done} /\ twice = {}

\* The inductive invariant: the cores share the numbers of the work-groups out
\* among them, and what was executed is what the numbers say.
IInv == TypeOK /\ IdleInv /\ SizesInv /\ CoresInv /\ RanInv
=============================================================================
