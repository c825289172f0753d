-------------------------- MODULE WorkGroupsProofs --------------------------
(***************************************************************************)
(* For any number of cores and any sizes that the launcher is made for:    *)
(* every work-group of the NDRange is executed once, and when the cores    *)
(* have left the launcher all of them were.                                *)
(***************************************************************************)
EXTENDS WorkGroups, TLAPS

-----------------------------------------------------------------------------
(* Quotients and remainders.                                               *)

\* A number is its quotient and its remainder, which is below the divisor.
LEMMA Division ==
  ASSUME NEW a \in Nat, NEW b \in Nat \ {0}
  PROVE  /\ a \div b \in Nat /\ a % b \in 0 .. b - 1
         /\ a = b * (a \div b) + (a % b)
  OBVIOUS

\* A product of a positive number grows with the other factor.
LEMMA Larger ==
  ASSUME NEW b \in Nat \ {0}, NEW p \in Int, NEW q \in Int, p < q
  PROVE  b * p + b <= b * q
<1>1. PICK k \in Nat : q = p + 1 + k
  <2>1. q - p - 1 \in Nat /\ q = p + 1 + (q - p - 1)
    OBVIOUS
  <2> QED BY <2>1
<1>2. b * q = b * p + b + b * k /\ b * k >= 0
  BY <1>1
<1> QED BY <1>2

\* They are unique.
LEMMA Unique ==
  ASSUME NEW b \in Nat \ {0}, NEW q \in Nat, NEW r \in 0 .. b - 1
  PROVE  /\ b * q + r \in Nat
         /\ (b * q + r) \div b = q /\ (b * q + r) % b = r
<1> DEFINE a == b * q + r
           p == a \div b
           s == a % b
<1>1. a \in Nat
  OBVIOUS
<1>2. p \in Nat /\ s \in 0 .. b - 1 /\ a = b * p + s
  BY <1>1, Division
<1>3. CASE p < q
  <2>1. b * p + b <= b * q
    BY <1>2, <1>3, Larger
  <2> QED BY <1>2, <2>1
<1>4. CASE q < p
  <2>1. b * q + b <= b * p
    BY <1>2, <1>4, Larger
  <2> QED BY <1>2, <2>1
<1>5. CASE p = q
  <2>1. s = r
    BY <1>2, <1>5
  <2> QED BY <1>1, <1>5, <2>1
<1> QED BY <1>2, <1>3, <1>4, <1>5

\* A number below the divisor is its own remainder.
LEMMA SmallRemainder ==
  ASSUME NEW b \in Nat \ {0}, NEW r \in 0 .. b - 1
  PROVE  r % b = r /\ r \div b = 0
<1>1. r = b * 0 + r
  OBVIOUS
<1> QED BY <1>1, Unique

\* The next number of the same remainder.
LEMMA NextRemainder ==
  ASSUME NEW a \in Nat, NEW b \in Nat \ {0}
  PROVE  (a + b) % b = a % b
<1> DEFINE q == a \div b
           r == a % b
<1>1. q \in Nat /\ r \in 0 .. b - 1 /\ a = b * q + r
  BY Division
<1> HIDE DEF q, r
<1>2. a + b = b * (q + 1) + r /\ q + 1 \in Nat
  BY <1>1
<1>3. (b * (q + 1) + r) % b = r
  BY <1>1, <1>2, Unique
<1> QED BY <1>2, <1>3 DEF r

\* No number of the same remainder comes between a number and the next.
LEMMA NoneBetween ==
  ASSUME NEW a \in Nat, NEW c \in Nat, NEW b \in Nat \ {0},
         a % b = c % b, c < a + b
  PROVE  c <= a
<1> DEFINE p == a \div b
           q == c \div b
           r == a % b
<1>1. /\ p \in Nat /\ q \in Nat /\ r \in 0 .. b - 1
      /\ a = b * p + r /\ c = b * q + r
  BY Division
<1> HIDE DEF p, q, r
<1>2. CASE p < q
  <2>1. b * p + b <= b * q
    BY <1>1, <1>2, Larger
  <2> QED BY <1>1, <2>1
<1>3. CASE q = p
  BY <1>1, <1>3
<1>4. CASE q < p
  <2>1. b * q + b <= b * p
    BY <1>1, <1>4, Larger
  <2> QED BY <1>1, <2>1
<1> QED BY <1>1, <1>2, <1>3, <1>4

\* The quotient of a number below a product.
LEMMA QuotientBelow ==
  ASSUME NEW a \in Nat, NEW b \in Nat \ {0}, NEW m \in Nat, a < b * m
  PROVE  a \div b < m
<1> DEFINE q == a \div b
           r == a % b
<1>1. q \in Nat /\ r \in 0 .. b - 1 /\ a = b * q + r
  BY Division
<1> HIDE DEF q, r
<1>2. CASE m < q
  <2>1. b * m + b <= b * q
    BY <1>1, <1>2, Larger
  <2> QED BY <1>1, <2>1
<1>3. CASE m = q
  BY <1>1, <1>3
<1> QED BY <1>1, <1>2, <1>3 DEF q

\* A number made of a remainder and a quotient is below the product.
LEMMA ProductBound ==
  ASSUME NEW b \in Nat \ {0}, NEW m \in Nat, NEW r \in 0 .. b - 1, NEW q \in 0 .. m - 1
  PROVE  b * q + r \in Nat /\ b * q + r < b * m
<1>1. b * q + b <= b * m
  BY Larger
<1> QED BY <1>1

-----------------------------------------------------------------------------
(* The types.                                                              *)

LEMMA TypeInit == Init => TypeOK
  BY SizesOK DEF Init, TypeOK, Dim, Core

\* A guessed local size, the number of work-groups and the total are numbers.
LEMMA SizesType ==
  ASSUME TypeOK, \A d \in 1 .. dims : global[d] > 1 => local[d] > 0
  PROVE  \A d \in Dim : GroupsOf(d) \in Nat
<1> TAKE d \in Dim
<1>1. CASE d <= dims /\ global[d] > 1
  <2>1. global[d] \in Nat /\ local[d] \in Nat \ {0}
    BY <1>1 DEF TypeOK, Dim
  <2>2. global[d] \div local[d] \in Nat
    BY <2>1, Division
  <2> QED BY <1>1, <2>2 DEF GroupsOf
<1> QED BY <1>1 DEF GroupsOf

LEMMA EnqueueType == ASSUME TypeOK, Enqueue PROVE TypeOK'
<1>1. phase' = "queued" /\ dims' \in Dim
  BY DEF Enqueue
<1>2. PICK g \in [1 .. dims' -> 1 .. MaxSize] :
        /\ global' = [d \in Dim |-> IF d <= dims' THEN g[d] ELSE 0]
        /\ \/ local' = [d \in Dim |-> IF d <= dims' THEN Guess(g[d]) ELSE 0]
           \/ \E l \in [1 .. dims' -> 1 .. MaxSize] :
                /\ \A d \in 1 .. dims' : g[d] % l[d] = 0
                /\ local' = [d \in Dim |-> IF d <= dims' THEN l[d] ELSE 0]
  BY DEF Enqueue
<1>3. \A d \in Dim : d <= dims' => g[d] \in Nat /\ Guess(g[d]) \in Nat
  <2> SUFFICES ASSUME NEW d \in Dim, d <= dims' PROVE g[d] \in Nat /\ Guess(g[d]) \in Nat
    OBVIOUS
  <2>1. g[d] \in Nat
    BY <1>1, SizesOK DEF Dim
  <2> QED BY <2>1, SizesOK, Division DEF Guess
<1>4. global' \in [Dim -> Nat]
  BY <1>2, <1>3
<1>5. local' \in [Dim -> Nat]
  <2>1. CASE local' = [d \in Dim |-> IF d <= dims' THEN Guess(g[d]) ELSE 0]
    BY <2>1, <1>3
  <2>2. ASSUME NEW l \in [1 .. dims' -> 1 .. MaxSize],
               local' = [d \in Dim |-> IF d <= dims' THEN l[d] ELSE 0]
        PROVE  local' \in [Dim -> Nat]
    BY <2>2, <1>1, SizesOK DEF Dim
  <2> QED BY <1>2, <2>1, <2>2
<1> QED BY <1>1, <1>4, <1>5 DEF TypeOK, Enqueue, sizeVars, coreVars

LEMMA CompileType == ASSUME TypeOK, Compile PROVE TypeOK'
<1> DEFINE Factor(d) == IF GroupsOf(d) = 0 THEN 1 ELSE GroupsOf(d)
<1>1. \A d \in Dim : GroupsOf(d) \in Nat
  BY SizesType DEF Compile
<1>2. groups' \in [Dim -> Nat]
  BY <1>1 DEF Compile
<1>3. Factor(1) \in Nat /\ Factor(2) \in Nat /\ Factor(3) \in Nat
  BY <1>1 DEF Dim
<1>4. total' \in Nat
  <2>1. total' = Factor(1) * Factor(2) * Factor(3)
    BY DEF Compile
  <2> HIDE DEF Factor
  <2> QED BY <1>3, <2>1
<1> QED BY <1>2, <1>4 DEF TypeOK, Compile, callVars, coreVars

\* Where a core is going: the quotient and the remainder, or what the undefined
\* division left.
LEMMA SelectType ==
  ASSUME TypeOK, NEW c \in Core, NEW i \in Nat, NEW j \in Nat, Select(c, i, j)
  PROVE  TypeOK'
<1>1. i % Byte \in Nat /\ j % Byte \in Nat
  BY SizesOK
<1>2. groupId' \in [Core -> Nat \X Nat] /\ pc' \in [Core -> {"off", "loop", "kernel", "done"}]
  BY <1>1 DEF Select, TypeOK
<1> QED BY <1>2 DEF Select, TypeOK, callVars, sizeVars

LEMMA LaunchType == ASSUME TypeOK, NEW c \in Core, Launch(c) PROVE TypeOK'
<1>1. CASE SelectInRow(c)
  BY <1>1, SelectType DEF SelectInRow, TypeOK
<1>2. CASE SelectRow(c)
  <2>1. id[c] % groups[1] \in Nat /\ id[c] \div groups[1] \in Nat
    <3>1. id[c] \in Nat /\ groups[1] \in Nat \ {0}
      BY <1>2 DEF SelectRow, TypeOK, Dim
    <3>2. \A a \in Nat, b \in Nat \ {0} : a % b \in Nat /\ a \div b \in Nat
      BY Division
    <3> QED BY <3>1, <3>2
  <2> QED BY <1>2, <2>1, SelectType DEF SelectRow
<1>3. CASE SelectUndefined(c)
  <2>1. PICK i, j \in Nat : Select(c, i, j)
    BY <1>3, SizesOK DEF SelectUndefined, AnyResult
  <2> QED BY <2>1, SelectType
<1>4. CASE RunGroup(c)
  <2>1. id' \in [Core -> Nat]
    BY <1>4, SizesOK DEF RunGroup, TypeOK
  <2>2. groupId[c] \in Nat \X Nat
    BY DEF TypeOK
  <2> QED BY <1>4, <2>1, <2>2 DEF RunGroup, TypeOK, callVars, sizeVars
<1>5. CASE Leave(c)
  BY <1>5 DEF Leave, TypeOK, callVars, sizeVars
<1> QED BY <1>1, <1>2, <1>3, <1>4, <1>5 DEF Launch

LEMMA StartType == ASSUME TypeOK, Start PROVE TypeOK'
<1>1. Core \subseteq Nat
  BY SizesOK DEF Core
<1>2. id' \in [Core -> Nat] /\ pc' \in [Core -> {"off", "loop", "kernel", "done"}]
  BY <1>1 DEF Start
<1> QED BY <1>2 DEF Start, TypeOK, callVars, sizeVars

LEMMA TypeStep == TypeOK /\ [Next]_vars => TypeOK'
<1> SUFFICES ASSUME TypeOK, [Next]_vars PROVE TypeOK'
  OBVIOUS
<1>1. CASE UNCHANGED vars
  BY <1>1 DEF vars, callVars, sizeVars, coreVars, TypeOK
<1> QED BY <1>1, EnqueueType, CompileType, StartType, LaunchType DEF Next

-----------------------------------------------------------------------------
(* What CompileSource makes of the sizes.                                  *)

\* When the launcher's conditions hold, every dimension has a work-group.
LEMMA Counts ==
  ASSUME TypeOK, Fits
  PROVE  \A d \in Dim : Count(d) \in Nat \ {0}
<1> TAKE d \in Dim
<1>1. CASE d <= dims /\ global[d] > 1
  <2>1. /\ global[d] \in Nat \ {0} /\ local[d] \in Nat \ {0}
        /\ global[d] % local[d] = 0
    BY <1>1 DEF TypeOK, Fits, Dim
  <2>2. /\ global[d] \div local[d] \in Nat
        /\ global[d] = local[d] * (global[d] \div local[d]) + 0
    BY <2>1, Division
  <2>3. global[d] \div local[d] # 0
    BY <2>1, <2>2
  <2> QED BY <1>1, <2>2, <2>3 DEF Count
<1> QED BY <1>1 DEF Count

LEMMA CompileSizes == ASSUME TypeOK, Compile PROVE SizesInv'
<1> SUFFICES ASSUME Launchable' PROVE
      /\ groups'[1] = Count(1)' /\ groups'[1] > 0
      /\ total' = groups'[1] * Count(2)' /\ Count(2)' > 0
      /\ groups'[2] \in {Count(2)', 0} /\ (groups'[2] = 0 => Count(2)' = 1)
  BY DEF SizesInv
<1> DEFINE Factor(d) == IF GroupsOf(d) = 0 THEN 1 ELSE GroupsOf(d)
<1>1. UNCHANGED callVars
  BY DEF Compile
<1>2. Fits /\ \A d \in Dim : Count(d)' = Count(d)
  BY <1>1 DEF Launchable, Fits, Count, callVars, Dim
<1>3. \A d \in Dim : Count(d) \in Nat \ {0}
  BY <1>2, Counts
<1>4. \A d \in Dim : /\ groups'[d] = GroupsOf(d) /\ Factor(d) = Count(d)
                     /\ GroupsOf(d) \in {Count(d), 0}
  BY <1>3 DEF Compile, GroupsOf, Count
<1>5. global[1] > 1 /\ dims \in Dim /\ Count(3) = 1
  BY <1>2 DEF Fits, TypeOK
<1>6. groups'[1] = Count(1)
  BY <1>4, <1>5 DEF GroupsOf, Count, Dim
<1>7. total' = Factor(1) * Factor(2) * Factor(3)
  BY DEF Compile
<1>8. total' = Count(1) * Count(2) * Count(3)
  <2> HIDE DEF Factor
  <2> QED BY <1>4, <1>7 DEF Dim
<1>9. total' = Count(1) * Count(2)
  BY <1>3, <1>5, <1>8 DEF Dim
<1>10. groups'[2] \in {Count(2), 0} /\ (groups'[2] = 0 => Count(2) = 1)
  BY <1>4 DEF Dim
<1> QED BY <1>2, <1>3, <1>6, <1>9, <1>10 DEF Dim

-----------------------------------------------------------------------------
(* The invariant, step by step.                                            *)

LEMMA InvInit == Init => IInv
<1> SUFFICES ASSUME Init PROVE IInv
  OBVIOUS
<1>1. phase = "call" /\ IdleInv
  BY DEF Init, IdleInv
<1> QED BY <1>1, TypeInit DEF IInv, SizesInv, CoresInv, RanInv, Launchable

LEMMA InvEnqueue == ASSUME IInv, Enqueue PROVE IInv'
<1>1. TypeOK'
  BY EnqueueType DEF IInv
<1>2. phase = "call" /\ phase' = "queued" /\ UNCHANGED <<pc, y, ran, twice>>
  BY DEF Enqueue, coreVars
<1>3. IdleInv'
  BY <1>2 DEF IInv, IdleInv
<1> QED BY <1>1, <1>2, <1>3 DEF IInv, SizesInv, CoresInv, RanInv, Launchable

LEMMA InvCompile == ASSUME IInv, Compile PROVE IInv'
<1>1. TypeOK' /\ SizesInv'
  BY CompileType, CompileSizes DEF IInv
<1>2. phase = "queued" /\ phase' = "compiled" /\ UNCHANGED <<pc, y, ran, twice>>
  BY DEF Compile, coreVars
<1>3. IdleInv'
  BY <1>2 DEF IInv, IdleInv
<1> QED BY <1>1, <1>2, <1>3 DEF IInv, CoresInv, RanInv

\* While the launcher runs the sizes stay.
LEMMA SameSizes ==
  ASSUME IInv, UNCHANGED <<callVars, sizeVars>>,
         phase \in {"compiled", "running"}, phase' = "running"
  PROVE  /\ SizesInv' /\ (Launchable' => Launchable)
         /\ groups' = groups /\ total' = total
<1>1. Launchable' => Launchable
  BY DEF Launchable, Fits, Count, callVars
<1>2. groups' = groups /\ total' = total /\ \A d \in Dim : Count(d)' = Count(d)
  BY DEF sizeVars, callVars, Count
<1> QED BY <1>1, <1>2 DEF IInv, SizesInv, Dim

LEMMA InvStart == ASSUME IInv, Start PROVE IInv'
<1>1. TypeOK'
  BY StartType DEF IInv
<1>2. SizesInv' /\ (Launchable' => Launchable) /\ total' = total /\ groups' = groups
  BY SameSizes DEF Start
<1>3. /\ phase' = "running" /\ pc' = [c \in Core |-> "loop"] /\ id' = [c \in Core |-> c]
      /\ y' = y /\ ran' = ran /\ twice' = twice
      /\ ran = {} /\ twice = {} /\ \A c \in Core : y[c] = 0
  BY DEF Start, IInv, IdleInv
<1>4. CoresInv'
  <2> SUFFICES ASSUME NEW c \in Core PROVE id'[c] % Cores = c /\ y'[c] = 0 /\ pc'[c] = "loop"
    BY DEF CoresInv
  <2>1. c % Cores = c
    BY SizesOK, SmallRemainder DEF Core
  <2> QED BY <1>3, <2>1
<1>5. RanInv'
  <2>1. Done' = {}
    <3> SUFFICES ASSUME NEW i \in 0 .. total - 1, i < id'[i % Cores] PROVE FALSE
      BY <1>2 DEF Done
    <3>1. i \in Nat /\ Cores \in Nat \ {0}
      BY SizesOK DEF IInv, TypeOK
    <3>2. /\ i % Cores \in 0 .. Cores - 1 /\ i \div Cores \in Nat
          /\ i = Cores * (i \div Cores) + (i % Cores)
      BY <3>1, Division
    <3>3. id'[i % Cores] = i % Cores
      BY <1>3, <3>2 DEF Core
    <3>4. Cores * (i \div Cores) >= 0
      BY <3>1, <3>2
    <3>5. i >= i % Cores
      BY <3>1, <3>2, <3>4
    <3> QED BY <3>1, <3>2, <3>3, <3>5
  <2> QED BY <1>3, <2>1 DEF RanInv
<1>6. IdleInv'
  BY <1>3 DEF IdleInv
<1> QED BY <1>1, <1>2, <1>4, <1>5, <1>6 DEF IInv

\* A core that has found its work-group.
LEMMA InvSelect ==
  ASSUME IInv, Launchable, phase = "running",
         NEW c \in Core, NEW i \in 0 .. Byte - 1, NEW j \in 0 .. Byte - 1,
         Select(c, i, j), id[c] < total, j <= groups[2],
         Group(id[c]) = <<i, j>>, id[c] < groups[1] => j = 0
  PROVE  CoresInv' /\ RanInv'
<1>1. /\ phase' = phase /\ id' = id /\ ran' = ran /\ twice' = twice
      /\ groups' = groups /\ total' = total
      /\ y' = [y EXCEPT ![c] = j]
      /\ pc' = [pc EXCEPT ![c] = "kernel"]
      /\ groupId' = [groupId EXCEPT ![c] = <<i % Byte, j % Byte>>]
  <2>1. groups[2] \in Nat
    BY DEF IInv, TypeOK, Dim
  <2>2. ~(j > groups[2])
    BY <2>1, SizesOK
  <2> QED BY <2>2 DEF Select, sizeVars
<1>2. i % Byte = i /\ j % Byte = j
  BY SizesOK, SmallRemainder
<1>3. pc \in [Core -> {"off", "loop", "kernel", "done"}] /\ y \in [Core -> Nat]
      /\ groupId \in [Core -> Nat \X Nat]
  BY DEF IInv, TypeOK
<1>4. CoresInv'
  <2> SUFFICES ASSUME NEW b \in Core
      PROVE  /\ id[b] % Cores = b
             /\ id[b] < groups[1] => y'[b] = 0
             /\ pc'[b] = "kernel" => id[b] < total /\ groupId'[b] = Group(id[b])
             /\ pc'[b] = "done" => id[b] >= total
    BY <1>1 DEF CoresInv, Group
  <2>1. /\ id[b] % Cores = b
        /\ id[b] < groups[1] => y[b] = 0
        /\ pc[b] = "kernel" => id[b] < total /\ groupId[b] = Group(id[b])
        /\ pc[b] = "done" => id[b] >= total
    BY DEF IInv, CoresInv
  <2>2. CASE b = c
    BY <1>1, <1>2, <1>3, <2>1, <2>2
  <2>3. CASE b # c
    BY <1>1, <1>3, <2>1, <2>3
  <2> QED BY <2>2, <2>3
<1>5. RanInv'
  BY <1>1 DEF IInv, RanInv, Done, Group
<1> QED BY <1>4, <1>5

\* The launcher's arithmetic finds the work-group of the core's number, and its
\* bytes hold it.
LEMMA InRow ==
  ASSUME IInv, Launchable, phase = "running", NEW c \in Core, SelectInRow(c)
  PROVE  CoresInv' /\ RanInv'
<1>1. id[c] \in Nat /\ groups[1] \in Nat \ {0} /\ id[c] < groups[1] /\ y[c] = 0
  BY DEF IInv, TypeOK, SizesInv, CoresInv, SelectInRow, Dim
<1>2. groups[1] <= Byte /\ groups[2] \in Nat /\ id[c] < total
  BY DEF IInv, TypeOK, SizesInv, Launchable, Fits, SelectInRow, Dim
<1>3. Group(id[c]) = <<id[c], 0>>
  BY <1>1, SmallRemainder DEF Group
<1>4. id[c] \in 0 .. Byte - 1 /\ 0 \in 0 .. Byte - 1 /\ 0 <= groups[2]
  BY <1>1, <1>2, SizesOK
<1>5. Select(c, id[c], 0)
  BY <1>1 DEF SelectInRow
<1> QED BY <1>2, <1>3, <1>4, <1>5, InvSelect

LEMMA InLaterRow ==
  ASSUME IInv, Launchable, phase = "running", NEW c \in Core, SelectRow(c)
  PROVE  CoresInv' /\ RanInv'
<1> DEFINE X == groups[1]
           Y == Count(2)
           i == id[c] % X
           j == id[c] \div X
<1>1. /\ id[c] \in Nat /\ X \in Nat \ {0} /\ id[c] >= X /\ id[c] < total
      /\ groups[2] \in Nat
  BY DEF IInv, TypeOK, SizesInv, SelectRow, Dim
<1>2. Y \in Nat \ {0} /\ total = X * Y /\ groups[2] \in {Y, 0} /\ (groups[2] = 0 => Y = 1)
  <2>1. Y \in Nat \ {0}
    BY Counts DEF IInv, Launchable, Dim
  <2> QED BY <2>1 DEF IInv, SizesInv
<1>3. X <= Byte /\ Y <= Byte
  BY DEF IInv, SizesInv, Launchable, Fits
<1>4. i \in 0 .. X - 1 /\ j \in Nat
  BY <1>1, Division
<1>5. j < Y
  <2>1. id[c] < X * Y
    BY <1>1, <1>2
  <2> HIDE DEF X, Y
  <2> QED BY <1>1, <1>2, <2>1, QuotientBelow
<1>6. Select(c, i, j) /\ Group(id[c]) = <<i, j>>
  BY DEF SelectRow, Group
<1> HIDE DEF X, Y, i, j
<1>7. i \in 0 .. Byte - 1 /\ j \in 0 .. Byte - 1 /\ j <= groups[2]
  BY <1>1, <1>2, <1>3, <1>4, <1>5, SizesOK
<1>8. ~(id[c] < groups[1])
  BY <1>1 DEF X
<1> QED BY <1>1, <1>6, <1>7, <1>8, InvSelect

\* Two numbers never mean the same work-group.
LEMMA GroupOnce ==
  ASSUME NEW a \in Nat, NEW b \in Nat, groups[1] \in Nat \ {0}, Group(a) = Group(b)
  PROVE  a = b
<1> DEFINE X == groups[1]
<1>1. a % X = b % X /\ a \div X = b \div X
  BY DEF Group
<1>2. a = X * (a \div X) + (a % X) /\ b = X * (b \div X) + (b % X)
  BY Division
<1> QED BY <1>1, <1>2

LEMMA InvRun ==
  ASSUME IInv, Launchable, phase = "running", NEW c \in Core, RunGroup(c)
  PROVE  CoresInv' /\ RanInv'
<1> DEFINE n == id[c]
<1>1. /\ Cores \in Nat \ {0} /\ id \in [Core -> Nat] /\ n \in Nat /\ total \in Nat
      /\ pc \in [Core -> {"off", "loop", "kernel", "done"}]
      /\ groups[1] \in Nat \ {0}
  BY SizesOK DEF IInv, TypeOK, SizesInv, Dim
<1>2. /\ n % Cores = c /\ n < total /\ groupId[c] = Group(n)
  BY DEF IInv, CoresInv, RunGroup
<1>3. /\ phase' = phase /\ groups' = groups /\ total' = total /\ y' = y /\ groupId' = groupId
      /\ id' = [id EXCEPT ![c] = n + Cores]
      /\ pc' = [pc EXCEPT ![c] = "loop"]
      /\ ran' = ran \union {Group(n)}
      /\ twice' = IF Group(n) \in ran THEN twice \union {Group(n)} ELSE twice
  BY <1>2 DEF RunGroup, sizeVars
<1>4. ran = {Group(k) : k \in Done} /\ twice = {}
  BY DEF IInv, RanInv
<1>5. CoresInv'
  <2> SUFFICES ASSUME NEW b \in Core
      PROVE  /\ id'[b] % Cores = b
             /\ id'[b] < groups[1] => y[b] = 0
             /\ pc'[b] = "kernel" => id'[b] < total /\ groupId[b] = Group(id'[b])
             /\ pc'[b] = "done" => id'[b] >= total
    BY <1>3 DEF CoresInv, Group
  <2>1. /\ id[b] % Cores = b
        /\ id[b] < groups[1] => y[b] = 0
        /\ pc[b] = "kernel" => id[b] < total /\ groupId[b] = Group(id[b])
        /\ pc[b] = "done" => id[b] >= total
    BY DEF IInv, CoresInv
  <2>2. CASE b = c
    <3>1. id'[b] = n + Cores /\ pc'[b] = "loop"
      BY <1>1, <1>3, <2>2
    <3>2. (n + Cores) % Cores = b
      BY <1>1, <1>2, <2>2, NextRemainder
    <3>3. n + Cores < groups[1] => n < groups[1]
      BY <1>1
    <3> QED BY <2>1, <2>2, <3>1, <3>2, <3>3
  <2>3. CASE b # c
    BY <1>1, <1>3, <2>1, <2>3
  <2> QED BY <2>2, <2>3
<1>6. n \notin Done
  BY <1>1, <1>2 DEF Done
<1>7. Done \subseteq Nat
  BY <1>1 DEF Done
<1>8. Group(n) \notin ran
  BY <1>1, <1>4, <1>6, <1>7, GroupOnce
<1>9. Done' = Done \union {n}
  <2>1. ASSUME NEW k \in 0 .. total - 1 PROVE k \in Done' <=> k \in Done \/ k = n
    <3>1. k \in Nat /\ k % Cores \in Core
      BY <1>1, Division DEF Core
    <3>2. CASE k % Cores = c
      <4>1. id'[k % Cores] = n + Cores /\ id[k % Cores] = n
        BY <1>1, <1>3, <3>2
      <4>2. k < n + Cores => k <= n
        BY <1>1, <1>2, <3>1, <3>2, NoneBetween
      <4>3. k < n + Cores <=> k < n \/ k = n
        BY <1>1, <3>1, <4>2
      <4> QED BY <1>3, <4>1, <4>3 DEF Done
    <3>3. CASE k % Cores # c
      <4>1. id'[k % Cores] = id[k % Cores] /\ k # n
        BY <1>1, <1>2, <1>3, <3>1, <3>3
      <4> QED BY <1>3, <4>1 DEF Done
    <3> QED BY <3>2, <3>3
  <2>2. Done \subseteq 0 .. total - 1 /\ Done' \subseteq 0 .. total - 1 /\ n \in 0 .. total - 1
    BY <1>1, <1>2, <1>3 DEF Done
  <2> QED BY <2>1, <2>2
<1>10. \A k : Group(k)' = Group(k)
  BY <1>3 DEF Group
<1>11. ran' = {Group(k)' : k \in Done'}
  <2>1. ran' = {Group(k) : k \in Done \union {n}}
    BY <1>3, <1>4
  <2> QED BY <1>9, <1>10, <2>1
<1>12. twice' = {}
  BY <1>3, <1>4, <1>8
<1> QED BY <1>5, <1>11, <1>12 DEF RanInv

LEMMA InvLeave ==
  ASSUME IInv, Launchable, phase = "running", NEW c \in Core, Leave(c)
  PROVE  CoresInv' /\ RanInv'
<1>1. /\ phase' = phase /\ groups' = groups /\ total' = total
      /\ UNCHANGED <<id, y, groupId, ran, twice>>
      /\ pc' = [pc EXCEPT ![c] = "done"] /\ id[c] >= total
      /\ pc \in [Core -> {"off", "loop", "kernel", "done"}]
  BY DEF Leave, sizeVars, IInv, TypeOK
<1>2. \A b \in Core : pc'[b] = IF b = c THEN "done" ELSE pc[b]
  BY <1>1
<1> QED BY <1>1, <1>2 DEF IInv, CoresInv, RanInv, Done, Group

LEMMA InvLaunch == ASSUME IInv, NEW c \in Core, Launch(c) PROVE IInv'
<1>1. TypeOK'
  BY LaunchType DEF IInv
<1>2. phase = "running"
  BY DEF IInv, IdleInv, Launch, SelectInRow, SelectRow, SelectUndefined, RunGroup, Leave
<1>3. phase' = phase /\ UNCHANGED <<callVars, sizeVars>>
  BY DEF Launch, SelectInRow, SelectRow, SelectUndefined, Select, RunGroup, Leave
<1>4. SizesInv' /\ (Launchable' => Launchable)
  BY <1>2, <1>3, SameSizes
<1>5. CASE Launchable
  <2>1. ~SelectUndefined(c)
    BY <1>5 DEF IInv, SizesInv, SelectUndefined
  <2> QED BY <1>1, <1>2, <1>3, <1>4, <1>5, <2>1, InRow, InLaterRow, InvRun, InvLeave
          DEF Launch, IInv, IdleInv
<1>6. CASE ~Launchable
  BY <1>1, <1>2, <1>3, <1>4, <1>6 DEF IInv, IdleInv, CoresInv, RanInv
<1> QED BY <1>5, <1>6

LEMMA InvStep == IInv /\ [Next]_vars => IInv'
<1> SUFFICES ASSUME IInv, [Next]_vars PROVE IInv'
  OBVIOUS
<1>1. CASE UNCHANGED vars
  BY <1>1 DEF vars, callVars, sizeVars, coreVars, IInv, TypeOK, IdleInv, SizesInv, CoresInv,
     RanInv, Launchable, Fits, Count, Done, Group
<1> QED BY <1>1, InvEnqueue, InvCompile, InvStart, InvLaunch DEF Next

\* The cores share the numbers of the work-groups out among them, each taking those
\* equal to its own modulo the number of cores, and the kernel was run for exactly
\* the numbers that the cores are past (LE1KernelEvent::CreateLauncher).
THEOREM Invariance == Spec => []IInv
<1> QED BY InvInit, InvStep, PTL DEF Spec

-----------------------------------------------------------------------------
(* What follows from it.                                                   *)

\* A number below the total is a work-group of the NDRange.
LEMMA InGrid ==
  ASSUME IInv, Launchable, NEW k \in 0 .. total - 1
  PROVE  Group(k) \in Grid
<1>1. /\ groups[1] \in Nat \ {0} /\ groups[1] = Count(1)
      /\ Count(2) \in Nat \ {0} /\ total = groups[1] * Count(2) /\ k \in Nat
  <2>1. Count(2) \in Nat \ {0}
    BY Counts DEF IInv, Launchable, Dim
  <2> QED BY <2>1 DEF IInv, SizesInv, TypeOK, Dim
<1>2. k % groups[1] \in 0 .. groups[1] - 1 /\ k \div groups[1] \in Nat
  BY <1>1, Division
<1>3. k \div groups[1] < Count(2)
  BY <1>1, QuotientBelow
<1> QED BY <1>1, <1>2, <1>3 DEF Group, Grid

\* Every work-group of the NDRange is that of a number below the total.
LEMMA OfGrid ==
  ASSUME IInv, Launchable, NEW g \in Grid
  PROVE  \E k \in 0 .. total - 1 : g = Group(k)
<1> DEFINE X == groups[1]
           Y == Count(2)
<1>1. X \in Nat \ {0} /\ X = Count(1) /\ Y \in Nat \ {0} /\ total = X * Y
  <2>1. Y \in Nat \ {0}
    BY Counts DEF IInv, Launchable, Dim
  <2> QED BY <2>1 DEF IInv, SizesInv, TypeOK, Dim
<1>2. PICK r \in 0 .. X - 1, q \in 0 .. Y - 1 : g = <<r, q>>
  BY <1>1 DEF Grid
<1> HIDE DEF X, Y
<1>3. X * q + r \in Nat /\ X * q + r < X * Y
  BY <1>1, <1>2, ProductBound
<1>4. (X * q + r) \div X = q /\ (X * q + r) % X = r
  <2>1. q \in Nat /\ X \in Nat \ {0} /\ r \in 0 .. X - 1
    BY <1>1, <1>2
  <2> QED BY <2>1, Unique
<1>5. Group(X * q + r) = g
  BY <1>2, <1>4 DEF Group, X
<1>6. X * q + r \in 0 .. total - 1
  BY <1>1, <1>3
<1> QED BY <1>5, <1>6

LEMMA InvGroupsOnce == IInv => GroupsOnce
<1> SUFFICES ASSUME IInv, Launchable PROVE twice = {} /\ ran \subseteq Grid
  BY DEF GroupsOnce
<1>1. CASE phase = "running"
  BY <1>1, InGrid DEF IInv, RanInv, Done
<1>2. CASE phase # "running"
  BY <1>2 DEF IInv, IdleInv
<1> QED BY <1>1, <1>2

LEMMA InvAllGroupsRun == IInv => AllGroupsRun
<1> SUFFICES ASSUME IInv, Launchable, Ended PROVE ran = Grid
  BY DEF AllGroupsRun
<1>1. phase = "running" /\ \A c \in Core : id[c] >= total
  BY DEF Ended, IInv, CoresInv
<1>2. Done = 0 .. total - 1
  <2> SUFFICES ASSUME NEW k \in 0 .. total - 1 PROVE k < id[k % Cores]
    BY DEF Done
  <2>1. k \in Nat /\ total \in Nat /\ Cores \in Nat \ {0} /\ id \in [Core -> Nat]
    BY SizesOK DEF IInv, TypeOK
  <2>2. k % Cores \in Core
    BY <2>1, Division DEF Core
  <2>3. id[k % Cores] \in Nat /\ id[k % Cores] >= total
    BY <1>1, <2>1, <2>2
  <2> QED BY <2>1, <2>3
<1>3. ran = {Group(k) : k \in 0 .. total - 1}
  BY <1>1, <1>2 DEF IInv, RanInv
<1> QED BY <1>3, InGrid, OfGrid

\* For any number of cores and any sizes that fit: no work-group is executed twice,
\* and none that the NDRange does not have.
THEOREM Groups_Once == Spec => []GroupsOnce
<1> QED BY Invariance, InvGroupsOnce, PTL

\* When every core has left the launcher, the kernel was run for every work-group.
THEOREM All_Groups_Run == Spec => []AllGroupsRun
<1> QED BY Invariance, InvAllGroupsRun, PTL
=============================================================================
