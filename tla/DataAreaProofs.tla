--------------------------- MODULE DataAreaProofs ---------------------------
(***************************************************************************)
(* For any number of cores, any kernels and any size of the memory: the    *)
(* regions of a launch are disjoint and hold all that the code uses of     *)
(* them, the cores share the local memory out, and the copy back uses the  *)
(* addresses that the code was linked with (PlacementInv).  On that rests  *)
(* what the passes do with the bytes (DataInv): the image has each of them *)
(* where the code looks for it, and the host gets back those that the      *)
(* kernel left.                                                            *)
(***************************************************************************)
EXTENDS DataArea, SequenceTheorems, TLAPS

-----------------------------------------------------------------------------
(* Arithmetic.                                                             *)

\* An address is rounded up to a multiple, by less than that.
LEMMA RoundsUp ==
  ASSUME NEW a \in Nat, NEW w \in {1, 2, 4}
  PROVE  RoundUp(a, w) \in Nat /\ a <= RoundUp(a, w)
<1>1. CASE w = 1
  BY <1>1 DEF RoundUp
<1>2. CASE w = 2
  BY <1>2 DEF RoundUp
<1>3. CASE w = 4
  BY <1>3 DEF RoundUp
<1> QED BY <1>1, <1>2, <1>3

\* An element is one, two or four bytes wide.
LEMMA WidthType ==
  ASSUME NEW t
  PROVE  Width(t) \in {1, 2, 4}
  BY DEF Width

\* A product with a natural number is one.
LEMMA ProductType ==
  ASSUME NEW a \in Nat, NEW b \in Nat
  PROVE  a * b \in Nat /\ a * b = b * a
  OBVIOUS

\* A number below the modulus does not wrap.
LEMMA NoWrap ==
  ASSUME NEW a \in Nat, NEW m \in Nat \ {0}
  PROVE  a % m \in Nat /\ (a < m => a % m = a)
<1>1. a % m \in 0 .. m - 1 /\ a \div m \in Nat /\ a = m * (a \div m) + (a % m)
  OBVIOUS
<1>2. ASSUME a < m
      PROVE  a % m = a
  <2>1. CASE a \div m = 0
    BY <1>1, <2>1
  <2>2. CASE a \div m >= 1
    <3>1. m * (a \div m) >= m
      BY <1>1, <2>2
    <3> QED BY <1>1, <1>2, <3>1
  <2> QED BY <1>1, <2>1, <2>2
<1> QED BY <1>1, <1>2

\* A region is given what the code uses of it, or more.
LEMMA UsedWithinExtent ==
  ASSUME NEW r \in Region
  PROVE  /\ Extent(r) \in Nat /\ Used(r) \in Nat
         /\ Used(r) <= Extent(r)
<1>1. r.size \in Nat /\ NumCores \in Nat
  BY DataOK DEF Region
<1>2. CASE r.section = "var"
  <2>1. r.size % 4 \in Nat
    BY <1>1
  <2> QED BY <1>1, <1>2, <2>1 DEF Extent, Used
<1>3. CASE r.section = "local"
  <2>1. Extent(r) = r.size * NumCores /\ Used(r) = NumCores * r.size
    BY <1>3 DEF Extent, Used
  <2> QED BY <1>1, <2>1, ProductType
<1>4. CASE r.section \notin {"var", "local"}
  BY <1>1, <1>4 DEF Extent, Used
<1> QED BY <1>2, <1>3, <1>4

\* Core d takes its part of a local region before that of core c begins.
LEMMA PartsApart ==
  ASSUME NEW c \in Nat, NEW d \in Nat, d < c, NEW s \in Nat
  PROVE  d * s \in Nat /\ c * s \in Nat /\ d * s + s <= c * s
<1>1. PICK k \in Nat : c = d + 1 + k
  <2>1. c - d - 1 \in Nat /\ c = d + 1 + (c - d - 1)
    OBVIOUS
  <2> QED BY <2>1
<1>2. c * s = d * s + s + k * s /\ k * s \in Nat /\ d * s \in Nat
  BY <1>1
<1> QED BY <1>2

-----------------------------------------------------------------------------
(* The inductive invariant.                                                *)

Placing == {"vars", "structs", "args"}
Placed  == {"labels", "data", "run", "read"}

\* The parts of the type that the placement is about.
PlaceTypes ==
  /\ pc \in Placing \union Placed \union {"idle"}
  /\ result \in {"none", "ok", "failed"}
  /\ regions \in Seq(Region)
  /\ next \in Nat \ {0}
  /\ cursor \in Nat /\ wrapped \in BOOLEAN
  /\ label \in Seq(Nat)
  /\ bufAddr \in [Buffers -> Nat]

\* The constructor has labelled the regions before the one it is at.
LabelInv ==
  /\ pc = "idle" /\ result = "none" => label = <<>> /\ next = 1
  /\ pc \in Placing => Len(label) = next - 1
  /\ Len(label) <= Len(regions)

\* What it has labelled lies below the next address, in the order of the walk.
LayoutInv == ~wrapped =>
  /\ pc \in Placing => cursor >= AttrAddrEnd
  /\ \A i \in DOMAIN label : label[i] >= AttrAddrEnd /\ label[i] + Used(regions[i]) <= cursor
  /\ \A i, j \in DOMAIN label : i < j => label[i] + Used(regions[i]) <= label[j]

\* AppendDataArea has accepted the size and compared the addresses.
CheckedInv == pc \in {"data", "run", "read"} => cursor < MaxGlobalAddr /\ LabelsAgree

PlacementInv == PlaceTypes /\ LabelInv /\ LayoutInv /\ CheckedInv

\* A kernel's data is a sequence of regions.
LEMMA KernelsAreRegions ==
  ASSUME NEW k \in Kernels
  PROVE  k \in Seq(Region)
  BY DataOK

\* Nothing is labelled at first.
LEMMA PlacementInit == Init => PlacementInv
<1> SUFFICES ASSUME Init
             PROVE  PlacementInv
  OBVIOUS
<1>1. PlaceTypes
  <2>1. bufAddr \in [Buffers -> Nat]
    BY DEF Init
  <2>2. regions = <<>> /\ label = <<>>
    BY DEF Init
  <2>3. regions \in Seq(Region) /\ label \in Seq(Nat)
    BY <2>2
  <2>4. pc = "idle" /\ result = "none" /\ next = 1 /\ cursor = 0
    BY DEF Init
  <2>5. wrapped \in BOOLEAN
    BY Zenon DEF Init
  <2> QED BY <2>1, <2>3, <2>4, <2>5 DEF PlaceTypes, Placing, Placed
<1>2. LabelInv /\ LayoutInv /\ CheckedInv
  BY DEF Init, LabelInv, LayoutInv, CheckedInv, Placing
<1> QED BY <1>1, <1>2 DEF PlacementInv

\* A region is placed at an address that is not below the next one.
LEMMA PlaceAtKeeps ==
  ASSUME PlacementInv, pc \in Placing, pc' = pc, next <= Len(regions),
         NEW a \in Nat, cursor <= a, PlaceAt(a),
         bufAddr' \in [Buffers -> Nat], UNCHANGED <<result, regions>>
  PROVE  PlacementInv'
<1> DEFINE r == regions[next]
           end == a + Extent(r)
<1> USE DEF PlacementInv
<1>1. r \in Region /\ next = Len(label) + 1
  BY DEF PlaceTypes, LabelInv
<1>2. Extent(r) \in Nat /\ Used(r) \in Nat /\ Used(r) <= Extent(r) /\ end \in Nat
  BY <1>1, UsedWithinExtent
<1>3. label' = Append(label, a) /\ cursor' = end % Modulus
        /\ wrapped' = (wrapped \/ end >= Modulus) /\ next' = next + 1
  BY DEF PlaceAt
<1>4. end % Modulus \in Nat /\ (end < Modulus => end % Modulus = end)
  BY <1>2, NoWrap, DataOK
<1>5. PlaceTypes'
  BY <1>3, <1>4 DEF PlaceTypes
<1>6. /\ label' \in Seq(Nat) /\ Len(label') = Len(label) + 1 /\ label'[next] = a
      /\ \A i \in DOMAIN label : label'[i] = label[i]
      /\ DOMAIN label' = DOMAIN label \union {next}
      /\ \A i \in DOMAIN label' : i \in Nat /\ i <= next
  BY <1>1, <1>3 DEF PlaceTypes
<1>7. LabelInv'
  BY <1>1, <1>3, <1>6 DEF LabelInv, PlaceTypes, Placing
<1>8. LayoutInv'
  <2> SUFFICES ASSUME ~wrapped'
               PROVE  /\ cursor' >= AttrAddrEnd
                      /\ \A i \in DOMAIN label' :
                           label'[i] >= AttrAddrEnd /\ label'[i] + Used(regions[i]) <= cursor'
                      /\ \A i, j \in DOMAIN label' :
                           i < j => label'[i] + Used(regions[i]) <= label'[j]
    BY DEF LayoutInv
  <2>1. ~wrapped /\ cursor' = a + Extent(r) /\ AttrAddrEnd \in Nat
    <3>1. ~wrapped /\ ~(end >= Modulus)
      BY <1>3
    <3>2. end < Modulus
      BY <1>2, <3>1, DataOK
    <3> QED BY <1>3, <1>4, <3>1, <3>2, DataOK DEF AttrAddrEnd
  <2>2. cursor >= AttrAddrEnd
    BY <2>1 DEF LayoutInv
  <2>3. cursor' >= AttrAddrEnd /\ cursor' >= cursor
    BY <1>2, <2>1, <2>2 DEF PlaceTypes
  <2>4. ASSUME NEW i \in DOMAIN label'
        PROVE  label'[i] >= AttrAddrEnd /\ label'[i] + Used(regions[i]) <= cursor'
    <3>1. CASE i = next
      BY <1>2, <1>6, <2>1, <2>2, <3>1 DEF PlaceTypes
    <3>2. CASE i \in DOMAIN label
      <4>1. label[i] >= AttrAddrEnd /\ label[i] + Used(regions[i]) <= cursor
        BY <2>1, <3>2 DEF LayoutInv
      <4>2. label[i] \in Nat /\ regions[i] \in Region /\ Used(regions[i]) \in Nat
        <5>1. label[i] \in Nat /\ i \in DOMAIN regions
          BY <3>2 DEF PlaceTypes, LabelInv
        <5>2. regions[i] \in Region
          BY <5>1 DEF PlaceTypes
        <5> QED BY <5>1, <5>2, UsedWithinExtent
      <4>3. cursor \in Nat /\ cursor' \in Nat /\ cursor <= cursor'
        BY <1>5, <2>3 DEF PlaceTypes
      <4>4. label'[i] = label[i] /\ label[i] + Used(regions[i]) \in Nat
        BY <1>6, <3>2, <4>2
      <4> QED BY <4>1, <4>3, <4>4
    <3> QED BY <1>6, <3>1, <3>2
  <2>5. ASSUME NEW i \in DOMAIN label', NEW j \in DOMAIN label', i < j
        PROVE  label'[i] + Used(regions[i]) <= label'[j]
    <3>0. i \in DOMAIN label
      BY <1>1, <1>6, <2>5 DEF PlaceTypes
    <3>1. label[i] \in Nat /\ regions[i] \in Region /\ Used(regions[i]) \in Nat
      <4>1. label[i] \in Nat /\ i \in DOMAIN regions
        BY <3>0 DEF PlaceTypes, LabelInv
      <4>2. regions[i] \in Region
        BY <4>1 DEF PlaceTypes
      <4> QED BY <4>1, <4>2, UsedWithinExtent
    <3>2. CASE j = next
      <4>1. label[i] + Used(regions[i]) <= cursor
        BY <2>1, <3>0 DEF LayoutInv
      <4>2. label'[i] = label[i] /\ label'[j] = a
        BY <1>6, <3>0, <3>2
      <4>3. cursor \in Nat /\ label[i] + Used(regions[i]) \in Nat
        BY <3>1 DEF PlaceTypes
      <4>4. label[i] + Used(regions[i]) <= a
        BY <4>1, <4>3
      <4> QED BY <4>2, <4>4
    <3>3. CASE j \in DOMAIN label
      <4>1. label[i] + Used(regions[i]) <= label[j]
        BY <2>1, <2>5, <3>0, <3>3 DEF LayoutInv
      <4>2. label'[i] = label[i] /\ label'[j] = label[j]
        BY <1>6, <3>0, <3>3
      <4> QED BY <4>1, <4>2
    <3> QED BY <1>6, <3>2, <3>3
  <2> QED BY <2>3, <2>4, <2>5
<1>9. CheckedInv'
  BY DEF CheckedInv, Placing
<1> QED BY <1>5, <1>7, <1>8, <1>9

\* A step to the next section leaves the labels and takes a whole word.
LEMMA EndSectionKeeps ==
  ASSUME PlacementInv, NEW s, NEW from \in {"vars", "structs"}, NEW to \in {"structs", "args"},
         EndSection(from, s, to)
  PROVE  PlacementInv'
<1> USE DEF PlacementInv
<1>1. RoundUp(cursor, 4) \in Nat /\ cursor <= RoundUp(cursor, 4)
  BY RoundsUp DEF PlaceTypes
<1>2. PlaceTypes'
  BY <1>1 DEF EndSection, PlaceTypes, Placing, Placed
<1>3. LabelInv' /\ CheckedInv'
  BY DEF EndSection, LabelInv, CheckedInv, Placing
<1>4. LayoutInv'
  <2> SUFFICES ASSUME ~wrapped'
               PROVE  LayoutInv'
    BY DEF LayoutInv
  <2>1. /\ ~wrapped /\ pc \in Placing /\ cursor' = RoundUp(cursor, 4)
        /\ UNCHANGED <<label, regions>>
    BY DEF EndSection, Placing
  <2>2. cursor >= AttrAddrEnd /\ AttrAddrEnd \in Nat
    BY <2>1, DataOK DEF LayoutInv, AttrAddrEnd
  <2>3. cursor' >= AttrAddrEnd
    BY <1>1, <2>1, <2>2 DEF PlaceTypes
  <2>4. ASSUME NEW i \in DOMAIN label
        PROVE  label[i] >= AttrAddrEnd /\ label[i] + Used(regions[i]) <= cursor'
    <3>1. label[i] >= AttrAddrEnd /\ label[i] + Used(regions[i]) <= cursor
      BY <2>1 DEF LayoutInv
    <3>2. label[i] \in Nat /\ Used(regions[i]) \in Nat
      BY UsedWithinExtent DEF PlaceTypes, LabelInv
    <3> QED BY <1>1, <2>1, <3>1, <3>2 DEF PlaceTypes
  <2>5. \A i, j \in DOMAIN label : i < j => label[i] + Used(regions[i]) <= label[j]
    BY <2>1 DEF LayoutInv
  <2> QED BY <2>1, <2>3, <2>4, <2>5 DEF LayoutInv, AttrAddrEnd
<1> QED BY <1>2, <1>3, <1>4

\* Steps that give no address, outside the passes of the constructor.
LEMMA PlacementKeeps ==
  ASSUME PlacementInv, UNCHANGED <<regions, cursor, wrapped, label, bufAddr>>,
         pc' \in Placed \union {"idle"}, result' \in {"none", "ok", "failed"},
         pc' = "idle" => result' # "none", next' \in Nat \ {0},
         pc' \in {"data", "run", "read"} => cursor < MaxGlobalAddr /\ LabelsAgree
  PROVE  PlacementInv'
<1> USE DEF PlacementInv
<1>1. PlaceTypes'
  BY DEF PlaceTypes
<1>2. LabelInv'
  BY DEF LabelInv, Placing, Placed
<1>3. LayoutInv'
  BY DEF LayoutInv, Placing, Placed, AttrAddrEnd
<1>4. CheckedInv'
  BY DEF CheckedInv, LabelsAgree
<1> QED BY <1>1, <1>2, <1>3, <1>4

\* Every step of a launch keeps the invariant.
LEMMA PlacementNext == PlacementInv /\ [Next]_vars => PlacementInv'
<1> SUFFICES ASSUME PlacementInv, [Next]_vars
             PROVE  PlacementInv'
  OBVIOUS
<1>t. PlaceTypes /\ next + 1 \in Nat \ {0}
  BY DEF PlacementInv, PlaceTypes
<1>1. CASE Launch
  <2>1. regions' \in Seq(Region) /\ Len(regions') >= 0
    BY <1>1, KernelsAreRegions DEF Launch
  <2>2. AttrAddrEnd \in Nat
    BY DataOK DEF AttrAddrEnd
  <2>3. label = <<>> /\ next = 1 /\ label' = label /\ next' = next /\ pc' = "vars"
    BY <1>1 DEF Launch, PlacementInv, LabelInv
  <2>4. PlaceTypes'
    BY <1>1, <2>1, <2>2 DEF Launch, PlacementInv, PlaceTypes, Placing
  <2>5. LabelInv'
    BY <2>1, <2>3 DEF LabelInv
  <2>6. LayoutInv'
    BY <1>1, <2>2, <2>3 DEF Launch, LayoutInv, AttrAddrEnd
  <2>7. CheckedInv'
    BY <2>3 DEF CheckedInv
  <2> QED BY <2>4, <2>5, <2>6, <2>7 DEF PlacementInv
<1>2. CASE PlaceVar
  <2>1. pc \in Placing /\ cursor \in Nat /\ cursor <= cursor
    BY <1>2, <1>t DEF PlaceVar, PlaceTypes, Placing
  <2> QED BY <1>2, <1>t, <2>1, PlaceAtKeeps DEF PlaceVar, Here, PlaceTypes, hostVars
<1>3. CASE PlaceStruct
  <2>1. pc \in Placing /\ cursor \in Nat /\ cursor <= cursor
    BY <1>3, <1>t DEF PlaceStruct, PlaceTypes, Placing
  <2> QED BY <1>3, <1>t, <2>1, PlaceAtKeeps DEF PlaceStruct, Here, PlaceTypes, hostVars
<1>4. CASE EndVars \/ EndStructs
  BY <1>4, EndSectionKeeps DEF EndVars, EndStructs
<1>5. CASE PlaceArg
  <2> DEFINE a == RoundUp(cursor, Width(regions[next].type))
  <2>1. pc \in Placing /\ pc' = pc /\ next <= Len(regions) /\ PlaceAt(a)
          /\ UNCHANGED <<result, regions>>
    BY <1>5 DEF PlaceArg, Placing
  <2>2. a \in Nat /\ cursor <= a
    BY <1>t, RoundsUp, WidthType DEF PlaceTypes
  <2>3. bufAddr' \in [Buffers -> Nat]
    BY <1>5, <1>t, <2>2 DEF PlaceArg, PlaceTypes
  <2> QED BY <2>1, <2>2, <2>3, PlaceAtKeeps
<1>6. CASE EndArgs
  BY <1>6, <1>t, PlacementKeeps DEF EndArgs, placeVars, PlaceTypes, Placed
<1>7. CASE TooLarge \/ Mismatch \/ Unhandled \/ RunFails
  BY <1>7, <1>t, PlacementKeeps DEF TooLarge, Mismatch, Unhandled, RunFails, End, placeVars, PlaceTypes
<1>8. CASE PrintAttributes
  BY <1>8, <1>t, PlacementKeeps DEF PrintAttributes, placeVars, PlaceTypes, Placed
<1>9. CASE PrintRegion \/ EndData \/ Simulate
  <2>1. CheckedInv
    BY DEF PlacementInv
  <2> QED BY <1>9, <1>t, <2>1, PlacementKeeps
          DEF PrintRegion, EndData, Simulate, placeVars, PlaceTypes, Placed, CheckedInv
<1>10. CASE ReadArg \/ SkipRegion
  <2>1. CheckedInv
    BY DEF PlacementInv
  <2> QED BY <1>10, <1>t, <2>1, PlacementKeeps
          DEF ReadArg, SkipRegion, placeVars, PlaceTypes, Placed, CheckedInv
<1>11. CASE EndRead
  BY <1>11, <1>t, PlacementKeeps DEF EndRead, End, placeVars, PlaceTypes
<1>12. CASE UNCHANGED vars
  BY <1>12 DEF vars, placeVars, PlacementInv, PlaceTypes, LabelInv, LayoutInv, CheckedInv,
     LabelsAgree, AttrAddrEnd
<1> QED BY <1>1, <1>2, <1>3, <1>4, <1>5, <1>6, <1>7, <1>8, <1>9, <1>10, <1>11, <1>12 DEF Next

-----------------------------------------------------------------------------
(* The theorems.                                                           *)

\* The constructor's walk and AppendDataArea's checks keep the invariant.
THEOREM Placement == Spec => []PlacementInv
<1>1. Init => PlacementInv
  BY PlacementInit
<1>2. PlacementInv /\ [Next]_vars => PlacementInv'
  BY PlacementNext
<1> QED BY <1>1, <1>2, PTL DEF Spec

\* The regions of a kernel's data never overlap and have room for what the code
\* uses of them, whatever the kernel, as long as no address wraps.
THEOREM Regions_Disjoint == Spec => []RegionsDisjoint
<1>1. PlacementInv => RegionsDisjoint
  BY DEF PlacementInv, LayoutInv, CheckedInv, RegionsDisjoint
<1> QED BY <1>1, Placement, PTL

\* The parts of a local argument that the launcher hands to the cores are
\* disjoint, for any number of cores.
THEOREM Cores_Apart == Spec => []CoresApart
<1>1. PlacementInv => CoresApart
  <2> SUFFICES ASSUME PlacementInv, NEW i \in DOMAIN label,
                      regions[i].section = "local", regions[i].size % 4 = 0,
                      NEW c \in 0 .. NumCores - 1
               PROVE  /\ LocalOf(i, c) + regions[i].size <= label[i] + Used(regions[i])
                      /\ \A d \in 0 .. c - 1 : LocalOf(i, d) + regions[i].size <= LocalOf(i, c)
    BY DEF CoresApart
  <2> DEFINE s == regions[i].size
             q == s \div 4
  <2>1. label[i] \in Nat /\ regions[i] \in Region /\ NumCores \in Nat \ {0}
    BY DataOK DEF PlacementInv, PlaceTypes, LabelInv
  <2>2. s \in Nat /\ q \in Nat /\ s = 4 * q
    BY <2>1 DEF Region
  <2> HIDE DEF s, q
  <2>3. ASSUME NEW x \in Nat
        PROVE  /\ x * q \in Nat /\ x * s \in Nat
               /\ 4 * (x * q) = x * s
    BY <2>2
  <2>4. ASSUME NEW x \in Nat
        PROVE  LocalOf(i, x) = label[i] + x * s
    BY <2>1, <2>3 DEF LocalOf, s, q
  <2>5. LocalOf(i, c) + s <= label[i] + Used(regions[i])
    <3>1. c \in Nat /\ c < NumCores
      BY <2>1
    <3>2. c * s + s <= NumCores * s /\ c * s \in Nat /\ NumCores * s \in Nat
      BY <2>1, <2>2, <3>1, PartsApart
    <3>3. Used(regions[i]) = NumCores * s
      BY DEF Used, s
    <3>4. LocalOf(i, c) = label[i] + c * s
      BY <2>4, <3>1
    <3> DEFINE u == c * s
               v == NumCores * s
    <3>5. u \in Nat /\ v \in Nat /\ u + s <= v
      BY <3>2
    <3>6. LocalOf(i, c) = label[i] + u /\ Used(regions[i]) = v
      BY <3>3, <3>4
    <3> HIDE DEF u, v
    <3> QED BY <2>1, <2>2, <3>5, <3>6
  <2>6. ASSUME NEW d \in 0 .. c - 1
        PROVE  LocalOf(i, d) + s <= LocalOf(i, c)
    <3>1. c \in Nat /\ d \in Nat /\ d < c
      BY <2>1
    <3>2. d * s + s <= c * s /\ d * s \in Nat /\ c * s \in Nat
      BY <2>2, <3>1, PartsApart
    <3>3. LocalOf(i, c) = label[i] + c * s /\ LocalOf(i, d) = label[i] + d * s
      BY <2>4, <3>1
    <3> DEFINE u == d * s
               v == c * s
    <3>4. u \in Nat /\ v \in Nat /\ u + s <= v
      BY <3>2
    <3>5. LocalOf(i, d) = label[i] + u /\ LocalOf(i, c) = label[i] + v
      BY <3>3
    <3> HIDE DEF u, v
    <3> QED BY <2>1, <2>2, <3>4, <3>5
  <2> QED BY <2>5, <2>6 DEF s
<1> QED BY <1>1, Placement, PTL

\* A kernel that runs was linked with the addresses that the copy back uses.
THEOREM CopyBack_Agrees == Spec => []CopyBackAgrees
<1>1. PlacementInv => CopyBackAgrees
  BY DEF PlacementInv, CheckedInv, LabelsAgree, CopyBackAgrees
<1> QED BY <1>1, Placement, PTL

-----------------------------------------------------------------------------
(* The bytes: lines that are printed, and words that are read back.        *)

\* A sequence of bytes is a function of their places.
LEMMA CellByCell ==
  ASSUME NEW n \in Nat, NEW f \in [1 .. n -> Cells]
  PROVE  f \in Seq(Cells) /\ Len(f) = n
<1>1. f = [k \in 1 .. n |-> f[k]] /\ \A k \in 1 .. n : f[k] \in Cells
  OBVIOUS
<1>2. f \in Seq(Cells)
  BY SeqDef
<1> QED BY <1>2, LenProperties

\* A byte has a region and an offset.
LEMMA CellType ==
  /\ Pad \in Cells
  /\ \A i, k \in Nat, by \in {"host", "kernel"} : Cell(i, k, by) \in Cells
  BY DEF Pad, Cell, Cells

\* Bytes that are zero.
LEMMA ZerosType ==
  ASSUME NEW n \in Nat
  PROVE  Zeros(n) \in Seq(Cells) /\ Len(Zeros(n)) = n
<1>1. Zeros(n) \in [1 .. n -> Cells]
  BY CellType DEF Zeros
<1> QED BY <1>1, CellByCell

\* The bytes of a region from its first one.
LEMMA RunType ==
  ASSUME NEW n \in Nat, NEW i \in Nat
  PROVE  /\ [k \in 1 .. n |-> Cell(i, k - 1, "host")] \in Seq(Cells)
         /\ Len([k \in 1 .. n |-> Cell(i, k - 1, "host")]) = n
<1> DEFINE f == [k \in 1 .. n |-> Cell(i, k - 1, "host")]
<1>1. \A k \in 1 .. n : Cell(i, k - 1, "host") \in Cells
  BY CellType
<1>2. f \in [1 .. n -> Cells]
  BY <1>1
<1> HIDE DEF f
<1>3. f \in Seq(Cells) /\ Len(f) = n
  BY <1>2, CellByCell
<1> QED BY <1>3 DEF f

\* A sign is a line or a part of one.
LEMMA SignType ==
  ASSUME NEW r, NEW n \in Nat
  PROVE  SignOf(r, n) \in Seq(Cells)
  BY ZerosType DEF SignOf

\* Whatever is printed of a struct is a sequence of bytes.
LEMMA ElementsType ==
  ASSUME NEW r \in Region, NEW i \in Nat
  PROVE  PrintElements(r, i) \subseteq Seq(Cells)
<1> DEFINE n == IF r.type = "mixed" THEN RoundUp(r.size, 8) ELSE r.size
           legible(k) == \/ r.type = "word"
                         \/ hex /\ (r.type = "half" \/ (r.type = "mixed" /\ (k - 1) % 8 >= 4))
           lines == [k \in 1 .. n |-> IF legible(k) THEN Cell(i, k - 1, "host") ELSE Pad]
<1>1. n \in Nat
  <2>1. r.size \in Nat
    BY DEF Region
  <2>2. RoundUp(r.size, 8) \in Nat
    BY <2>1 DEF RoundUp
  <2> QED BY <2>1, <2>2
<1>2. PrintElements(r, i) = IF \A k \in 1 .. n : legible(k) THEN {lines} ELSE {lines, Append(lines, Pad)}
  BY DEF PrintElements
<1>3. lines \in Seq(Cells)
  <2> HIDE DEF n, legible
  <2>1. \A k \in 1 .. n : k - 1 \in Nat
    BY <1>1
  <2>2. lines \in [1 .. n -> Cells]
    BY <2>1, CellType
  <2> QED BY <1>1, <2>2, CellByCell
<1> HIDE DEF lines
<1>4. Append(lines, Pad) \in Seq(Cells)
  BY <1>3, CellType
<1> QED BY <1>2, <1>3, <1>4

\* Whatever is printed for a region is a sequence of bytes.
LEMMA LinesType ==
  ASSUME NEW r \in Region, NEW i \in Nat
  PROVE  Lines(r, i) \subseteq Seq(Cells)
<1> DEFINE n == Extent(r)
<1>1. n \in Nat
  BY UsedWithinExtent
<1>2. n % 4 \in Nat /\ 4 - (n % 4) \in Nat /\ 4 * (n \div 4) \in Nat
  BY <1>1
<1> HIDE DEF n
<1>3. FullLines(r, i, n) \in Seq(Cells)
  <2>1. SignOf(r, 3) \in Seq(Cells) /\ <<>> \in Seq(Cells)
    BY SignType
  <2>2. [k \in 1 .. 4 * (n \div 4) |-> Cell(i, k - 1, "host")] \in Seq(Cells)
    BY <1>2, RunType
  <2> QED BY <2>1, <2>2, ConcatProperties DEF FullLines
<1>4. LastLine(r, i, n) \in Seq(Cells)
  <2> DEFINE first == [k \in 1 .. (IF r.type = "half" THEN 2 ELSE n % 4) |-> Cell(i, k - 1, "host")]
  <2>1. first \in Seq(Cells)
    <3>1. (IF r.type = "half" THEN 2 ELSE n % 4) \in Nat
      BY <1>2
    <3> QED BY <3>1, RunType
  <2>2. /\ SignOf(r, 2) \in Seq(Cells) /\ SignOf(r, 3) \in Seq(Cells) /\ <<>> \in Seq(Cells)
        /\ Zeros(4) \in Seq(Cells) /\ Zeros(4 - (n % 4)) \in Seq(Cells)
    BY <1>2, SignType, ZerosType
  <2> HIDE DEF first
  <2>3. SignOf(r, 2) \o first \o SignOf(r, 2) \o first \in Seq(Cells)
    BY <2>1, <2>2, ConcatProperties
  <2>4. SignOf(r, 3) \o first \o Zeros(4 - (n % 4)) \in Seq(Cells)
    BY <2>1, <2>2, ConcatProperties
  <2>5. LastLine(r, i, n) \in {<<>>, Zeros(4), SignOf(r, 2) \o first \o SignOf(r, 2) \o first,
                               SignOf(r, 3) \o first \o Zeros(4 - (n % 4))}
    <3> DEFINE rest == n % 4
    <3>1. CASE rest = 0 \/ r.type = "word"
      <4>1. LastLine(r, i, n) = <<>>
        BY <3>1 DEF LastLine
      <4> QED BY <4>1
    <3>2. CASE ~(rest = 0 \/ r.type = "word") /\ r.type = "half" /\ rest = 1
      BY <3>2 DEF LastLine
    <3>3. CASE ~(rest = 0 \/ r.type = "word") /\ r.type = "half" /\ rest > 1
      BY <1>2, <3>3 DEF LastLine, first
    <3>4. CASE ~(rest = 0 \/ r.type = "word") /\ r.type # "half"
      <4>1. LastLine(r, i, n) = SignOf(r, 3) \o first \o Zeros(4 - rest)
        BY <3>4 DEF LastLine, first
      <4> QED BY <4>1
    <3>5. rest = 0 \/ rest = 1 \/ rest > 1
      BY <1>2
    <3> QED BY <3>1, <3>2, <3>3, <3>4, <3>5
  <2> QED BY <2>2, <2>3, <2>4, <2>5
<1>5. Zeros(RoundUp(n, 4)) \in Seq(Cells)
  BY <1>1, RoundsUp, ZerosType
<1>6. PrintData(r, i, n) \in Seq(Cells)
  BY <1>3, <1>4, ConcatProperties DEF PrintData
<1>7. Lines(r, i) \in {{Zeros(RoundUp(n, 4))}, {<<>>}, PrintElements(r, i), {PrintData(r, i, n)}}
  <2>1. CASE r.section = "local"
    BY <2>1 DEF Lines, IsStruct, n
  <2>2. CASE r.section # "local" /\ IsStruct(r)
    BY <2>2 DEF Lines
  <2>3. CASE r.section # "local" /\ ~IsStruct(r)
    BY <2>3 DEF Lines, n
  <2> QED BY <2>1, <2>2, <2>3
<1>8. <<>> \in Seq(Cells)
  OBVIOUS
<1> QED BY <1>5, <1>6, <1>7, <1>8, ElementsType

\* The lines of a region of chars, halves or words that fills whole words and
\* does not start with a negative element are its bytes, unless it is a struct of
\* chars, or one of halves while the static stream is in decimal.
LEMMA RegularLines ==
  ASSUME NEW r \in Region, NEW i \in Nat, r.type \in {"byte", "half", "word"},
         Extent(r) % 4 = 0, ~r.negative,
         r.section = "struct" => r.type = "word" \/ (r.type = "half" /\ hex),
         NEW l \in Lines(r, i)
  PROVE  /\ Len(l) = Extent(r)
         /\ r.section # "local" => \A k \in 1 .. Extent(r) : l[k] = Cell(i, k - 1, "host")
<1> DEFINE n == Extent(r)
<1>1. n \in Nat /\ n % 4 = 0 /\ 4 * (n \div 4) = n /\ RoundUp(n, 4) = n
  BY UsedWithinExtent DEF RoundUp
<1> HIDE DEF n
<1>2. CASE r.section = "local"
  <2>1. l = Zeros(n)
    BY <1>1, <1>2 DEF Lines, IsStruct, n
  <2> QED BY <1>1, <1>2, <2>1, ZerosType DEF n
<1>3. CASE r.section # "local"
  <2> DEFINE f == [k \in 1 .. n |-> Cell(i, k - 1, "host")]
  <2>1. f \in Seq(Cells) /\ Len(f) = n /\ \A k \in 1 .. n : f[k] = Cell(i, k - 1, "host")
    BY <1>1, RunType
  <2> HIDE DEF f
  <2>2. SignOf(r, 3) = <<>>
    BY DEF SignOf
  <2>3. FullLines(r, i, n) = f
    <3>1. FullLines(r, i, n) = <<>> \o f
      BY <1>1, <2>2 DEF FullLines, f
    <3> QED BY <2>1, <3>1, ConcatEmptySeq
  <2>4. LastLine(r, i, n) = <<>>
    BY <1>1 DEF LastLine
  <2>5. CASE r.section = "struct"
    <3>1. n = r.size
      BY <2>5 DEF Extent, n
    <3>2. PrintElements(r, i) = {f}
      BY <2>5, <3>1 DEF PrintElements, f
    <3>3. Lines(r, i) = PrintElements(r, i)
      BY <2>5 DEF Lines, IsStruct
    <3> QED BY <2>1, <3>2, <3>3 DEF n
  <2>6. CASE r.section # "struct"
    <3>1. Lines(r, i) = {f \o <<>>}
      BY <1>3, <2>3, <2>4, <2>6 DEF Lines, IsStruct, PrintData, n
    <3>2. l = f
      BY <2>1, <3>1, ConcatEmptySeq
    <3> QED BY <2>1, <3>2 DEF n
  <2> QED BY <2>5, <2>6
<1> QED BY <1>2, <1>3

\* A byte of the memory has a region and an offset.
LEMMA AtType ==
  ASSUME NEW m \in Seq(Cells), NEW a \in Nat
  PROVE  At(m, a) \in Cells
<1>1. CASE a < Len(m)
  <2>1. a + 1 \in 1 .. Len(m)
    BY <1>1
  <2> QED BY <1>1, <2>1, ElementOfSeq DEF At
<1>2. CASE ~(a < Len(m))
  BY <1>2, CellType DEF At
<1> QED BY <1>1, <1>2

\* What a copy back reads are bytes of the memory.
LEMMA ReadType ==
  ASSUME image \in Seq(Cells), NEW t, NEW a \in Nat, NEW size \in Nat,
         NEW k \in DOMAIN Read(t, a, size), k \in Nat
  PROVE  Read(t, a, size)[k] \in Cells
<1>1. \A x \in Nat : WordAt(a, x) \in Cells
  <2>1. \A x \in Nat : 4 * (a \div 4) + x \in Nat
    OBVIOUS
  <2> QED BY <2>1, AtType DEF WordAt
<1>2. CASE t = "byte"
  BY <1>1, <1>2 DEF Read
<1>3. CASE t = "word"
  BY <1>1, <1>3 DEF Read
<1>4. CASE t = "half"
  BY <1>1, <1>4, CellType DEF Read
<1>5. CASE t = "mixed"
  BY <1>1, <1>5 DEF Read
<1>6. CASE t \notin {"byte", "word", "half", "mixed"}
  BY <1>6 DEF Read
<1> QED BY <1>2, <1>3, <1>4, <1>5, <1>6

-----------------------------------------------------------------------------
(* The invariant of the bytes.                                             *)

DataTypes ==
  /\ regions \in Kernels \union {<<>>}
  /\ image \in Seq(Cells) /\ hex \in BOOLEAN
  /\ DOMAIN host = DOMAIN regions
  /\ \A i \in DOMAIN host : host[i] \in [0 .. regions[i].size - 1 -> Cells]
  /\ spill \in BOOLEAN

\* A pass has been through all the regions when the next one begins.
PassInv ==
  /\ pc = "idle" /\ result = "none" => regions = <<>>
  /\ pc \in Placed \/ result = "ok" => Len(label) = Len(regions)
  /\ pc = "run" \/ result = "ok" => next > Len(regions)
  /\ result = "ok" => pc = "idle"

\* Where region i starts, or the next one would.
Start(i) == IF i <= Len(label) THEN label[i] ELSE cursor

\* Regular regions follow one another without a gap, from the attributes on.
DenseInv == ~wrapped /\ Regular /\ pc \in Placing \union Placed =>
  /\ Start(1) = AttrAddrEnd
  /\ \A i \in DOMAIN label : Start(i + 1) = label[i] + Extent(regions[i])
  /\ cursor % 4 = 0

\* The image ends where the region that is printed next starts, and has the
\* bytes of those before it.
PrintedInv == ~wrapped /\ Regular /\ pc \in {"data", "run"} =>
  /\ Len(image) = Start(next)
  /\ \A i \in DOMAIN regions : i < next /\ regions[i].section # "local" =>
       \A k \in 0 .. regions[i].size - 1 : image[label[i] + k + 1] = Cell(i, k, "host")

\* A word of a struct that was printed has switched the static stream.
HexInv == pc \in {"data", "run"} =>
  \A i \in DOMAIN regions : i < next /\ SetsHex(regions[i]) => hex

\* The memory has what the kernel left in its buffers.
LeftInv == ~wrapped /\ pc = "read" =>
  \A i \in DOMAIN regions : regions[i].section = "global" =>
    \A k \in 0 .. regions[i].size - 1 : At(image, label[i] + k) = Cell(i, k, "kernel")

\* The buffers that the copy back has passed have it too.
CopiedInv == ~wrapped /\ (pc = "read" \/ result = "ok") =>
  \A i \in DOMAIN regions : i < next /\ Readable(i) =>
    \A k \in 0 .. regions[i].size - 1 : host[i][k] = Cell(i, k, "kernel")

\* Only the conversions of halves and of mixed structs write elsewhere.
SpillInv == spill => \E i \in DOMAIN regions : regions[i].type \in {"half", "mixed"}

DataInv == /\ PlacementInv /\ DataTypes /\ PassInv
           /\ DenseInv /\ PrintedInv /\ HexInv /\ LeftInv /\ CopiedInv /\ SpillInv

\* There is nothing at first.
LEMMA DataInit == Init => DataInv
<1> SUFFICES ASSUME Init
             PROVE  DataInv
  OBVIOUS
<1>1. PlacementInv
  BY PlacementInit
<1>2. /\ pc = "idle" /\ result = "none" /\ regions = <<>> /\ image = <<>> /\ host = <<>>
      /\ spill = FALSE /\ hex \in BOOLEAN
  BY Zenon DEF Init
<1>3. DataTypes
  <2>1. spill \in BOOLEAN /\ hex \in BOOLEAN
    BY <1>2
  <2>2. image \in Seq(Cells) /\ \A i \in DOMAIN host : FALSE
    BY <1>2
  <2>3. regions \in Kernels \union {<<>>} /\ DOMAIN host = DOMAIN regions
    BY <1>2
  <2> QED BY <2>1, <2>2, <2>3 DEF DataTypes
<1>4. PassInv /\ DenseInv /\ PrintedInv /\ HexInv /\ LeftInv /\ CopiedInv
  BY <1>2 DEF PassInv, DenseInv, PrintedInv, HexInv, LeftInv, CopiedInv, Placing, Placed
<1>5. SpillInv
  BY <1>2 DEF SpillInv
<1> QED BY <1>1, <1>3, <1>4, <1>5 DEF DataInv

\* What the invariant says of a region that a pass is at.
LEMMA RegionTypes ==
  ASSUME PlacementInv
  PROVE  /\ \A i \in DOMAIN regions : /\ i \in Nat \ {0} /\ regions[i] \in Region
                                      /\ regions[i].size \in Nat
                                      /\ Extent(regions[i]) \in Nat
                                      /\ regions[i].size <= Extent(regions[i]) \/ regions[i].section = "local"
         /\ \A i \in DOMAIN label : i \in DOMAIN regions /\ label[i] \in Nat
         /\ DOMAIN regions = 1 .. Len(regions) /\ Len(regions) \in Nat
         /\ DOMAIN label = 1 .. Len(label) /\ Len(label) \in Nat /\ Len(label) <= Len(regions)
         /\ next \in Nat \ {0} /\ cursor \in Nat /\ AttrAddrEnd \in Nat
<1>1. /\ regions \in Seq(Region) /\ label \in Seq(Nat) /\ Len(label) <= Len(regions)
      /\ next \in Nat \ {0} /\ cursor \in Nat
  BY DEF PlacementInv, PlaceTypes, LabelInv
<1>2. AttrAddrEnd \in Nat
  BY DataOK DEF AttrAddrEnd
<1>3. ASSUME NEW i \in DOMAIN regions
      PROVE  /\ i \in Nat \ {0} /\ regions[i] \in Region
             /\ regions[i].size \in Nat
             /\ Extent(regions[i]) \in Nat
             /\ regions[i].size <= Extent(regions[i]) \/ regions[i].section = "local"
  <2>1. i \in Nat \ {0} /\ regions[i] \in Region
    BY <1>1
  <2>2. regions[i].size \in Nat
    BY <2>1 DEF Region
  <2>3. Extent(regions[i]) \in Nat /\ Used(regions[i]) <= Extent(regions[i])
    BY <2>1, UsedWithinExtent
  <2> QED BY <2>1, <2>2, <2>3 DEF Used
<1> QED BY <1>1, <1>2, <1>3

\* A whole word needs no rounding.
LEMMA RoundsWhole ==
  ASSUME NEW a \in Nat, a % 4 = 0, NEW w \in {1, 2, 4}
  PROVE  RoundUp(a, w) = a
<1>1. CASE w = 1
  BY <1>1 DEF RoundUp
<1>2. CASE w = 2
  BY <1>2 DEF RoundUp
<1>3. CASE w = 4
  BY <1>3 DEF RoundUp
<1> QED BY <1>1, <1>2, <1>3

\* Whole words next to each other are whole words.
LEMMA WordsAdd ==
  ASSUME NEW a \in Nat, NEW b \in Nat, a % 4 = 0, b % 4 = 0
  PROVE  (a + b) % 4 = 0
<1>1. a = 4 * (a \div 4) /\ b = 4 * (b \div 4) /\ a \div 4 \in Nat /\ b \div 4 \in Nat
  OBVIOUS
<1>2. a + b = 4 * ((a \div 4) + (b \div 4))
  BY <1>1
<1>3. \A c \in Nat : (4 * c) % 4 = 0
  OBVIOUS
<1> QED BY <1>1, <1>2, <1>3

\* The constructor writes no bytes.
LEMMA WritesNoBytes ==
  ASSUME DataInv, pc \in Placing, pc' \in Placing \union {"labels"}, result # "ok",
         UNCHANGED <<result, regions, imageVars, hostVars>>
  PROVE  DataTypes' /\ PrintedInv' /\ HexInv' /\ LeftInv' /\ CopiedInv' /\ SpillInv'
<1>1. DataTypes'
  BY DEF DataInv, DataTypes, imageVars, hostVars
<1>2. PrintedInv' /\ HexInv' /\ LeftInv' /\ CopiedInv'
  BY DEF PrintedInv, HexInv, LeftInv, CopiedInv, Placing
<1>3. SpillInv'
  BY DEF DataInv, SpillInv, imageVars, hostVars
<1> QED BY <1>1, <1>2, <1>3

\* A pass of the constructor is part of a launch.
LEMMA NoResultYet ==
  ASSUME DataInv, pc # "idle"
  PROVE  result # "ok"
  BY DEF DataInv, PassInv

\* The next region is placed where the one before it ends.
LEMMA PlaceAtDense ==
  ASSUME DataInv, PlacementInv', pc \in Placing, pc' = pc, next <= Len(regions),
         NEW w \in {1, 2, 4}, NEW a, a \in {cursor, RoundUp(cursor, w)}, PlaceAt(a),
         UNCHANGED <<result, regions, imageVars, hostVars>>
  PROVE  DataInv'
<1> DEFINE x == Extent(regions[next])
<1>0. PICK n \in Nat : n = Len(label)
  BY RegionTypes DEF DataInv
<1>1. /\ n \in Nat /\ next = n + 1 /\ cursor \in Nat /\ next \in DOMAIN regions
      /\ label \in Seq(Nat) /\ x \in Nat /\ Modulus \in Nat \ {0} /\ a \in Nat
  <2>1. n \in Nat /\ next = n + 1 /\ cursor \in Nat /\ label \in Seq(Nat)
    BY <1>0, RegionTypes DEF DataInv, PlacementInv, PlaceTypes, LabelInv
  <2>2. next \in DOMAIN regions /\ x \in Nat
    BY RegionTypes DEF DataInv
  <2> QED BY <2>1, <2>2, RoundsUp, DataOK
<1>2. /\ label' = Append(label, a) /\ cursor' = (a + x) % Modulus
      /\ wrapped' = (wrapped \/ a + x >= Modulus) /\ next' = next + 1
  BY DEF PlaceAt
<1>3. /\ Len(label') = n + 1 /\ label'[n + 1] = a /\ DOMAIN label' = 1 .. n + 1
      /\ \A i \in 1 .. n : label'[i] = label[i]
  BY <1>0, <1>1, <1>2
<1> HIDE DEF x
<1>4. PassInv'
  BY NoResultYet, <1>0, <1>1, <1>2, <1>3 DEF DataInv, PassInv, Placing, Placed
<1>5. DenseInv'
  <2> SUFFICES ASSUME ~wrapped', Regular
               PROVE  /\ Start(1)' = AttrAddrEnd
                      /\ \A i \in DOMAIN label' : Start(i + 1)' = label'[i] + Extent(regions[i])
                      /\ cursor' % 4 = 0
    BY DEF DenseInv, Regular, SetsHex, Extent, AttrAddrEnd
  <2>1. ~wrapped /\ a + x < Modulus
    <3>1. ~wrapped /\ ~(a + x >= Modulus)
      BY <1>2
    <3> QED BY <1>1, <3>1
  <2>2. cursor' = a + x
    <3>1. a + x \in Nat
      BY <1>1
    <3>2. (a + x) % Modulus = a + x
      BY <1>1, <2>1, <3>1, NoWrap
    <3> QED BY <1>2, <3>2
  <2>3. /\ Start(1) = AttrAddrEnd /\ cursor % 4 = 0
        /\ \A i \in DOMAIN label : Start(i + 1) = label[i] + Extent(regions[i])
    BY <2>1 DEF DataInv, DenseInv
  <2>4. a = cursor
    BY <1>1, <2>3, RoundsWhole
  <2>5. x % 4 = 0
    BY <1>1 DEF Regular, x
  <2>6. cursor' % 4 = 0
    BY <1>1, <2>2, <2>3, <2>4, <2>5, WordsAdd
  <2>7. /\ \A i \in 1 .. n + 1 : Start(i)' = Start(i)
        /\ Start(n + 2)' = a + x
    BY <1>0, <1>1, <1>3, <2>2, <2>4 DEF Start
  <2>8. ASSUME NEW i \in 1 .. n + 1
        PROVE  Start(i + 1)' = label'[i] + Extent(regions[i])
    <3>1. CASE i = n + 1
      <4>1. i + 1 = n + 2
        BY <1>1, <3>1
      <4>2. Start(i + 1)' = a + x
        BY <2>7, <4>1
      <4>3. label'[i] = a /\ Extent(regions[i]) = x
        BY <1>1, <1>3, <3>1 DEF x
      <4> QED BY <4>2, <4>3
    <3>2. CASE i \in 1 .. n
      <4>1. i + 1 \in 1 .. n + 1 /\ i \in DOMAIN label
        BY <1>0, <1>1, <3>2
      <4> QED BY <1>3, <2>3, <2>7, <3>2, <4>1
    <3> QED BY <1>1, <3>1, <3>2
  <2> QED BY <1>1, <1>3, <2>3, <2>6, <2>7, <2>8
<1> QED BY <1>4, <1>5, WritesNoBytes, NoResultYet DEF DataInv, Placing

\* The sections of the constructor end at a whole word.
LEMMA EndSectionDense ==
  ASSUME DataInv, PlacementInv', NEW s, NEW from \in {"vars", "structs"},
         NEW to \in {"structs", "args"}, EndSection(from, s, to)
  PROVE  DataInv'
<1>1. /\ pc \in Placing /\ pc' \in Placing /\ cursor' = RoundUp(cursor, 4)
      /\ wrapped' = (wrapped \/ RoundUp(cursor, 4) >= Modulus)
      /\ UNCHANGED <<result, regions, next, label, image, hex, hostVars>>
  BY DEF EndSection, Placing, imageVars
<1>2. PassInv'
  BY <1>1, NoResultYet DEF DataInv, PassInv, Placing, Placed
<1>3. DenseInv'
  <2>1. \A i : ~wrapped /\ Regular => Start(i)' = Start(i)
    <3>1. ~wrapped /\ Regular => cursor' = cursor
      BY <1>1, RoundsWhole, RegionTypes DEF DataInv, DenseInv
    <3> QED BY <1>1, <3>1 DEF Start
  <2>2. ~wrapped /\ Regular => cursor' = cursor
    BY <1>1, RoundsWhole, RegionTypes DEF DataInv, DenseInv
  <2>3. ~wrapped' => ~wrapped
    BY <1>1
  <2>4. Regular' = Regular
    BY <1>1 DEF Regular, SetsHex, Extent
  <2> QED BY <1>1, <2>1, <2>2, <2>3, <2>4 DEF DataInv, DenseInv, Extent, AttrAddrEnd
<1> QED BY <1>1, <1>2, <1>3, WritesNoBytes, NoResultYet DEF DataInv, Placing, imageVars

\* A launch starts at the first region, after the attributes.
LEMMA LaunchData ==
  ASSUME DataInv, PlacementInv', Launch
  PROVE  DataInv'
<1>1. /\ pc = "idle" /\ result = "none" /\ pc' = "vars" /\ regions' \in Kernels
      /\ cursor' = AttrAddrEnd /\ host' = [i \in DOMAIN regions' |-> Unwritten(regions'[i])]
      /\ UNCHANGED <<result, next, label, image, hex, spill>>
  BY DEF Launch, imageVars
<1>2. label = <<>> /\ next = 1
  BY <1>1 DEF DataInv, PlacementInv, LabelInv
<1>3. \A i \in DOMAIN regions' : regions'[i].size \in Nat
  <2>1. PICK k \in Seq(Region) : k = regions'
    BY <1>1, KernelsAreRegions
  <2>2. \A i \in DOMAIN k : k[i] \in Region
    OBVIOUS
  <2> QED BY <2>1, <2>2 DEF Region
<1>4. DataTypes'
  <2>1. \A i \in DOMAIN regions' : host'[i] \in [0 .. regions'[i].size - 1 -> Cells]
    BY <1>1, <1>3, CellType DEF Unwritten
  <2>2. image' \in Seq(Cells) /\ spill' \in BOOLEAN /\ hex' \in BOOLEAN
    BY <1>1 DEF DataInv, DataTypes
  <2> QED BY <1>1, <2>1, <2>2 DEF DataTypes
<1>5. PassInv' /\ PrintedInv' /\ HexInv' /\ LeftInv' /\ CopiedInv'
  BY <1>1 DEF PassInv, PrintedInv, HexInv, LeftInv, CopiedInv, Placed
<1>6. DenseInv'
  <2>1. AttrAddrEnd % 4 = 0
    BY DataOK DEF AttrAddrEnd
  <2>2. Start(1)' = AttrAddrEnd /\ DOMAIN label' = {}
    BY <1>1, <1>2 DEF Start
  <2> QED BY <1>1, <2>1, <2>2 DEF DenseInv, AttrAddrEnd
<1>7. SpillInv'
  <2>1. spill = FALSE
    <3>1. regions = <<>>
      BY <1>1 DEF DataInv, PassInv
    <3> QED BY <3>1 DEF DataInv, SpillInv, DataTypes
  <2> QED BY <1>1, <2>1 DEF SpillInv
<1> QED BY <1>4, <1>5, <1>6, <1>7 DEF DataInv

\* A step that gives no address leaves the regions where they are.
LEMMA DenseKept ==
  ASSUME DataInv, UNCHANGED <<regions, cursor, wrapped, label>>,
         pc' \in Placing \union Placed => pc \in Placing \union Placed
  PROVE  DenseInv'
<1>1. \A i : Start(i)' = Start(i)
  BY DEF Start
<1>2. Regular' = Regular
  BY DEF Regular, SetsHex, Extent
<1> QED BY <1>1, <1>2 DEF DataInv, DenseInv, Extent, AttrAddrEnd

\* A launch that fails leaves its data.
LEMMA FailData ==
  ASSUME DataInv, PlacementInv', End("failed"),
         UNCHANGED <<regions, next, placeVars, imageVars, hostVars>>
  PROVE  DataInv'
<1>1. pc' = "idle" /\ result' = "failed"
  BY DEF End
<1>2. DataTypes' /\ SpillInv'
  BY DEF DataInv, DataTypes, SpillInv, imageVars, hostVars
<1>3. PassInv' /\ PrintedInv' /\ HexInv' /\ LeftInv' /\ CopiedInv'
  BY <1>1 DEF PassInv, PrintedInv, HexInv, LeftInv, CopiedInv, Placed
<1>4. DenseInv'
  BY <1>1 DEF DenseInv, Placing, Placed
<1> QED BY <1>2, <1>3, <1>4 DEF DataInv

\* The constructor is done with the last argument.
LEMMA EndArgsData ==
  ASSUME DataInv, PlacementInv', EndArgs
  PROVE  DataInv'
<1>1. /\ pc = "args" /\ pc' = "labels" /\ next > Len(regions)
      /\ UNCHANGED <<result, regions, next, cursor, wrapped, label, bufAddr, image, hex, hostVars>>
  BY DEF EndArgs, placeVars, imageVars
<1>2. Len(label) = Len(regions)
  <2>1. Len(label) = next - 1
    BY <1>1 DEF DataInv, PlacementInv, LabelInv, Placing
  <2> QED BY <1>1, <2>1, RegionTypes DEF DataInv
<1>3. PassInv'
  BY <1>1, <1>2 DEF DataInv, PassInv
<1>4. DenseInv'
  BY <1>1, DenseKept DEF Placing
<1> QED BY <1>1, <1>3, <1>4, WritesNoBytes, NoResultYet DEF DataInv, Placing, imageVars

\* The attributes are as long as the constructor takes them to be.
LEMMA PrintAttributesData ==
  ASSUME DataInv, PlacementInv', PrintAttributes
  PROVE  DataInv'
<1> DEFINE n == 4 * (1 + 3 * 4 + 1 + NumCores)
<1>1. /\ pc = "labels" /\ pc' = "data" /\ next' = 1 /\ image' = Zeros(n)
      /\ UNCHANGED <<result, regions, cursor, wrapped, label, bufAddr, hex, hostVars>>
  BY DEF PrintAttributes, placeVars
<1>2. n \in Nat /\ n = AttrAddrEnd
  BY DataOK DEF AttrAddrEnd
<1> HIDE DEF n
<1>3. image' \in Seq(Cells) /\ Len(image') = AttrAddrEnd
  BY <1>1, <1>2, ZerosType
<1>4. DataTypes' /\ SpillInv'
  BY <1>1, <1>3 DEF DataInv, DataTypes, SpillInv, imageVars, hostVars
<1>5. PassInv' /\ LeftInv' /\ CopiedInv'
  BY <1>1, NoResultYet DEF DataInv, PassInv, LeftInv, CopiedInv, Placed
<1>6. DenseInv'
  BY <1>1, DenseKept DEF Placed
<1>7. HexInv'
  BY <1>1, RegionTypes DEF DataInv, HexInv
<1>8. PrintedInv'
  <2> SUFFICES ASSUME ~wrapped, Regular
               PROVE  /\ Len(image') = Start(1)
                      /\ \A i \in DOMAIN regions : ~(i < 1)
    BY <1>1 DEF PrintedInv, Regular, SetsHex, Extent, Start
  <2>1. Start(1) = AttrAddrEnd
    BY <1>1 DEF DataInv, DenseInv, Placed
  <2>2. \A i \in DOMAIN regions : ~(i < 1)
    BY RegionTypes DEF DataInv
  <2> QED BY <1>3, <2>1, <2>2
<1> QED BY <1>4, <1>5, <1>6, <1>7, <1>8 DEF DataInv

\* The lines of a region follow those of the regions before it.
LEMMA PrintRegionData ==
  ASSUME DataInv, PlacementInv', PrintRegion
  PROVE  DataInv'
<1>0. PICK l \in Lines(regions[next], next) : image' = image \o l
  BY DEF PrintRegion
<1>1. /\ pc = "data" /\ pc' = pc /\ next <= Len(regions) /\ next' = next + 1 /\ image' = image \o l
      /\ hex' = (hex \/ SetsHex(regions[next]))
      /\ UNCHANGED <<result, regions, cursor, wrapped, label, bufAddr, hostVars>>
  BY <1>0 DEF PrintRegion, placeVars
<1>2. /\ next \in DOMAIN regions /\ next \in DOMAIN label /\ regions[next] \in Region /\ next \in Nat
      /\ Len(label) = Len(regions) /\ DOMAIN label = DOMAIN regions
  BY <1>1, RegionTypes DEF DataInv, PassInv, Placed
<1>3. image \in Seq(Cells) /\ l \in Seq(Cells)
  BY <1>0, <1>2, LinesType DEF DataInv, DataTypes
<1>4. /\ image' \in Seq(Cells) /\ Len(image') = Len(image) + Len(l)
      /\ \A k \in 1 .. Len(image) : image'[k] = image[k]
      /\ \A k \in 1 .. Len(l) : image'[Len(image) + k] = l[k]
  <2>1. Len(image) \in Nat /\ Len(l) \in Nat
    BY <1>3
  <2>2. \A k \in 1 .. Len(image) + Len(l) :
          (image \o l)[k] = IF k <= Len(image) THEN image[k] ELSE l[k - Len(image)]
    BY <1>3, ConcatProperties
  <2>3. image \o l \in Seq(Cells) /\ Len(image \o l) = Len(image) + Len(l)
    BY <1>3, ConcatProperties
  <2>4. ASSUME NEW k \in 1 .. Len(l)
        PROVE  (image \o l)[Len(image) + k] = l[k]
    <3>1. /\ Len(image) + k \in 1 .. Len(image) + Len(l) /\ ~(Len(image) + k <= Len(image))
          /\ Len(image) + k - Len(image) = k
      BY <2>1
    <3> QED BY <2>2, <3>1
  <2>5. ASSUME NEW k \in 1 .. Len(image)
        PROVE  (image \o l)[k] = image[k]
    <3>1. k \in 1 .. Len(image) + Len(l) /\ k <= Len(image)
      BY <2>1
    <3> QED BY <2>2, <3>1
  <2> QED BY <1>1, <2>3, <2>4, <2>5
<1>5. DataTypes' /\ SpillInv'
  BY <1>1, <1>4 DEF DataInv, DataTypes, SpillInv, imageVars, hostVars
<1>6. PassInv' /\ LeftInv' /\ CopiedInv'
  BY <1>1, <1>2, NoResultYet DEF DataInv, PassInv, LeftInv, CopiedInv, Placed
<1>7. DenseInv'
  BY <1>1, DenseKept DEF Placed
<1>8. HexInv'
  <2> SUFFICES ASSUME NEW i \in DOMAIN regions, i < next + 1, SetsHex(regions[i])
               PROVE  hex'
    BY <1>1 DEF HexInv, SetsHex
  <2>1. CASE i = next
    BY <1>1, <2>1
  <2>2. CASE i # next
    <3>1. i < next
      BY <1>2, <2>2, RegionTypes DEF DataInv
    <3> QED BY <1>1, <3>1 DEF DataInv, HexInv
  <2> QED BY <2>1, <2>2
<1>9. PrintedInv'
  <2> SUFFICES ASSUME ~wrapped, Regular
               PROVE  /\ Len(image') = Start(next + 1)
                      /\ \A i \in DOMAIN regions : i < next + 1 /\ regions[i].section # "local" =>
                           \A k \in 0 .. regions[i].size - 1 :
                             image'[label[i] + k + 1] = Cell(i, k, "host")
    BY <1>1 DEF PrintedInv, Regular, SetsHex, Extent, Start
  <2> DEFINE x == Extent(regions[next])
             a == label[next]
  <2>1. /\ Len(image) = a /\ Start(next + 1) = a + x
        /\ \A i \in DOMAIN regions : i < next /\ regions[i].section # "local" =>
             \A k \in 0 .. regions[i].size - 1 : image[label[i] + k + 1] = Cell(i, k, "host")
    <3>1. Start(next) = a
      BY <1>1, <1>2 DEF Start
    <3> QED BY <1>1, <1>2, <3>1 DEF DataInv, PrintedInv, DenseInv, Placed
  <2>2. /\ Len(l) = x
        /\ regions[next].section # "local" => \A k \in 1 .. x : l[k] = Cell(next, k - 1, "host")
    <3>1. regions[next].section = "struct" =>
            regions[next].type = "word" \/ (regions[next].type = "half" /\ hex)
      <4>1. ASSUME NEW j \in 1 .. next - 1, SetsHex(regions[j])
            PROVE  hex
        <5>1. j \in DOMAIN regions /\ j < next
          BY <1>1, RegionTypes DEF DataInv
        <5> QED BY <1>1, <4>1, <5>1 DEF DataInv, HexInv
      <4> QED BY <1>2, <4>1 DEF Regular
    <3> QED BY <1>0, <1>2, <3>1, RegularLines DEF Regular
  <2>3. x \in Nat /\ a \in Nat
    BY <1>2, RegionTypes DEF DataInv
  <2>4. ASSUME NEW i \in DOMAIN regions, i < next + 1, regions[i].section # "local",
               NEW k \in 0 .. regions[i].size - 1
        PROVE  image'[label[i] + k + 1] = Cell(i, k, "host")
    <3>1. i \in Nat \ {0} /\ regions[i].size \in Nat /\ regions[i].size <= Extent(regions[i])
            /\ label[i] \in Nat
      BY <1>2, <2>4, RegionTypes DEF DataInv
    <3>2. CASE i = next
      <4>1. k + 1 \in 1 .. x
        BY <2>3, <3>1, <3>2
      <4>2. l[k + 1] = Cell(next, k, "host")
        <5>1. k + 1 - 1 = k
          BY <3>1
        <5> QED BY <2>2, <2>4, <3>2, <4>1, <5>1
      <4>3. image'[a + (k + 1)] = l[k + 1]
        BY <1>4, <2>1, <2>2, <4>1
      <4>4. label[i] + k + 1 = a + (k + 1)
        BY <2>3, <3>1, <3>2
      <4> QED BY <3>2, <4>2, <4>3, <4>4
    <3>3. CASE i < next
      <4>1. label[i] + regions[i].size <= a
        <5>1. label[i] + Used(regions[i]) <= label[next]
          BY <1>2, <3>3 DEF DataInv, PlacementInv, LayoutInv
        <5> QED BY <2>4, <5>1 DEF Used
      <4>2. label[i] + k + 1 \in 1 .. Len(image)
        BY <2>1, <2>3, <3>1, <4>1
      <4>3. image[label[i] + k + 1] = Cell(i, k, "host")
        BY <2>1, <2>4, <3>3
      <4> QED BY <1>4, <4>2, <4>3
    <3> QED BY <1>2, <2>4, <3>1, <3>2, <3>3
  <2>5. Len(image') = Start(next + 1)
    BY <1>4, <2>1, <2>2
  <2> QED BY <2>4, <2>5
<1> QED BY <1>5, <1>6, <1>7, <1>8, <1>9 DEF DataInv

\* The image is complete when the walk ends.
LEMMA EndDataData ==
  ASSUME DataInv, PlacementInv', EndData
  PROVE  DataInv'
<1>1. /\ pc = "data" /\ pc' = "run" /\ next > Len(regions)
      /\ UNCHANGED <<result, regions, next, cursor, wrapped, label, bufAddr, image, hex, hostVars>>
  BY DEF EndData, placeVars, imageVars
<1>2. DataTypes' /\ SpillInv'
  BY <1>1 DEF DataInv, DataTypes, SpillInv, imageVars, hostVars
<1>3. PassInv' /\ LeftInv' /\ CopiedInv'
  BY <1>1, NoResultYet DEF DataInv, PassInv, LeftInv, CopiedInv, Placed
<1>4. DenseInv'
  BY <1>1, DenseKept DEF Placed
<1>5. PrintedInv' /\ HexInv'
  BY <1>1 DEF DataInv, PrintedInv, HexInv, Regular, SetsHex, Extent, Start
<1> QED BY <1>2, <1>3, <1>4, <1>5 DEF DataInv

\* The kernel leaves its bytes in its buffers and nowhere else.
LEMMA SimulateData ==
  ASSUME DataInv, PlacementInv', Simulate
  PROVE  DataInv'
<1> DEFINE Hit(p) == {i \in DOMAIN regions : regions[i].section = "global" /\ Inside(i, p - 1)}
           Byte(p) == IF Hit(p) = {} THEN At(image, p - 1)
                      ELSE Cell(CHOOSE i \in Hit(p) : TRUE,
                                p - 1 - label[CHOOSE i \in Hit(p) : TRUE], "kernel")
<1>1. /\ pc = "run" /\ pc' = "read" /\ next' = 1
      /\ image' = [p \in 1 .. cursor |-> Byte(p)]
      /\ UNCHANGED <<result, regions, cursor, wrapped, label, bufAddr, hex, hostVars>>
  BY DEF Simulate, placeVars
<1>2. Len(label) = Len(regions) /\ DOMAIN label = DOMAIN regions
  BY <1>1, RegionTypes DEF DataInv, PassInv, Placed
<1>3. \A i \in DOMAIN regions : /\ i \in Nat \ {0} /\ label[i] \in Nat /\ regions[i].size \in Nat
                                /\ regions[i].section = "global" => Used(regions[i]) = regions[i].size
  BY <1>2, RegionTypes DEF DataInv, Used
<1>4. ASSUME NEW p \in 1 .. cursor
      PROVE  Byte(p) \in Cells
  <2>0. p - 1 \in Nat /\ p \in Nat
    BY RegionTypes DEF DataInv
  <2>1. CASE Hit(p) = {}
    <3>1. At(image, p - 1) \in Cells
      BY <2>0, AtType DEF DataInv, DataTypes
    <3> QED BY <2>1, <3>1
  <2>2. CASE Hit(p) # {}
    <3>1. PICK i : i = (CHOOSE j \in Hit(p) : TRUE)
      OBVIOUS
    <3>2. i \in Hit(p)
      BY <2>2, <3>1
    <3>3. i \in Nat /\ label[i] \in Nat /\ p - 1 \in label[i] .. label[i] + regions[i].size - 1
      BY <1>3, <3>2 DEF Inside
    <3>4. p - 1 - label[i] \in Nat
      BY <1>3, <2>0, <3>2, <3>3
    <3>5. Byte(p) = Cell(i, p - 1 - label[i], "kernel")
      BY <2>2, <3>1
    <3> QED BY <3>3, <3>4, <3>5, CellType
  <2> QED BY <2>1, <2>2
<1> HIDE DEF Byte
<1>5. image' \in Seq(Cells) /\ Len(image') = cursor /\ \A p \in 1 .. cursor : image'[p] = Byte(p)
  <2>1. image' \in [1 .. cursor -> Cells] /\ cursor \in Nat
    BY <1>1, <1>4, RegionTypes DEF DataInv
  <2> QED BY <1>1, <2>1, CellByCell
<1>6. DataTypes' /\ SpillInv'
  BY <1>1, <1>5 DEF DataInv, DataTypes, SpillInv, imageVars, hostVars
<1>7. PassInv' /\ PrintedInv' /\ HexInv'
  BY <1>1, NoResultYet DEF DataInv, PassInv, PrintedInv, HexInv, Placed
<1>8. DenseInv'
  BY <1>1, DenseKept DEF Placed
<1>9. CopiedInv'
  BY <1>1, <1>3, NoResultYet DEF DataInv, CopiedInv
<1>10. LeftInv'
  <2> SUFFICES ASSUME ~wrapped, NEW i \in DOMAIN regions, regions[i].section = "global",
                      NEW k \in 0 .. regions[i].size - 1
               PROVE  At(image, label[i] + k)' = Cell(i, k, "kernel")
    BY <1>1 DEF LeftInv, At
  <2>1. i \in Nat \ {0} /\ label[i] \in Nat /\ regions[i].size \in Nat /\ cursor \in Nat
    BY <1>3, RegionTypes DEF DataInv
  <2> DEFINE a == label[i] + k
  <2>2. label[i] + regions[i].size <= cursor
    BY <1>2, <1>3 DEF DataInv, PlacementInv, LayoutInv
  <2>3. a \in Nat /\ a < cursor /\ a + 1 \in 1 .. cursor /\ a + 1 - 1 = a /\ a - label[i] = k
    BY <2>1, <2>2
  <2>4. i \in Hit(a + 1)
    BY <2>1, <2>3 DEF Inside
  <2>5. ASSUME NEW j \in Hit(a + 1)
        PROVE  j = i
    <3>1. /\ j \in Nat /\ label[j] \in Nat /\ regions[j].size \in Nat
          /\ a \in label[j] .. label[j] + regions[j].size - 1
      BY <1>3, <2>3 DEF Inside
    <3>2. i < j => label[i] + regions[i].size <= label[j]
      BY <1>2, <1>3 DEF DataInv, PlacementInv, LayoutInv
    <3>3. j < i => label[j] + regions[j].size <= label[i]
      BY <1>2, <1>3 DEF DataInv, PlacementInv, LayoutInv
    <3>4. ~(i < j) /\ ~(j < i)
      BY <2>1, <3>1, <3>2, <3>3
    <3> QED BY <2>1, <3>1, <3>4
  <2>6. Byte(a + 1) = Cell(i, k, "kernel")
    <3>1. (CHOOSE j \in Hit(a + 1) : TRUE) = i
      BY <2>4, <2>5
    <3>2. Hit(a + 1) # {}
      BY <2>4
    <3>3. PICK p : p = a + 1
      OBVIOUS
    <3>4. Hit(p) # {} /\ (CHOOSE j \in Hit(p) : TRUE) = i /\ p - 1 - label[i] = k
      BY <2>3, <3>1, <3>2, <3>3
    <3> HIDE DEF Hit, a
    <3>5. Byte(p) = Cell(i, p - 1 - label[i], "kernel")
      BY <3>4 DEF Byte
    <3> QED BY <3>3, <3>4, <3>5
  <2>7. At(image, label[i] + k)' = image'[a + 1]
    BY <1>1, <1>5, <2>3 DEF At
  <2> QED BY <1>5, <2>3, <2>6, <2>7
<1> QED BY <1>6, <1>7, <1>8, <1>9, <1>10 DEF DataInv

\* A word is read as a whole from where it starts.
LEMMA WholeWord ==
  ASSUME NEW a \in Nat, a % 4 = 0, NEW k
  PROVE  WordAt(a, k) = At(image, a + k)
<1>1. 4 * (a \div 4) = a
  OBVIOUS
<1> QED BY <1>1 DEF WordAt

\* A buffer of chars or of whole words is read from where the code has it.
LEMMA ReadArgData ==
  ASSUME DataInv, PlacementInv', ReadArg
  PROVE  DataInv'
<1> DEFINE r == regions[next]
           got == Read(r.type, bufAddr[r.buffer], r.size)
           old == host[next]
           new == [k \in DOMAIN old |-> IF k \in DOMAIN got THEN got[k] ELSE old[k]]
<1>1. /\ pc = "read" /\ pc' = pc /\ next' = next + 1 /\ next <= Len(regions) /\ r.section = "global"
      /\ host' = [host EXCEPT ![next] = new]
      /\ spill' = (spill \/ ~(DOMAIN got \subseteq DOMAIN old))
      /\ UNCHANGED <<result, regions, cursor, wrapped, label, bufAddr, image, hex>>
  BY DEF ReadArg, Here, placeVars, imageVars
<1>2. /\ next \in Nat \ {0} /\ next \in DOMAIN regions /\ r \in Region /\ r.size \in Nat
      /\ bufAddr[r.buffer] = label[next] /\ label[next] \in Nat
  <2>1. next \in Nat \ {0} /\ next \in DOMAIN regions /\ next \in DOMAIN label
    BY <1>1, RegionTypes DEF DataInv, PassInv, Placed
  <2>2. bufAddr[r.buffer] = label[next]
    BY <1>1, <2>1 DEF DataInv, PlacementInv, CheckedInv, LabelsAgree
  <2> QED BY <2>1, <2>2, RegionTypes DEF DataInv
<1>3. /\ next \in DOMAIN host /\ DOMAIN host = DOMAIN regions /\ old \in [0 .. r.size - 1 -> Cells]
      /\ DOMAIN old = 0 .. r.size - 1
  BY <1>2 DEF DataInv, DataTypes
<1>4. new \in [0 .. r.size - 1 -> Cells]
  <2>1. ASSUME NEW k \in 0 .. r.size - 1, k \in DOMAIN got
        PROVE  got[k] \in Cells
    <3>1. k \in Nat /\ image \in Seq(Cells)
      BY <1>2 DEF DataInv, DataTypes
    <3> QED BY <1>2, <2>1, <3>1, ReadType
  <2> HIDE DEF got, old
  <2> QED BY <1>3, <2>1
<1>5. /\ host'[next] = new /\ DOMAIN host' = DOMAIN host
      /\ \A i \in DOMAIN host : i # next => host'[i] = host[i]
  BY <1>1, <1>3
<1>6. DataTypes'
  <2>1. \A i \in DOMAIN host' : host'[i] \in [0 .. regions[i].size - 1 -> Cells]
    <3> HIDE DEF new, old, got
    <3>1. \A i \in DOMAIN host : host[i] \in [0 .. regions[i].size - 1 -> Cells]
      BY DEF DataInv, DataTypes
    <3> QED BY <1>4, <1>5, <3>1
  <2>2. spill' \in BOOLEAN
    BY <1>1
  <2> QED BY <1>1, <1>3, <1>5, <2>1, <2>2 DEF DataInv, DataTypes
<1>7. SpillInv'
  <2>1. CASE r.type \in {"half", "mixed"}
    BY <1>1, <1>2, <2>1 DEF SpillInv
  <2>2. CASE r.type \notin {"half", "mixed"}
    <3>1. DOMAIN got \subseteq 0 .. r.size - 1
      <4>1. CASE r.type = "byte"
        BY <4>1 DEF Read
      <4>2. CASE r.type = "word"
        <5>1. DOMAIN got = 0 .. 4 * (r.size \div 4) - 1
          BY <4>2 DEF Read
        <5>2. 4 * (r.size \div 4) <= r.size /\ 4 * (r.size \div 4) \in Nat
          BY <1>2
        <5> HIDE DEF got
        <5> QED BY <1>2, <5>1, <5>2
      <4>3. CASE r.type \notin {"byte", "word"}
        <5>1. got = <<>>
          BY <2>2, <4>3 DEF Read
        <5> QED BY <5>1
      <4> QED BY <4>1, <4>2, <4>3
    <3>2. spill' = spill
      <4>1. DOMAIN got \subseteq DOMAIN old
        BY <1>3, <3>1
      <4>2. spill \in BOOLEAN
        BY DEF DataInv, DataTypes
      <4> HIDE DEF got, old
      <4> QED BY <1>1, <4>1, <4>2
    <3> QED BY <1>1, <3>2 DEF DataInv, SpillInv
  <2> QED BY <2>1, <2>2
<1>8. PassInv' /\ PrintedInv' /\ HexInv' /\ LeftInv'
  BY <1>1, NoResultYet DEF DataInv, PassInv, PrintedInv, HexInv, LeftInv, Placed, At
<1>9. DenseInv'
  BY <1>1, DenseKept DEF Placed
<1>10. CopiedInv'
  <2> SUFFICES ASSUME ~wrapped, NEW i \in DOMAIN regions, i < next + 1, Readable(i),
                      NEW k \in 0 .. regions[i].size - 1
               PROVE  host'[i][k] = Cell(i, k, "kernel")
    BY <1>1 DEF CopiedInv, Readable
  <2>1. CASE i = next
    <3>1. label[next] % 4 = 0
      BY <2>1 DEF Readable
    <3>2. k \in 0 .. r.size - 1 /\ k \in Nat
      BY <1>2, <2>1
    <3>3. k \in DOMAIN got /\ got[k] = WordAt(label[next], k)
      <4>1. CASE r.type = "byte"
        BY <1>2, <3>2, <4>1 DEF Read
      <4>2. CASE r.type = "word" /\ r.size % 4 = 0
        <5>1. 4 * (r.size \div 4) = r.size
          BY <1>2, <4>2
        <5>2. got = [x \in 0 .. 4 * (r.size \div 4) - 1 |-> WordAt(label[next], x)]
          BY <1>2, <4>2 DEF Read
        <5> HIDE DEF got
        <5> QED BY <3>2, <5>1, <5>2
      <4> QED BY <2>1, <4>1, <4>2 DEF Readable
    <3>4. WordAt(label[next], k) = Cell(i, k, "kernel")
      BY <1>1, <1>2, <2>1, <3>1, WholeWord DEF DataInv, LeftInv
    <3>5. new[k] = got[k]
      BY <1>3, <3>2, <3>3
    <3> HIDE DEF new, got
    <3> QED BY <1>5, <2>1, <3>3, <3>4, <3>5
  <2>2. CASE i # next
    <3>1. i < next
      BY <1>2, <2>2, RegionTypes DEF DataInv
    <3>2. host[i][k] = Cell(i, k, "kernel")
      BY <1>1, <3>1 DEF DataInv, CopiedInv
    <3> HIDE DEF new
    <3> QED BY <1>3, <1>5, <2>2, <3>2
  <2> QED BY <2>1, <2>2
<1> QED BY <1>6, <1>7, <1>8, <1>9, <1>10 DEF DataInv

\* Other regions are not copied.
LEMMA SkipRegionData ==
  ASSUME DataInv, PlacementInv', SkipRegion
  PROVE  DataInv'
<1>1. /\ pc = "read" /\ pc' = pc /\ next' = next + 1 /\ next <= Len(regions)
      /\ regions[next].section # "global"
      /\ UNCHANGED <<result, regions, cursor, wrapped, label, bufAddr, image, hex, hostVars>>
  BY DEF SkipRegion, Here, placeVars, imageVars
<1>2. DataTypes' /\ SpillInv'
  BY <1>1 DEF DataInv, DataTypes, SpillInv, imageVars, hostVars
<1>3. PassInv' /\ PrintedInv' /\ HexInv' /\ LeftInv'
  BY <1>1, NoResultYet DEF DataInv, PassInv, PrintedInv, HexInv, LeftInv, Placed, At
<1>4. DenseInv'
  BY <1>1, DenseKept DEF Placed
<1>5. CopiedInv'
  <2> SUFFICES ASSUME ~wrapped, NEW i \in DOMAIN regions, i < next + 1, Readable(i),
                      NEW k \in 0 .. regions[i].size - 1
               PROVE  host[i][k] = Cell(i, k, "kernel")
    BY <1>1 DEF CopiedInv, Readable, hostVars
  <2>1. i # next
    BY <1>1 DEF Readable
  <2>2. i < next
    BY <2>1, RegionTypes DEF DataInv
  <2> QED BY <1>1, <2>2 DEF DataInv, CopiedInv
<1> QED BY <1>2, <1>3, <1>4, <1>5 DEF DataInv

\* The launch is done when the last buffer was copied.
LEMMA EndReadData ==
  ASSUME DataInv, PlacementInv', EndRead
  PROVE  DataInv'
<1>1. /\ pc = "read" /\ pc' = "idle" /\ result' = "ok" /\ next > Len(regions)
      /\ UNCHANGED <<regions, next, cursor, wrapped, label, bufAddr, image, hex, hostVars>>
  BY DEF EndRead, End, placeVars, imageVars
<1>2. DataTypes' /\ SpillInv'
  BY <1>1 DEF DataInv, DataTypes, SpillInv, imageVars, hostVars
<1>3. PassInv' /\ PrintedInv' /\ HexInv' /\ LeftInv'
  BY <1>1 DEF DataInv, PassInv, PrintedInv, HexInv, LeftInv, Placed
<1>4. DenseInv'
  BY <1>1 DEF DenseInv, Placing, Placed
<1>5. CopiedInv'
  BY <1>1 DEF DataInv, CopiedInv, Readable, hostVars
<1> QED BY <1>2, <1>3, <1>4, <1>5 DEF DataInv

\* Every step of a launch keeps the invariant.
LEMMA DataNext == DataInv /\ [Next]_vars => DataInv'
<1> SUFFICES ASSUME DataInv, [Next]_vars
             PROVE  DataInv'
  OBVIOUS
<1>p. PlacementInv'
  BY PlacementNext DEF DataInv
<1>1. CASE Launch
  BY <1>p, <1>1, LaunchData
<1>2. CASE PlaceVar
  <2>1. /\ pc \in Placing /\ pc' = pc /\ next <= Len(regions) /\ PlaceAt(cursor)
        /\ UNCHANGED <<result, regions, imageVars, hostVars>>
    BY <1>2 DEF PlaceVar, Here, Placing
  <2> QED BY <1>p, <2>1, PlaceAtDense
<1>3. CASE PlaceStruct
  <2>1. /\ pc \in Placing /\ pc' = pc /\ next <= Len(regions) /\ PlaceAt(cursor)
        /\ UNCHANGED <<result, regions, imageVars, hostVars>>
    BY <1>3 DEF PlaceStruct, Here, Placing
  <2> QED BY <1>p, <2>1, PlaceAtDense
<1>4. CASE EndVars \/ EndStructs
  BY <1>p, <1>4, EndSectionDense DEF EndVars, EndStructs
<1>5. CASE PlaceArg
  <2>1. PICK w \in {1, 2, 4} : w = Width(regions[next].type)
    BY WidthType
  <2>2. /\ pc \in Placing /\ pc' = pc /\ next <= Len(regions) /\ PlaceAt(RoundUp(cursor, w))
        /\ UNCHANGED <<result, regions, imageVars, hostVars>>
    BY <1>5, <2>1 DEF PlaceArg, Placing
  <2> QED BY <1>p, <2>2, PlaceAtDense
<1>6. CASE EndArgs
  BY <1>p, <1>6, EndArgsData
<1>7. CASE TooLarge \/ Mismatch \/ Unhandled \/ RunFails
  BY <1>p, <1>7, FailData DEF TooLarge, Mismatch, Unhandled, RunFails
<1>8. CASE PrintAttributes
  BY <1>p, <1>8, PrintAttributesData
<1>9. CASE PrintRegion
  BY <1>p, <1>9, PrintRegionData
<1>10. CASE EndData
  BY <1>p, <1>10, EndDataData
<1>11. CASE Simulate
  BY <1>p, <1>11, SimulateData
<1>12. CASE ReadArg
  BY <1>p, <1>12, ReadArgData
<1>13. CASE SkipRegion
  BY <1>p, <1>13, SkipRegionData
<1>14. CASE EndRead
  BY <1>p, <1>14, EndReadData
<1>15. CASE UNCHANGED vars
  <2>1. DataTypes' /\ PassInv' /\ SpillInv'
    BY <1>15 DEF vars, placeVars, imageVars, hostVars, DataInv, DataTypes, PassInv, SpillInv
  <2>2. PrintedInv' /\ HexInv' /\ LeftInv' /\ CopiedInv'
    BY <1>15 DEF vars, placeVars, imageVars, hostVars, DataInv, PrintedInv, HexInv, LeftInv, CopiedInv, Start, Regular,
       Extent, At, Readable
  <2>3. DenseInv'
    BY <1>15, DenseKept DEF vars, placeVars
  <2> QED BY <1>p, <2>1, <2>2, <2>3 DEF DataInv
<1> QED BY <1>1, <1>2, <1>3, <1>4, <1>5, <1>6, <1>7, <1>8, <1>9, <1>10, <1>11, <1>12, <1>13,
        <1>14, <1>15 DEF Next

\* The passes agree on where each byte is: the inductive invariant.
THEOREM Bytes == Spec => []DataInv
<1>1. Init => DataInv
  BY DataInit
<1>2. DataInv /\ [Next]_vars => DataInv'
  BY DataNext
<1> QED BY <1>1, <1>2, PTL DEF Spec

\* Every variable has a value of its type, whatever the kernel's data.
THEOREM TypeCorrect == Spec => []TypeOK
<1>1. DataInv => TypeOK
  <2> SUFFICES ASSUME PlaceTypes, DataTypes
               PROVE  TypeOK
    BY DEF DataInv, PlacementInv
  <2>1. pc \in {"idle", "vars", "structs", "args", "labels", "data", "run", "read"}
    BY DEF PlaceTypes, Placing, Placed
  <2> QED BY <2>1, Zenon DEF PlaceTypes, DataTypes, TypeOK
<1> QED BY <1>1, Bytes, PTL

\* When the lines of every region have its size, every byte that the host gave
\* is at the address that the code is linked with, for any number of cores and
\* any number of regions of any such sizes.
THEOREM Image_Matches == Spec => []ImageMatches
<1>1. DataInv => ImageMatches
  <2> SUFFICES ASSUME DataInv, pc = "run", ~wrapped, Regular,
                      NEW i \in DOMAIN regions, regions[i].section # "local",
                      NEW k \in 0 .. regions[i].size - 1
               PROVE  At(image, label[i] + k) = Cell(i, k, "host")
    BY DEF ImageMatches
  <2>1. /\ Len(label) = Len(regions) /\ next > Len(regions)
        /\ Len(image) = Start(next)
    BY DEF DataInv, PassInv, PrintedInv, Placed
  <2>2. /\ i \in DOMAIN label /\ i < next /\ next \in Nat /\ cursor \in Nat
        /\ label[i] \in Nat /\ regions[i].size \in Nat
    BY <2>1, RegionTypes DEF DataInv
  <2>3. Len(image) = cursor
    BY <2>1, RegionTypes DEF DataInv, Start
  <2>4. label[i] + regions[i].size <= cursor
    <3>1. label[i] + Used(regions[i]) <= cursor
      BY <2>2 DEF DataInv, PlacementInv, LayoutInv
    <3> QED BY <3>1 DEF Used
  <2>5. label[i] + k < Len(image)
    BY <2>2, <2>3, <2>4
  <2>6. image[label[i] + k + 1] = Cell(i, k, "host")
    BY <2>2 DEF DataInv, PrintedInv
  <2> QED BY <2>5, <2>6 DEF At
<1> QED BY <1>1, Bytes, PTL

\* A launch that succeeds gives the host exactly the bytes that the kernel left
\* in every buffer of chars or of whole words that starts at a word, and writes
\* outside of a buffer only when a half or a mixed struct was converted.
THEOREM CopyBack_Exact == Spec => []CopyBackExact
<1>1. DataInv => CopyBackExact
  <2> SUFFICES ASSUME DataInv, result = "ok", ~wrapped
               PROVE  CopyBackExact
    BY DEF CopyBackExact
  <2>1. \A i \in DOMAIN regions : i < next
    BY RegionTypes DEF DataInv, PassInv
  <2> QED BY <2>1 DEF DataInv, CopiedInv, SpillInv, CopyBackExact
<1> QED BY <1>1, Bytes, PTL
=============================================================================
