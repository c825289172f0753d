------------------------------ MODULE DataArea ------------------------------
(***************************************************************************)
(* The data memory of a launch.  Three passes walk the kernel's data: the  *)
(* constructor of LE1DataPrinter gives every variable and argument the     *)
(* address that the code is linked with, AppendDataArea prints their bytes *)
(* as lines of words, which the assembler (secondpass.pl) puts one after   *)
(* the other whatever address is printed before them, and after the        *)
(* simulation LE1KernelEvent::run copies the buffers back to the host.     *)
(* The passes share nothing but the LE1Buffers: they work only when they   *)
(* agree on where each byte is.                                            *)
(***************************************************************************)
EXTENDS Integers, Sequences

CONSTANTS
  NumCores,      \* numLE1s()
  Buffers,       \* the LE1Buffers of the context
  NoBuffer,
  Modulus,       \* values of an unsigned
  MaxGlobalAddr,
  Kernels        \* the data of the kernels that may be launched

Sections == {"var", "struct", "global", "local"}

\* Types of elements, or of all the fields of a constant struct.  "mixed" is a
\* struct of a char and an int, "wide" any type the driver has no case for.
Types == {"byte", "half", "word", "mixed", "wide"}

\* A variable of the program, or an argument of the kernel that is a buffer
\* or local memory.  size: the bytes of the elements, of the buffer, or those
\* asked for each core.  negative: the first element is.
Region == [section: Sections, type: Types, size: Nat,
           buffer: Buffers \union {NoBuffer}, negative: BOOLEAN]

\* A variable is in getWords, getHalves or getBytes.  The back end aligns structs
\* to words; those whose fields leave room at the end are not considered.
Embedded(r) ==
  /\ r.section = "var" => r.type \in {"byte", "half", "word"}
  /\ r.section = "struct" => r.size % 4 = 0

\* getWords, getHalves, getBytes, getStructs, then the arguments.
Sorted(k) == \A i, j \in DOMAIN k : i < j =>
               /\ k[j].section = "var" => k[i].section = "var"
               /\ k[j].section = "struct" => k[i].section \in {"var", "struct"}

ASSUME DataOK ==
  /\ NumCores \in Nat \ {0} /\ Modulus \in Nat \ {0} /\ MaxGlobalAddr \in Nat
  /\ NoBuffer \notin Buffers
  /\ Kernels \subseteq Seq(Region)
  /\ \A k \in Kernels :
       /\ Sorted(k)
       /\ \A i \in DOMAIN k : /\ Embedded(k[i])
                              /\ (k[i].section = "global") = (k[i].buffer \in Buffers)

VARIABLES
  pc,         \* "idle", or the pass that is under way
  result,     \* what the last launch returned
  regions,    \* the kernel's data
  next,       \* the region the pass is at
  cursor,     \* CurrentAddr, then DataSize
  wrapped,    \* history: an address went past the unsigned
  label,      \* varAddr and ArgAddrs: the addresses the code is linked with
  bufAddr,    \* LE1Buffer::start_addr
  image,      \* the assembled data memory, a cell for each byte
  hex,        \* the static HexString of PrintSingleElement is in hexadecimal
  host,       \* the cells that each buffer got back
  spill       \* history: bytes were written outside a host buffer

placeVars == <<cursor, wrapped, label, bufAddr>>
imageVars == <<image, hex>>
hostVars == <<host, spill>>
vars == <<pc, result, regions, next, placeVars, imageVars, hostVars>>

\* A byte of a region, as the host gave it or as the kernel left it.
Cell(r, k, by) == [region |-> r, offset |-> k, by |-> by]
Pad == Cell(0, 0, "host")
Cells == [region: Nat, offset: Nat, by: {"host", "kernel"}]
Zeros(n) == [k \in 1 .. n |-> Pad]

Width(t) == CASE t = "byte" -> 1 [] t = "half" -> 2 [] OTHER -> 4
RoundUp(a, w) == w * ((a + w - 1) \div w)

AttrAddrEnd == 56 + 4 * NumCores

\* Mutant: local memory for one core.
ExtentOfOneCore(r) == IF r.section = "var" THEN r.size + (r.size % 4) ELSE r.size

\* Bytes a region is given; getSize adds the remainder to itself.
Extent(r) == CASE r.section = "var" -> r.size + (r.size % 4)
               [] r.section = "local" -> r.size * NumCores
               [] OTHER -> r.size

Unwritten(r) == [k \in 0 .. r.size - 1 |-> Pad]

Init ==
  /\ pc = "idle" /\ result = "none" /\ regions = <<>> /\ next = 1
  /\ cursor = 0 /\ wrapped = FALSE /\ label = <<>>
  /\ bufAddr = [b \in Buffers |-> 0]
  /\ image = <<>> /\ hex \in BOOLEAN
  /\ host = <<>> /\ spill = FALSE

Here(s) == next <= Len(regions) /\ regions[next].section \in s

End(r) == pc' = "idle" /\ result' = r

-----------------------------------------------------------------------------
(* The constructor: addresses.                                             *)

\* The model follows one launch: the next one starts with the same passes and
\* gives every address again.
Launch ==
  /\ pc = "idle" /\ result = "none" /\ pc' = "vars"
  /\ regions' \in Kernels
  /\ cursor' = AttrAddrEnd /\ wrapped' = (AttrAddrEnd >= Modulus)
  /\ host' = [i \in DOMAIN regions' |-> Unwritten(regions'[i])]
  /\ UNCHANGED <<result, next, label, bufAddr, imageVars, spill>>

PlaceAt(a) ==
  LET end == a + Extent(regions[next])
  IN  /\ label' = Append(label, a)
      /\ cursor' = end % Modulus
      /\ wrapped' = (wrapped \/ end >= Modulus)
      /\ next' = next + 1

PlaceVar ==
  /\ pc = "vars" /\ Here({"var"})
  /\ PlaceAt(cursor)
  /\ UNCHANGED <<pc, result, regions, bufAddr, imageVars, hostVars>>

PlaceStruct ==
  /\ pc = "structs" /\ Here({"struct"})
  /\ PlaceAt(cursor)
  /\ UNCHANGED <<pc, result, regions, bufAddr, imageVars, hostVars>>

\* The address is a whole word before the structs and before the arguments.
EndSection(from, s, to) ==
  /\ pc = from /\ ~Here(s) /\ pc' = to
  /\ cursor' = RoundUp(cursor, 4)
  /\ wrapped' = (wrapped \/ RoundUp(cursor, 4) >= Modulus)
  /\ UNCHANGED <<result, regions, next, label, bufAddr, imageVars, hostVars>>

EndVars    == EndSection("vars", {"var"}, "structs")
EndStructs == EndSection("structs", {"struct"}, "args")

\* An argument is aligned to its elements; a buffer keeps its address too.
PlaceArg ==
  /\ pc = "args" /\ next <= Len(regions)
  /\ LET r == regions[next]
         a == RoundUp(cursor, Width(r.type))
     IN  /\ PlaceAt(a)
         /\ bufAddr' = IF r.section = "global" THEN [bufAddr EXCEPT ![r.buffer] = a]
                       ELSE bufAddr
  /\ UNCHANGED <<pc, result, regions, imageVars, hostVars>>

EndArgs ==
  /\ pc = "args" /\ next > Len(regions) /\ pc' = "labels"
  /\ UNCHANGED <<result, regions, next, placeVars, imageVars, hostVars>>

-----------------------------------------------------------------------------
(* AppendDataArea: labels and lines.                                       *)

\* A buffer that is bound to two arguments has one address.
LabelsAgree == \A i \in DOMAIN regions :
  regions[i].section = "global" => bufAddr[regions[i].buffer] = label[i]

TooLarge ==
  /\ pc = "labels" /\ cursor >= MaxGlobalAddr
  /\ End("failed")
  /\ UNCHANGED <<regions, next, placeVars, imageVars, hostVars>>

Mismatch ==
  /\ pc = "labels" /\ cursor < MaxGlobalAddr /\ ~LabelsAgree
  /\ End("failed")
  /\ UNCHANGED <<regions, next, placeVars, imageVars, hostVars>>

\* Mutant: the addresses are not compared.
PrintAttributesUnchecked ==
  /\ pc = "labels" /\ cursor < MaxGlobalAddr
  /\ pc' = "data" /\ next' = 1
  /\ image' = Zeros(4 * (1 + 3 * 4 + 1 + NumCores))
  /\ UNCHANGED <<result, regions, placeVars, hex, hostVars>>

\* Mutant: num_cores is not printed.
PrintAttributesShort ==
  /\ pc = "labels" /\ cursor < MaxGlobalAddr /\ LabelsAgree
  /\ pc' = "data" /\ next' = 1
  /\ image' = Zeros(4 * (1 + 3 * 4 + NumCores))
  /\ UNCHANGED <<result, regions, placeVars, hex, hostVars>>

\* work_dim, the sizes, num_groups, global_offset, num_cores and a word for
\* each core.
PrintAttributes ==
  /\ pc = "labels" /\ cursor < MaxGlobalAddr /\ LabelsAgree
  /\ pc' = "data" /\ next' = 1
  /\ image' = Zeros(4 * (1 + 3 * 4 + 1 + NumCores))
  /\ UNCHANGED <<result, regions, placeVars, hex, hostVars>>

\* PrintData of n bytes.  The hexadecimal of a negative char, which is
\* printed as an int, has four bytes; so has that of a negative half in the
\* last line.  The last line of chars starts again at the first one, that of
\* halves has the first one twice, and words have none.
SignOf(r, n) == IF r.negative THEN Zeros(n) ELSE <<>>

\* Mutant: a line starts one element early.
FullLinesEarly(r, i, n) == [k \in 1 .. 4 * (n \div 4) |-> Cell(i, k - 2, "host")]

FullLines(r, i, n) ==
  (IF r.type = "byte" /\ n >= 4 THEN SignOf(r, 3) ELSE <<>>)
    \o [k \in 1 .. 4 * (n \div 4) |-> Cell(i, k - 1, "host")]

LastLine(r, i, n) ==
  LET rest  == n % 4
      first == [k \in 1 .. (IF r.type = "half" THEN 2 ELSE rest) |-> Cell(i, k - 1, "host")]
  IN  CASE rest = 0 \/ r.type = "word" -> <<>>
        [] r.type = "half" /\ rest = 1 -> Zeros(4)
        [] r.type = "half" /\ rest > 1 -> SignOf(r, 2) \o first \o SignOf(r, 2) \o first
        [] OTHER -> SignOf(r, 3) \o first \o Zeros(4 - rest)

PrintData(r, i, n) == FullLines(r, i, n) \o LastLine(r, i, n)

\* The data that is printed field by field: a struct.
IsStruct(r) == r.section = "struct" \/ (r.section = "global" /\ r.type = "mixed")

\* PrintSingleElement of every field.  A char is printed as a character, not as a
\* number.  Numbers are in decimal, which the assembler takes for hexadecimal,
\* until a word that follows no char has switched the static stream, in this
\* launch or an earlier one.  The int of a mixed struct has a line of its own.
\* Pad stands for any wrong byte.  A character may end the line, and decimals be
\* longer than it, which makes bytes too many: one at the end stands for them.
PrintElements(r, i) ==
  LET n == IF r.type = "mixed" THEN RoundUp(r.size, 8) ELSE r.size
      legible(k) == \/ r.type = "word"
                    \/ hex /\ (r.type = "half" \/ (r.type = "mixed" /\ (k - 1) % 8 >= 4))
      lines == [k \in 1 .. n |-> IF legible(k) THEN Cell(i, k - 1, "host") ELSE Pad]
  IN  IF \A k \in 1 .. n : legible(k) THEN {lines} ELSE {lines, Append(lines, Pad)}

\* A field of no known width is left out, or fails (Unhandled).
Lines(r, i) ==
  CASE r.section = "local" -> {Zeros(RoundUp(Extent(r), 4))}
    [] IsStruct(r) /\ r.type = "wide" -> {<<>>}
    [] IsStruct(r) /\ r.type # "wide" -> PrintElements(r, i)
    [] OTHER -> {PrintData(r, i, Extent(r))}

\* A struct with a word that follows no char.
SetsHex(r) == r.section = "struct" /\ r.type = "word" /\ r.size > 0

\* HandleBufferArg or WriteField has no case for the type.
Unhandled ==
  /\ pc = "data" /\ Here({"struct", "global"}) /\ regions[next].type = "wide"
  /\ End("failed")
  /\ UNCHANGED <<regions, next, placeVars, imageVars, hostVars>>

PrintRegion ==
  /\ pc = "data" /\ next <= Len(regions)
  /\ ~(Here({"global"}) /\ regions[next].type = "wide")
  /\ \E l \in Lines(regions[next], next) : image' = image \o l
  /\ hex' = (hex \/ SetsHex(regions[next]))
  /\ next' = next + 1
  /\ UNCHANGED <<pc, result, regions, placeVars, hostVars>>

EndData ==
  /\ pc = "data" /\ next > Len(regions) /\ pc' = "run"
  /\ UNCHANGED <<result, regions, next, placeVars, imageVars, hostVars>>

-----------------------------------------------------------------------------
(* The simulation and the copy back.                                       *)

\* The assembler or the simulator fails.
RunFails ==
  /\ pc = "run" /\ End("failed")
  /\ UNCHANGED <<regions, next, placeVars, imageVars, hostVars>>

\* Byte of the memory at an address; past the image the memory is zero.
At(m, a) == IF a < Len(m) THEN m[a + 1] ELSE Pad

Inside(i, a) == a \in label[i] .. label[i] + regions[i].size - 1

\* The kernel writes every byte of its buffers, through the labels.
Simulate ==
  /\ pc = "run" /\ pc' = "read" /\ next' = 1
  /\ image' = [a1 \in 1 .. cursor |->
       LET hit == {i \in DOMAIN regions : regions[i].section = "global" /\ Inside(i, a1 - 1)}
       IN  IF hit = {} THEN At(image, a1 - 1)
           ELSE LET i == CHOOSE i \in hit : TRUE
                IN  Cell(i, a1 - 1 - label[i], "kernel")]
  /\ UNCHANGED <<result, regions, placeVars, hex, hostVars>>

\* insizzleAPIRdOneDramLocation reads the word that holds the address.
WordAt(a, k) == At(image, 4 * (a \div 4) + k)

\* Mutant: the remainder of the chars is dropped.
ReadWhole(t, a, size) ==
  IF t = "mixed" THEN [k \in {a} |-> WordAt(a, 0)]
  ELSE [k \in 0 .. 4 * (size \div 4) - 1 |-> WordAt(a, k)]

\* The bytes that are written to the host, by their offset in the buffer:
\* readByteData, readWordData (whole words only), readHalfData, which uses the
\* device address as an index of halves, and the loop over the elements of a
\* struct, which adds it to the pointer (its first element is enough).
Read(t, a, size) ==
  CASE t = "byte" -> [k \in 0 .. size - 1 |-> WordAt(a, k)]
    [] t = "word" -> [k \in 0 .. 4 * (size \div 4) - 1 |-> WordAt(a, k)]
    [] t = "half" /\ size < 4 -> [k \in 0 .. 1 |-> WordAt(a, k)]
    [] t = "half" /\ size >= 4 ->
         [k \in IF size % 4 = 0 THEN 2 * a .. 2 * (a + size) - 1 ELSE {} |-> Pad]
    [] t = "mixed" -> [k \in {a} |-> WordAt(a, 0)]
    [] OTHER -> <<>>

ReadArg ==
  /\ pc = "read" /\ Here({"global"})
  /\ LET r == regions[next]
         got == Read(r.type, bufAddr[r.buffer], r.size)
         old == host[next]
     IN  /\ host' = [host EXCEPT ![next] =
                       [k \in DOMAIN old |-> IF k \in DOMAIN got THEN got[k] ELSE old[k]]]
         /\ spill' = (spill \/ ~(DOMAIN got \subseteq DOMAIN old))
  /\ next' = next + 1
  /\ UNCHANGED <<pc, result, regions, placeVars, imageVars>>

SkipRegion ==
  /\ pc = "read" /\ next <= Len(regions) /\ ~Here({"global"})
  /\ next' = next + 1
  /\ UNCHANGED <<pc, result, regions, placeVars, imageVars, hostVars>>

EndRead ==
  /\ pc = "read" /\ next > Len(regions)
  /\ End("ok")
  /\ UNCHANGED <<regions, next, placeVars, imageVars, hostVars>>

\* Mutant: ints are counted as bytes.
LocalOfBytes(i, c) == label[i] + c * (regions[i].size \div 4)

\* The memory of a core in a local argument: CreateLauncher adds whole ints.
LocalOf(i, c) == label[i] + 4 * (c * (regions[i].size \div 4))

-----------------------------------------------------------------------------
Next ==
  \/ Launch \/ PlaceVar \/ EndVars \/ PlaceStruct \/ EndStructs \/ PlaceArg \/ EndArgs
  \/ TooLarge \/ Mismatch \/ PrintAttributes \/ Unhandled \/ PrintRegion \/ EndData
  \/ RunFails \/ Simulate \/ ReadArg \/ SkipRegion \/ EndRead

Spec == Init /\ [][Next]_vars

-----------------------------------------------------------------------------
(* Properties.                                                             *)

\* Every variable has a value of its type.
TypeOK ==
  /\ pc \in {"idle", "vars", "structs", "args", "labels", "data", "run", "read"}
  /\ result \in {"none", "ok", "failed"}
  /\ regions \in Kernels \union {<<>>}
  /\ next \in Nat \ {0}
  /\ cursor \in Nat /\ wrapped \in BOOLEAN
  /\ label \in Seq(Nat)
  /\ bufAddr \in [Buffers -> Nat]
  /\ image \in Seq(Cells) /\ hex \in BOOLEAN
  /\ DOMAIN host = DOMAIN regions
  /\ \A i \in DOMAIN host : host[i] \in [0 .. regions[i].size - 1 -> Cells]
  /\ spill \in BOOLEAN

\* Bytes that the kernel's code uses of a region.
Used(r) == IF r.section = "local" THEN NumCores * r.size ELSE r.size

\* The constructor of LE1DataPrinter gives the regions disjoint parts of the
\* memory, each with room for all that the code uses of it, above the attributes
\* and, once AppendDataArea accepts the size, below the end of the device,
\* provided that no address went past an unsigned.
RegionsDisjoint == ~wrapped =>
  /\ \A i \in DOMAIN label : label[i] >= AttrAddrEnd /\ label[i] + Used(regions[i]) <= cursor
  /\ \A i, j \in DOMAIN label : i < j => label[i] + Used(regions[i]) <= label[j]
  /\ pc \in {"data", "run", "read"} => cursor < MaxGlobalAddr

\* The launcher (CreateLauncher) hands each core a part of a local argument
\* that no other core uses and that lies in the argument's region, when the
\* size is a number of ints ("FIXME what if the size isn't divisible by
\* four?").
CoresApart ==
  \A i \in DOMAIN label : regions[i].section = "local" /\ regions[i].size % 4 = 0 =>
    \A c \in 0 .. NumCores - 1 :
      /\ LocalOf(i, c) + regions[i].size <= label[i] + Used(regions[i])
      /\ \A d \in 0 .. c - 1 : LocalOf(i, d) + regions[i].size <= LocalOf(i, c)

\* A kernel only runs when the address that the copy back will use for each
\* buffer is the one that the code is linked with: one memory object bound to
\* two arguments never gets as far (the sanity check of AppendDataArea).
CopyBackAgrees == pc \in {"run", "read"} =>
  \A i \in DOMAIN regions :
    regions[i].section = "global" => bufAddr[regions[i].buffer] = label[i]

\* Regions whose lines are the bytes of the region.  A struct of halves needs one
\* of words printed before it.
Regular == \A i \in DOMAIN regions :
  /\ regions[i].type \in {"byte", "half", "word"}
  /\ Extent(regions[i]) % 4 = 0
  /\ ~regions[i].negative
  /\ regions[i].section = "struct" =>
       \/ regions[i].type = "word"
       \/ regions[i].type = "half" /\ \E j \in 1 .. i - 1 : SetsHex(regions[j])

\* Constructor and AppendDataArea agree: every byte that was given is where
\* the code looks for it, although the assembler drops the printed addresses.
ImageMatches == pc = "run" /\ ~wrapped /\ Regular =>
  \A i \in DOMAIN regions : regions[i].section # "local" =>
    \A k \in 0 .. regions[i].size - 1 : At(image, label[i] + k) = Cell(i, k, "host")

\* Buffers that the copy back can read: at a whole word, of chars or of words.
Readable(i) ==
  /\ regions[i].section = "global" /\ label[i] % 4 = 0
  /\ \/ regions[i].type = "byte"
     \/ regions[i].type = "word" /\ regions[i].size % 4 = 0

\* After a launch that succeeded each of them holds exactly the bytes that the
\* kernel left in its region, whatever the other arguments are, and only the
\* conversions of halves and of mixed structs write outside a host's buffer
\* (run's loop over the arguments, readByteData, readWordData, readHalfData).
CopyBackExact == result = "ok" /\ ~wrapped =>
  /\ \A i \in DOMAIN regions : Readable(i) =>
       \A k \in 0 .. regions[i].size - 1 : host[i][k] = Cell(i, k, "kernel")
  /\ spill => \E i \in DOMAIN regions : regions[i].type \in {"half", "mixed"}
=============================================================================
