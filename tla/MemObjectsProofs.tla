-------------------------- MODULE MemObjectsProofs --------------------------
(***************************************************************************)
(* For any number of threads, devices, buffers and commands: every         *)
(* variable has its type; and if no two threads use the same device, the   *)
(* host's copy of a buffer is there until every device has taken it, no    *)
(* pointer that was handed out goes stale, and a read of a command without *)
(* offset finds in memory what the last commands have left there.          *)
(***************************************************************************)
EXTENDS MemObjects, FiniteSetTheorems, TLAPS

\* Nothing in the code asks for it: without it the run mem_first_use applies.
OwnDevices == \A t, u \in Thread : t # u => Uses[t] \intersect Uses[u] = {}

-----------------------------------------------------------------------------
(* The inductive invariant.                                                *)

PointerType == [block : Blocks \union {NullBlock}, off : Nat]

MemTypes ==
  /\ ctx \subseteq Device
  /\ kind \in [Buffer -> Kinds \union {"none"}]
  /\ parent \in [Buffer -> Buffer] /\ origin \in [Buffer -> Cells]
  /\ ptr \in [Buffer -> [Device -> PointerType]]
  /\ toAllocate \in [Buffer -> 0 .. Modulus - 1]
  /\ hostCopy \in [Buffer -> {"none", "kept", "freed"}]
  /\ counted \in [Buffer -> SUBSET Device]

WorkTypes ==
  /\ pc \in [Thread -> Places]
  /\ job \in [Thread -> Jobs \union {NoJob}]
  /\ arg \in [Thread -> Nat]
  /\ seen \in [Thread -> 0 .. Modulus - 1]
  /\ made \in Nat
  /\ \A t \in Thread : pc[t] = "idle" => arg[t] = 1 /\ job[t] = NoJob

Exists(b) == kind[b] # "none"
IsRoot(b) == kind[b] \notin {"none", "sub"}

\* A thread constructs a command for a device of its own, with buffers that
\* exist.
JobInv == \A t \in Thread : pc[t] # "idle" =>
  /\ job[t] \in Jobs /\ arg[t] \in DOMAIN job[t].args
  /\ Dev(t) \in Uses[t] \intersect ctx
  /\ \A i \in DOMAIN job[t].args : Exists(job[t].args[i])

\* Until a thread has counted its device the device is not counted, and what
\* it knows of the count is not too low.
AllocInv == \A t \in Thread :
  /\ pc[t] \in {"test", "malloc", "copy", "load", "dec"} => Dev(t) \notin counted[Target(t)]
  /\ pc[t] = "malloc" => TargetPtr(t) = NullPtr
  /\ pc[t] \in {"copy", "load", "dec"} => TargetPtr(t) # NullPtr
  /\ pc[t] = "dec" => seen[t] >= Cardinality(ctx \ counted[Target(t)])
  /\ pc[t] = "free" => ctx \subseteq counted[Target(t)]

\* Counts may be too high, when decrements were lost, but never too low.
CountInv == \A b \in Buffer : IsRoot(b) =>
  /\ toAllocate[b] >= Cardinality(ctx \ counted[b])
  /\ \A d \in counted[b] \intersect ctx : ptr[b][d] # NullPtr
  /\ kind[b] = "copy" => hostCopy[b] = "kept" \/ ctx \subseteq counted[b]

\* A sub-buffer's parent is none.
RootsInv == \A b \in Buffer : kind[b] = "sub" => IsRoot(parent[b])

\* A buffer's own pointer is null or points to memory; those derived from it
\* follow it.
PointerInv ==
  /\ \A b \in Buffer : IsRoot(b) =>
       \A d \in Device : ptr[b][d] = NullPtr \/ ~Wild(ptr[b][d])
  /\ RootsInv
  /\ \A m \in maps : m.buffer \in Buffer /\ Exists(m.buffer) /\ m.dev \in Device /\ m.off \in Nat
  /\ AliasesHold

MemInv == MemTypes /\ WorkTypes /\ JobInv /\ AllocInv /\ CountInv /\ PointerInv

-----------------------------------------------------------------------------
(* What the steps leave alone.                                             *)

\* The buffer that a command is at exists, and its root can be allocated.
LEMMA Targets ==
  ASSUME MemTypes, JobInv, RootsInv, NEW t \in Thread, pc[t] # "idle"
  PROVE  /\ Arg(t) \in Buffer /\ Exists(Arg(t))
         /\ Target(t) \in Buffer /\ IsRoot(Target(t))
         /\ Dev(t) \in ctx /\ Dev(t) \in Device /\ Dev(t) \in Uses[t]
<1>1. job[t].args \in Seq(Buffer) /\ arg[t] \in DOMAIN job[t].args
  BY DEF JobInv, Jobs
<1>2. Arg(t) \in Buffer /\ Exists(Arg(t))
  BY <1>1 DEF JobInv, Arg
<1>3. Target(t) \in Buffer /\ IsRoot(Target(t))
  BY <1>2 DEF Target, Root, IsRoot, Exists, RootsInv, MemTypes
<1> QED BY <1>2, <1>3 DEF JobInv, MemTypes, Dev

\* Threads are at different devices.
LEMMA Apart ==
  ASSUME OwnDevices, MemTypes, JobInv, RootsInv, NEW t \in Thread, NEW u \in Thread, t # u,
         pc[t] # "idle", pc[u] # "idle"
  PROVE  Dev(t) # Dev(u)
  BY Targets DEF OwnDevices

\* Threads that create buffers construct no command.
LEMMA CreateFrame ==
  ASSUME NEW t \in Thread, Create(t)
  PROVE  UNCHANGED <<ctx, maps, made, threadVars>>
<1>1. CASE \E c \in Buffer, k \in Kinds : CreateBuffer(t, c, k)
  BY <1>1 DEF CreateBuffer
<1>2. CASE \E c, p \in Buffer, o \in Cells : CreateSubBuffer(t, c, p, o)
  BY <1>2 DEF CreateSubBuffer
<1>3. CASE OutOfSpace(t)
  BY <1>3 DEF OutOfSpace, objVars
<1> QED BY <1>1, <1>2, <1>3 DEF Create

\* A new buffer changes nothing of those that exist.
LEMMA CreateKeeps ==
  ASSUME MemTypes, NEW t \in Thread, Create(t), NEW b \in Buffer, Exists(b)
  PROVE  /\ kind'[b] = kind[b] /\ parent'[b] = parent[b] /\ origin'[b] = origin[b]
         /\ ptr'[b] = ptr[b] /\ toAllocate'[b] = toAllocate[b]
         /\ hostCopy'[b] = hostCopy[b] /\ counted'[b] = counted[b]
         /\ UNCHANGED <<ctx, maps, made, threadVars>>
<1>1. CASE \E c \in Buffer, k \in Kinds : CreateBuffer(t, c, k)
  <2>1. PICK c \in Buffer, k \in Kinds : CreateBuffer(t, c, k)
    BY <1>1
  <2>2. b # c
    BY <2>1 DEF CreateBuffer, Exists
  <2>3. /\ kind' = [kind EXCEPT ![c] = k] /\ ptr' = [ptr EXCEPT ![c] = InitialPtr(t, c, k)]
        /\ toAllocate' = [toAllocate EXCEPT ![c] = IF Single THEN 0 ELSE Cardinality(ctx)]
        /\ hostCopy' = [hostCopy EXCEPT ![c] = IF k = "copy" /\ ~Single THEN "kept" ELSE "none"]
        /\ counted' = [counted EXCEPT ![c] = IF Single THEN ctx ELSE {}]
        /\ UNCHANGED <<ctx, parent, origin, maps, made, threadVars>>
    BY <2>1 DEF CreateBuffer
  <2> QED BY <2>2, <2>3 DEF MemTypes
<1>2. CASE \E c, p \in Buffer, o \in Cells : CreateSubBuffer(t, c, p, o)
  <2>1. PICK c \in Buffer, p \in Buffer, o \in Cells : CreateSubBuffer(t, c, p, o)
    BY <1>2
  <2>2. b # c
    BY <2>1 DEF CreateSubBuffer, Exists
  <2>3. /\ kind' = [kind EXCEPT ![c] = "sub"] /\ ptr' = [ptr EXCEPT ![c] = SubPtr(p, o)]
        /\ parent' = [parent EXCEPT ![c] = p] /\ origin' = [origin EXCEPT ![c] = o]
        /\ UNCHANGED <<ctx, maps, made, threadVars, toAllocate, hostCopy, counted>>
    BY <2>1 DEF CreateSubBuffer, countVars
  <2> QED BY <2>2, <2>3 DEF MemTypes
<1>3. CASE OutOfSpace(t)
  BY <1>3 DEF OutOfSpace, objVars, dataVars, countVars
<1> QED BY <1>1, <1>2, <1>3 DEF Create

\* After an argument comes the next one or the end of the command.
LEMMA NextArgDoes ==
  ASSUME WorkTypes, NEW t \in Thread, NextArg(t)
  PROVE  /\ \A u \in Thread \ {t} : /\ pc'[u] = pc[u] /\ job'[u] = job[u]
                                     /\ arg'[u] = arg[u] /\ seen'[u] = seen[u]
         /\ \/ /\ pc'[t] = "check" /\ job'[t] = job[t] /\ seen'[t] = seen[t]
               /\ arg'[t] = arg[t] + 1 /\ arg[t] < Len(job[t].args)
               /\ maps' = maps
            \/ /\ pc'[t] = "idle" /\ job'[t] = NoJob /\ seen'[t] = 0 /\ arg'[t] = 1
               /\ maps' = maps \union
                    (IF job[t].op = "Map"
                     THEN {[buffer |-> Arg(t), dev |-> Dev(t), off |-> job[t].off,
                            to |-> Plus(ptr[Arg(t)][Dev(t)], job[t].off)]}
                     ELSE {})
         /\ pc' \in [Thread -> Places] /\ job' \in [Thread -> Jobs \union {NoJob}]
         /\ arg' \in [Thread -> Nat] /\ seen' \in [Thread -> 0 .. Modulus - 1]
<1>1. CASE arg[t] < Len(job[t].args) /\ Go(t, "check") /\ arg' = [arg EXCEPT ![t] = @ + 1]
           /\ UNCHANGED <<job, seen, maps, cmds>>
  BY <1>1 DEF Go, WorkTypes, Places
<1>2. CASE Queue(t)
  <2>1. 0 \in 0 .. Modulus - 1
    <3>1. seen[t] \in 0 .. Modulus - 1 /\ Modulus \in Nat
      BY MemObjectsOK DEF WorkTypes
    <3> QED BY <3>1
  <2>2. Leave(t)
    BY <1>2 DEF Queue
  <2>3. maps' = maps \union
                    (IF job[t].op = "Map"
                     THEN {[buffer |-> Arg(t), dev |-> Dev(t), off |-> job[t].off,
                            to |-> Plus(ptr[Arg(t)][Dev(t)], job[t].off)]}
                     ELSE {})
    BY <1>2 DEF Queue, Dev
  <2> QED BY <2>1, <2>2, <2>3 DEF Leave, Go, WorkTypes, Places
<1> QED BY <1>1, <1>2 DEF NextArg

\* A command is of the types of its parts, and its buffers exist.
LEMMA EnqueueDoes ==
  ASSUME MemTypes, WorkTypes, NEW t \in Thread, Enqueue(t)
  PROVE  \E j \in Jobs :
           /\ job' = [job EXCEPT ![t] = j] /\ j.dev \in Uses[t] \intersect ctx
           /\ 1 \in DOMAIN j.args /\ \A i \in DOMAIN j.args : Exists(j.args[i])
           /\ pc[t] = "idle" /\ arg[t] = 1 /\ pc' = [pc EXCEPT ![t] = "check"]
           /\ made' = made + 1
           /\ UNCHANGED <<objVars, dataVars, countVars, maps, arg, seen>>
<1>1. PICK op \in Ops, d \in Uses[t] \intersect ctx, off \in Offsets : \E args \in ArgsOf(op) :
         /\ \A i \in DOMAIN args : kind[args[i]] # "none"
         /\ off < SmallestSize(args)
         /\ job' = [job EXCEPT ![t] = [op |-> op, args |-> args, dev |-> d, off |-> off,
                                       cb |-> SmallestSize(args) - off, id |-> made + 1]]
  BY DEF Enqueue
<1>2. PICK args \in ArgsOf(op) :
         /\ \A i \in DOMAIN args : kind[args[i]] # "none"
         /\ off < SmallestSize(args)
         /\ job' = [job EXCEPT ![t] = [op |-> op, args |-> args, dev |-> d, off |-> off,
                                       cb |-> SmallestSize(args) - off, id |-> made + 1]]
  BY <1>1
<1> DEFINE j == [op |-> op, args |-> args, dev |-> d, off |-> off,
                 cb |-> SmallestSize(args) - off, id |-> made + 1]
<1>3. args \in Seq(Buffer) /\ 1 \in DOMAIN args
  <2>1. CASE op = "Copy"
    <3>1. PICK a \in Buffer, b \in Buffer : args = <<a, b>>
      BY <2>1 DEF ArgsOf
    <3> QED BY <3>1
  <2>2. CASE op # "Copy"
    <3>1. PICK b \in Buffer : args = <<b>>
      BY <2>2 DEF ArgsOf
    <3> QED BY <3>1
  <2> QED BY <2>1, <2>2
<1>4. off \in {0, 1} /\ SmallestSize(args) \in {1, 2} /\ made + 1 \in Nat
  BY MemObjectsOK DEF SmallestSize, WorkTypes
<1>5. SmallestSize(args) - off \in Nat
  BY <1>2, <1>4
<1>6. d \in Device
  BY DEF MemTypes
<1>7. j \in Jobs
  BY <1>3, <1>4, <1>5, <1>6 DEF Jobs
<1>8. /\ pc[t] = "idle" /\ pc' = [pc EXCEPT ![t] = "check"] /\ made' = made + 1
      /\ UNCHANGED <<objVars, dataVars, countVars, maps, arg, seen>>
  BY DEF Enqueue
<1>9. arg[t] = 1
  BY <1>8 DEF WorkTypes
<1> HIDE DEF j
<1>10. job' = [job EXCEPT ![t] = j] /\ j.dev = d /\ j.args = args
  BY <1>2 DEF j
<1> QED BY <1>2, <1>3, <1>7, <1>8, <1>9, <1>10 DEF Exists

\* One thread constructs; the others stay where they are.
LEMMA ConstructFrame ==
  ASSUME MemTypes, WorkTypes, NEW t \in Thread, Construct(t)
  PROVE  /\ UNCHANGED <<kind, parent, origin, ctx>>
         /\ \A u \in Thread \ {t} : /\ pc'[u] = pc[u] /\ job'[u] = job[u]
                                     /\ arg'[u] = arg[u] /\ seen'[u] = seen[u]
<1>1. CASE Enqueue(t)
  BY <1>1, EnqueueDoes DEF WorkTypes, objVars
<1>2. CASE CheckAllocated(t)
  <2>1. NextArg(t) \/ (Go(t, "test") /\ UNCHANGED <<job, arg, seen>>)
    BY <1>2 DEF CheckAllocated
  <2>2. UNCHANGED <<kind, parent, origin, ctx>>
    BY <1>2 DEF CheckAllocated, objVars
  <2> QED BY <2>1, <2>2, NextArgDoes DEF Go, WorkTypes
<1>3. CASE TestData(t) \/ Malloc(t) \/ CopyIn(t) \/ LoadCount(t) \/ Decrement(t)
  BY <1>3 DEF TestData, Malloc, CopyIn, LoadCount, Decrement, Go, WorkTypes, objVars
<1>4. CASE MallocFails(t)
  BY <1>4 DEF MallocFails, Leave, Go, WorkTypes, objVars
<1>5. CASE TestCount(t)
  <2>1. NextArg(t) \/ (Go(t, "free") /\ UNCHANGED <<job, arg, seen>>)
    BY <1>5 DEF TestCount
  <2>2. UNCHANGED <<kind, parent, origin, ctx>>
    BY <1>5 DEF TestCount, objVars
  <2> QED BY <2>1, <2>2, NextArgDoes DEF Go, WorkTypes
<1>6. CASE FreeCopy(t)
  BY <1>6, NextArgDoes DEF FreeCopy, objVars
<1> QED BY <1>1, <1>2, <1>3, <1>4, <1>5, <1>6 DEF Construct

\* The workers of the devices change none of this.
LEMMA ExecuteFrame ==
  ASSUME NEW d \in Device, Execute(d)
  PROVE  UNCHANGED <<objVars, ptr, countVars, maps, made, threadVars>>
  BY DEF Execute, ExecRead, ExecWrite, ExecCopy, ExecKernel, KernelAbandoned, BadPointer,
         dataVars

\* What a thread is at changes only when it constructs.
LEMMA Moves ==
  ASSUME MemTypes, WorkTypes, Next, NEW u \in Thread
  PROVE  \/ Construct(u)
         \/ pc'[u] = pc[u] /\ job'[u] = job[u] /\ arg'[u] = arg[u] /\ seen'[u] = seen[u]
<1>1. ASSUME NEW t \in Thread, Create(t)
      PROVE  pc'[u] = pc[u] /\ job'[u] = job[u] /\ arg'[u] = arg[u] /\ seen'[u] = seen[u]
  BY <1>1, CreateFrame DEF threadVars
<1>2. ASSUME NEW d \in Device, Execute(d)
      PROVE  pc'[u] = pc[u] /\ job'[u] = job[u] /\ arg'[u] = arg[u] /\ seen'[u] = seen[u]
  BY <1>2, ExecuteFrame DEF threadVars
<1>3. ASSUME NEW t \in Thread, Construct(t), t # u
      PROVE  pc'[u] = pc[u] /\ job'[u] = job[u] /\ arg'[u] = arg[u] /\ seen'[u] = seen[u]
  BY <1>3, ConstructFrame
<1> QED BY <1>1, <1>2, <1>3 DEF Next

-----------------------------------------------------------------------------
(* Types.                                                                  *)

\* What threads have in hand keeps its type.
LEMMA WorkTypesNext ==
  ASSUME MemTypes, WorkTypes, JobInv, RootsInv, Next
  PROVE  WorkTypes'
<1>1. ASSUME NEW t \in Thread, Construct(t)
      PROVE  WorkTypes'
  <2>0. Modulus \in Nat /\ 0 \in 0 .. Modulus - 1
    <3>1. seen[t] \in 0 .. Modulus - 1 /\ Modulus \in Nat
      BY MemObjectsOK DEF WorkTypes
    <3> QED BY <3>1
  <2>1. CASE Enqueue(t)
    <3>1. PICK j \in Jobs :
           /\ job' = [job EXCEPT ![t] = j]
           /\ pc[t] = "idle" /\ arg[t] = 1 /\ pc' = [pc EXCEPT ![t] = "check"]
           /\ made' = made + 1 /\ UNCHANGED <<arg, seen>>
      BY <2>1, EnqueueDoes
    <3> QED BY <3>1 DEF WorkTypes, Places
  <2>2. ASSUME NextArg(t), made' = made
        PROVE  WorkTypes'
    BY <2>2, NextArgDoes DEF WorkTypes
  <2>3. ASSUME NEW l \in Places \ {"idle"}, Go(t, l), UNCHANGED <<job, arg, seen, made>>
        PROVE  WorkTypes'
    BY <2>3 DEF Go, WorkTypes
  <2>4. CASE CheckAllocated(t)
    BY <2>2, <2>3, <2>4 DEF CheckAllocated, Places
  <2>5. CASE TestCount(t) \/ FreeCopy(t)
    BY <2>2, <2>3, <2>5 DEF TestCount, FreeCopy, Places
  <2>6. CASE TestData(t) \/ Malloc(t) \/ CopyIn(t) \/ Decrement(t)
    BY <2>3, <2>6 DEF TestData, Malloc, CopyIn, Decrement, Places
  <2>7. CASE MallocFails(t)
    BY <2>0, <2>7 DEF MallocFails, Leave, Go, WorkTypes, Places
  <2>8. CASE LoadCount(t)
    <3>1. toAllocate[Target(t)] \in 0 .. Modulus - 1
      BY <2>8, Targets DEF LoadCount, At, MemTypes
    <3> QED BY <2>8, <3>1 DEF LoadCount, Go, WorkTypes, Places
  <2> QED BY <1>1, <2>1, <2>4, <2>5, <2>6, <2>7, <2>8 DEF Construct
<1>2. ASSUME NEW t \in Thread, Create(t)
      PROVE  WorkTypes'
  BY <1>2, CreateFrame DEF WorkTypes, threadVars
<1>3. ASSUME NEW d \in Device, Execute(d)
      PROVE  WorkTypes'
  BY <1>3, ExecuteFrame DEF WorkTypes, threadVars
<1> QED BY <1>1, <1>2, <1>3 DEF Next

\* Memory is never at the null pointer.
LEMMA BlocksAreSomewhere ==
  /\ NullBlock \notin Blocks
  /\ \A b \in Buffer, d \in Device, t \in Thread : Block(b, d, t) \in Blocks
  /\ \A b \in Buffer : HostBlock(b) \in Blocks
<1>1. Null \notin Buffer
  BY MemObjectsOK
<1>2. \A bl \in Blocks : bl # NullBlock
  BY <1>1 DEF Blocks, NullBlock, Block, HostBlock
<1> QED BY <1>2 DEF Blocks

\* A pointer plus an offset is in the same block.
LEMMA PlusFacts ==
  ASSUME NEW p \in PointerType, NEW k \in Nat
  PROVE  /\ Plus(p, k) \in PointerType
         /\ Wild(Plus(p, k)) <=> Wild(p)
  BY DEF Plus, PointerType, Wild

\* The pointers of a new buffer: those of a root are null or memory, and not
\* null where it needs no allocation.
LEMMA InitialPointers ==
  ASSUME NEW t \in Thread, NEW b \in Buffer, NEW k \in Kinds, NEW d \in Device
  PROVE  /\ InitialPtr(t, b, k) \in [Device -> PointerType]
         /\ InitialPtr(t, b, k)[d] = NullPtr \/ ~Wild(InitialPtr(t, b, k)[d])
         /\ Single /\ d \in ctx => InitialPtr(t, b, k)[d] # NullPtr
<1>1. \A e \in Device : InitialPtr(t, b, k)[e] \in
        {Pointer(HostBlock(b), 0), Pointer(Block(b, e, t), 0), NullPtr}
  BY DEF InitialPtr
<1>2. \A bl \in Blocks : Pointer(bl, 0) \in PointerType /\ ~Wild(Pointer(bl, 0))
                        /\ Pointer(bl, 0) # NullPtr
  BY BlocksAreSomewhere DEF Pointer, PointerType, Wild, NullPtr
<1>3. NullPtr \in PointerType
  BY DEF NullPtr, Pointer, PointerType
<1>4. \A e \in Device : InitialPtr(t, b, k)[e] \in PointerType
  BY <1>1, <1>2, <1>3, BlocksAreSomewhere
<1>5. InitialPtr(t, b, k) \in [Device -> PointerType]
  BY <1>4 DEF InitialPtr
<1>6. InitialPtr(t, b, k)[d] = NullPtr \/ ~Wild(InitialPtr(t, b, k)[d])
  BY <1>1, <1>2, BlocksAreSomewhere
<1>7. ASSUME Single, d \in ctx
      PROVE  InitialPtr(t, b, k)[d] # NullPtr
  <2>1. CASE k = "host"
    BY <1>2, <1>7, <2>1, BlocksAreSomewhere DEF InitialPtr
  <2>2. CASE k # "host"
    BY <1>2, <1>7, <2>2, BlocksAreSomewhere DEF InitialPtr
  <2> QED BY <2>1, <2>2
<1> QED BY <1>5, <1>6, <1>7

\* The devices of the context are finitely many, fewer than an unsigned holds.
LEMMA ContextFinite ==
  ASSUME ctx \subseteq Device
  PROVE  /\ IsFiniteSet(ctx) /\ Cardinality(ctx) \in 0 .. Modulus - 1
         /\ \A S : IsFiniteSet(ctx \ S) /\ Cardinality(ctx \ S) \in Nat
<1>1. IsFiniteSet(Device) /\ Cardinality(Device) < Modulus /\ Modulus \in Nat
  BY MemObjectsOK
<1>2. IsFiniteSet(ctx) /\ Cardinality(ctx) <= Cardinality(Device)
  BY <1>1, FS_Subset
<1>3. Cardinality(ctx) \in Nat /\ Cardinality(Device) \in Nat
  BY <1>1, <1>2, FS_CardinalityType
<1>4. ASSUME NEW S
      PROVE  IsFiniteSet(ctx \ S) /\ Cardinality(ctx \ S) \in Nat
  <2>1. IsFiniteSet(ctx \ S)
    <3>1. ctx \ S \subseteq ctx
      OBVIOUS
    <3> QED BY <1>2, <3>1, FS_Subset
  <2> QED BY <2>1, FS_CardinalityType
<1> QED BY <1>1, <1>2, <1>3, <1>4

\* Remainders of an unsigned.
LEMMA Remainder ==
  ASSUME NEW n \in 0 .. Modulus - 1
  PROVE  /\ (n + Modulus - 1) % Modulus \in 0 .. Modulus - 1
         /\ n > 0 => (n + Modulus - 1) % Modulus = n - 1
<1>1. Modulus \in Nat /\ Modulus > 0 /\ n + Modulus - 1 \in Nat
  BY MemObjectsOK
<1> DEFINE a == n + Modulus - 1
           r == a % Modulus
           q == a \div Modulus
<1>2. a \in Nat /\ r \in 0 .. Modulus - 1 /\ q \in Int /\ a = Modulus * q + r
  BY <1>1
<1>3. ASSUME n > 0
      PROVE  r = n - 1
  <2>1. CASE q = 1
    BY <1>1, <1>2, <2>1
  <2>2. CASE q >= 2
    <3>1. Modulus * q >= Modulus + Modulus
      BY <1>1, <1>2, <2>2
    <3> QED BY <1>1, <1>2, <3>1
  <2>3. CASE q <= 0
    <3>1. Modulus * q <= 0
      BY <1>1, <1>2, <2>3
    <3> QED BY <1>1, <1>2, <1>3, <3>1
  <2> QED BY <1>2, <2>1, <2>2, <2>3
<1> QED BY <1>2, <1>3

\* Memory objects keep their types.
LEMMA MemTypesNext ==
  ASSUME MemTypes, WorkTypes, JobInv, RootsInv, Next
  PROVE  MemTypes'
<1>1. ASSUME NEW t \in Thread, NEW b \in Buffer, NEW k \in Kinds, CreateBuffer(t, b, k)
      PROVE  MemTypes'
  <2>1. /\ InitialPtr(t, b, k) \in [Device -> PointerType]
        /\ 0 \in 0 .. Modulus - 1 /\ Cardinality(ctx) \in 0 .. Modulus - 1
    <3>2. \A d \in Device : InitialPtr(t, b, k)[d] \in PointerType
      BY InitialPointers
    <3>3. InitialPtr(t, b, k) \in [Device -> PointerType]
      BY <3>2 DEF InitialPtr
    <3>4. Cardinality(ctx) \in 0 .. Modulus - 1 /\ Modulus \in Nat
      BY ContextFinite, MemObjectsOK DEF MemTypes
    <3>5. 0 \in 0 .. Modulus - 1
      BY <3>4
    <3> QED BY <3>3, <3>4, <3>5
  <2>2. /\ kind' = [kind EXCEPT ![b] = k] /\ ptr' = [ptr EXCEPT ![b] = InitialPtr(t, b, k)]
        /\ toAllocate' = [toAllocate EXCEPT ![b] = IF Single THEN 0 ELSE Cardinality(ctx)]
        /\ hostCopy' = [hostCopy EXCEPT ![b] = IF k = "copy" /\ ~Single THEN "kept" ELSE "none"]
        /\ counted' = [counted EXCEPT ![b] = IF Single THEN ctx ELSE {}]
        /\ UNCHANGED <<ctx, parent, origin>>
    BY <1>1 DEF CreateBuffer
  <2> QED BY <2>1, <2>2 DEF MemTypes
<1>2. ASSUME NEW t \in Thread, NEW b \in Buffer, NEW p \in Buffer, NEW o \in Cells,
             "sub" \in Kinds, CreateSubBuffer(t, b, p, o)
      PROVE  MemTypes'
  <2>1. SubPtr(p, o) \in [Device -> PointerType]
    <3>1. \A d \in Device : Plus(ptr[p][d], o) \in PointerType
      BY PlusFacts DEF MemTypes, Cells
    <3>2. NullPtr \in PointerType
      BY DEF NullPtr, Pointer, PointerType
    <3> QED BY <3>1, <3>2 DEF SubPtr
  <2>2. /\ kind' = [kind EXCEPT ![b] = "sub"] /\ ptr' = [ptr EXCEPT ![b] = SubPtr(p, o)]
        /\ parent' = [parent EXCEPT ![b] = p] /\ origin' = [origin EXCEPT ![b] = o]
        /\ UNCHANGED <<ctx, toAllocate, hostCopy, counted>>
    BY <1>2 DEF CreateSubBuffer, countVars
  <2> QED BY <1>2, <2>1, <2>2 DEF MemTypes
<1>3. ASSUME NEW t \in Thread, OutOfSpace(t)
      PROVE  MemTypes'
  BY <1>3 DEF OutOfSpace, objVars, dataVars, countVars, MemTypes
<1>4. ASSUME NEW t \in Thread, Create(t)
      PROVE  MemTypes'
  BY <1>1, <1>2, <1>3, <1>4 DEF Create
<1>5. ASSUME NEW t \in Thread, Construct(t)
      PROVE  MemTypes'
  <2>1. CASE Enqueue(t)
    BY <2>1, EnqueueDoes DEF objVars, dataVars, countVars, MemTypes
  <2>2. CASE CheckAllocated(t) \/ TestData(t) \/ MallocFails(t) \/ CopyIn(t) \/ LoadCount(t)
             \/ TestCount(t)
    BY <2>2 DEF CheckAllocated, TestData, MallocFails, CopyIn, LoadCount, TestCount, objVars,
       dataVars, countVars, MemTypes
  <2>3. CASE Malloc(t)
    <3>1. Target(t) \in Buffer /\ Dev(t) \in Device
      BY <2>3, Targets DEF Malloc, At
    <3>2. Pointer(Block(Target(t), Dev(t), t), 0) \in PointerType
      BY <3>1, BlocksAreSomewhere DEF Pointer, PointerType
    <3>3. /\ ptr' = [ptr EXCEPT ![Target(t)][Dev(t)] = Pointer(Block(Target(t), Dev(t), t), 0)]
          /\ UNCHANGED <<objVars, countVars>>
      BY <2>3 DEF Malloc
    <3> QED BY <3>1, <3>2, <3>3 DEF MemTypes, objVars, countVars
  <2>4. CASE Decrement(t)
    <3>1. Target(t) \in Buffer /\ Dev(t) \in Device
      BY <2>4, Targets DEF Decrement, At
    <3>2. (seen[t] + Modulus - 1) % Modulus \in 0 .. Modulus - 1
      BY Remainder DEF WorkTypes
    <3>3. /\ toAllocate' = [toAllocate EXCEPT ![Target(t)] = (seen[t] + Modulus - 1) % Modulus]
          /\ counted' = [counted EXCEPT ![Target(t)] = @ \union {Dev(t)}]
          /\ UNCHANGED <<objVars, dataVars, hostCopy>>
      BY <2>4 DEF Decrement
    <3> QED BY <3>1, <3>2, <3>3 DEF MemTypes, objVars, dataVars
  <2>5. CASE FreeCopy(t)
    BY <2>5 DEF FreeCopy, objVars, dataVars, MemTypes
  <2> QED BY <1>5, <2>1, <2>2, <2>3, <2>4, <2>5 DEF Construct
<1>6. ASSUME NEW d \in Device, Execute(d)
      PROVE  MemTypes'
  BY <1>6, ExecuteFrame DEF objVars, countVars, MemTypes
<1> QED BY <1>4, <1>5, <1>6 DEF Next

-----------------------------------------------------------------------------
(* What buffers and commands stay.                                         *)

\* Buffers stay what they are.
LEMMA KindsStay ==
  ASSUME MemTypes, WorkTypes, Next, NEW b \in Buffer, Exists(b)
  PROVE  kind'[b] = kind[b] /\ parent'[b] = parent[b] /\ origin'[b] = origin[b] /\ ctx' = ctx
<1>1. ASSUME NEW t \in Thread, Create(t)
      PROVE  kind'[b] = kind[b] /\ parent'[b] = parent[b] /\ origin'[b] = origin[b] /\ ctx' = ctx
  BY <1>1, CreateKeeps
<1>2. ASSUME NEW t \in Thread, Construct(t)
      PROVE  kind'[b] = kind[b] /\ parent'[b] = parent[b] /\ origin'[b] = origin[b] /\ ctx' = ctx
  BY <1>2, ConstructFrame
<1>3. ASSUME NEW d \in Device, Execute(d)
      PROVE  kind'[b] = kind[b] /\ parent'[b] = parent[b] /\ origin'[b] = origin[b] /\ ctx' = ctx
  BY <1>3, ExecuteFrame DEF objVars
<1> QED BY <1>1, <1>2, <1>3 DEF Next

\* A command stays on its device with its buffers.
LEMMA JobNext ==
  ASSUME MemTypes, WorkTypes, JobInv, RootsInv, Next
  PROVE  JobInv'
<1> SUFFICES ASSUME NEW u \in Thread, pc'[u] # "idle"
             PROVE  /\ job'[u] \in Jobs /\ arg'[u] \in DOMAIN job'[u].args
                    /\ job'[u].dev \in Uses[u] \intersect ctx'
                    /\ \A i \in DOMAIN job'[u].args : kind'[job'[u].args[i]] # "none"
  <2>1. \A u \in Thread : Dev(u)' = job'[u].dev
    BY DEF Dev
  <2> QED BY <2>1 DEF JobInv, Exists
<1>1. ASSUME pc[u] # "idle", job'[u] = job[u], arg'[u] \in DOMAIN job[u].args
      PROVE  /\ job'[u] \in Jobs /\ arg'[u] \in DOMAIN job'[u].args
             /\ job'[u].dev \in Uses[u] \intersect ctx'
             /\ \A i \in DOMAIN job'[u].args : kind'[job'[u].args[i]] # "none"
  <2>1. /\ job[u] \in Jobs /\ Dev(u) \in Uses[u] \intersect ctx
        /\ \A i \in DOMAIN job[u].args : Exists(job[u].args[i]) /\ job[u].args[i] \in Buffer
    BY <1>1 DEF JobInv, Jobs
  <2>2. \A i \in DOMAIN job[u].args : kind'[job[u].args[i]] # "none"
    BY <2>1, KindsStay DEF Exists
  <2>3. ctx' = ctx
    <3>1. arg[u] \in DOMAIN job[u].args
      BY <1>1 DEF JobInv
    <3> QED BY <2>1, <3>1, KindsStay
  <2> QED BY <1>1, <2>1, <2>2, <2>3 DEF Dev
<1>2. ASSUME pc[u] # "idle", UNCHANGED <<pc[u], job[u], arg[u]>>
      PROVE  /\ job'[u] \in Jobs /\ arg'[u] \in DOMAIN job'[u].args
             /\ job'[u].dev \in Uses[u] \intersect ctx'
             /\ \A i \in DOMAIN job'[u].args : kind'[job'[u].args[i]] # "none"
  BY <1>1, <1>2 DEF JobInv
<1>3. ASSUME NEW t \in Thread, Create(t)
      PROVE  pc[u] # "idle" /\ UNCHANGED <<pc[u], job[u], arg[u]>>
  BY <1>3, CreateFrame DEF threadVars
<1>4. ASSUME NEW d \in Device, Execute(d)
      PROVE  pc[u] # "idle" /\ UNCHANGED <<pc[u], job[u], arg[u]>>
  BY <1>4, ExecuteFrame DEF threadVars
<1>5. ASSUME NEW t \in Thread, Construct(t), t # u
      PROVE  pc[u] # "idle" /\ UNCHANGED <<pc[u], job[u], arg[u]>>
  BY <1>5, ConstructFrame
<1>6. CASE Enqueue(u)
  <2>1. PICK j \in Jobs :
           /\ job' = [job EXCEPT ![u] = j] /\ j.dev \in Uses[u] \intersect ctx
           /\ 1 \in DOMAIN j.args /\ \A i \in DOMAIN j.args : Exists(j.args[i])
           /\ arg[u] = 1 /\ arg' = arg /\ kind' = kind /\ ctx' = ctx
    BY <1>6, EnqueueDoes DEF objVars
  <2> QED BY <2>1 DEF WorkTypes, Exists
<1>7. ASSUME NextArg(u), pc[u] # "idle"
      PROVE  pc[u] # "idle" /\ job'[u] = job[u] /\ arg'[u] \in DOMAIN job[u].args
  <2>1. pc'[u] = "check" /\ job'[u] = job[u] /\ arg'[u] = arg[u] + 1 /\ arg[u] < Len(job[u].args)
    BY <1>7, NextArgDoes
  <2>2. arg[u] \in DOMAIN job[u].args /\ job[u].args \in Seq(Buffer)
    BY <1>7 DEF JobInv, Jobs
  <2> QED BY <1>7, <2>1, <2>2
<1>8. ASSUME pc[u] # "idle", UNCHANGED <<job, arg>>
      PROVE  pc[u] # "idle" /\ job'[u] = job[u] /\ arg'[u] \in DOMAIN job[u].args
  BY <1>8 DEF JobInv
<1>9. ASSUME Construct(u), ~Enqueue(u)
      PROVE  pc[u] # "idle" /\ job'[u] = job[u] /\ arg'[u] \in DOMAIN job[u].args
  <2>1. CASE CheckAllocated(u) \/ TestCount(u) \/ FreeCopy(u)
    BY <1>7, <1>8, <2>1 DEF CheckAllocated, TestCount, FreeCopy, At
  <2>2. CASE TestData(u) \/ Malloc(u) \/ CopyIn(u) \/ LoadCount(u) \/ Decrement(u)
    BY <1>8, <2>2 DEF TestData, Malloc, CopyIn, LoadCount, Decrement, At
  <2>3. CASE MallocFails(u)
    BY <2>3 DEF MallocFails, Leave, Go, WorkTypes
  <2> QED BY <1>9, <2>1, <2>2, <2>3 DEF Construct
<1> QED BY <1>1, <1>2, <1>3, <1>4, <1>5, <1>6, <1>9 DEF Next

\* Parents stay roots.
LEMMA RootsNext ==
  ASSUME MemTypes, WorkTypes, RootsInv, Next
  PROVE  RootsInv'
<1>1. ASSUME NEW b \in Buffer, kind[b] = "sub"
      PROVE  kind'[b] = "sub" /\ parent'[b] = parent[b] /\ kind'[parent[b]] = kind[parent[b]]
  BY <1>1, KindsStay DEF RootsInv, IsRoot, Exists, MemTypes
<1>2. ASSUME UNCHANGED <<kind, parent>>
      PROVE  RootsInv'
  BY <1>2 DEF RootsInv, IsRoot
<1>3. ASSUME NEW t \in Thread, NEW c \in Buffer, NEW k \in Kinds, CreateBuffer(t, c, k)
      PROVE  RootsInv'
  <2>1. k # "sub" /\ kind' = [kind EXCEPT ![c] = k] /\ parent' = parent
    BY <1>3 DEF CreateBuffer
  <2>2. \A b \in Buffer : kind'[b] = "sub" => kind[b] = "sub"
    BY <2>1 DEF MemTypes
  <2> QED BY <1>1, <2>2 DEF RootsInv, IsRoot
<1>4. ASSUME NEW t \in Thread, NEW c \in Buffer, NEW p \in Buffer, NEW o \in Cells,
             CreateSubBuffer(t, c, p, o)
      PROVE  RootsInv'
  <2>1. /\ kind[c] = "none" /\ kind[p] \notin {"none", "sub"}
        /\ kind' = [kind EXCEPT ![c] = "sub"] /\ parent' = [parent EXCEPT ![c] = p]
    BY <1>4 DEF CreateSubBuffer
  <2>2. parent'[c] = p /\ kind'[p] = kind[p]
    BY <2>1 DEF MemTypes
  <2>3. \A b \in Buffer \ {c} : kind'[b] = kind[b]
    BY <2>1 DEF MemTypes
  <2> QED BY <1>1, <2>1, <2>2, <2>3 DEF RootsInv, IsRoot
<1>5. ASSUME NEW t \in Thread, Create(t)
      PROVE  RootsInv'
  <2>1. OutOfSpace(t) => UNCHANGED <<kind, parent>>
    BY DEF OutOfSpace, objVars
  <2> QED BY <1>2, <1>3, <1>4, <1>5, <2>1 DEF Create
<1>6. ASSUME NEW t \in Thread, Construct(t)
      PROVE  RootsInv'
  BY <1>2, <1>6, ConstructFrame
<1>7. ASSUME NEW d \in Device, Execute(d)
      PROVE  RootsInv'
  BY <1>2, <1>7, ExecuteFrame DEF objVars
<1> QED BY <1>5, <1>6, <1>7 DEF Next

-----------------------------------------------------------------------------
(* The other types: what is in memory, and in the queues.                  *)

\* The commands a device has still to execute.
Queued(d) == {cmds[d][n] : n \in DOMAIN cmds[d]}

\* A command has its buffers and stays in them.
InRange(c) ==
  /\ 1 \in DOMAIN c.args /\ (c.op = "Copy" => 2 \in DOMAIN c.args)
  /\ c.off \in Nat /\ c.cb >= 1
  /\ \A i \in DOMAIN c.args : Exists(c.args[i]) /\ c.off + c.cb <= SizeOf(c.args[i])

Mappings == [buffer : Buffer, dev : Device, off : Cells, to : Pointers]

DataTypes ==
  /\ mem \in [Blocks -> [Cells -> Int]]
  /\ expect \in [Buffer -> [Device -> [Cells -> Int]]]
  /\ base \in [Device -> Nat] /\ exited \in BOOLEAN
  /\ maps \subseteq Mappings
  /\ cmds \in [Device -> Seq(Jobs)]
  /\ dead \subseteq Device

\* A sub-buffer is one cell of its parent.
RangeInv ==
  /\ \A b \in Buffer, d \in Device : ptr[b][d].off \in Cells
  /\ \A b \in Buffer : kind[b] # "sub" => origin[b] = 0 /\ \A d \in Device : ptr[b][d].off = 0
  /\ \A t \in Thread : pc[t] # "idle" => InRange(job[t])
  /\ \A d \in Device : \A c \in Queued(d) : InRange(c)

TypeInv == MemTypes /\ WorkTypes /\ JobInv /\ RootsInv /\ DataTypes /\ RangeInv

\* Elements of queues.
LEMMA QueueFacts ==
  ASSUME NEW S, NEW s \in Seq(S)
  PROVE  /\ \A c \in S : {Append(s, c)[n] : n \in DOMAIN Append(s, c)} \subseteq
                           {s[n] : n \in DOMAIN s} \union {c}
         /\ s # <<>> => /\ Head(s) \in {s[n] : n \in DOMAIN s} /\ Head(s) \in S
                        /\ Tail(s) \in Seq(S)
                        /\ {Tail(s)[n] : n \in DOMAIN Tail(s)} \subseteq {s[n] : n \in DOMAIN s}
<1>1. ASSUME NEW c \in S, NEW n \in DOMAIN Append(s, c)
      PROVE  Append(s, c)[n] \in {s[m] : m \in DOMAIN s} \union {c}
  <2>1. n \in 1 .. Len(s) + 1 /\ Len(s) \in Nat /\ DOMAIN s = 1 .. Len(s)
    BY <1>1
  <2>2. CASE n = Len(s) + 1
    BY <2>1, <2>2
  <2>3. CASE n \in 1 .. Len(s)
    BY <2>1, <2>3
  <2> QED BY <2>1, <2>2, <2>3
<1>2. ASSUME s # <<>>
      PROVE  /\ Head(s) \in {s[n] : n \in DOMAIN s} /\ Head(s) \in S
             /\ Tail(s) \in Seq(S)
             /\ {Tail(s)[n] : n \in DOMAIN Tail(s)} \subseteq {s[n] : n \in DOMAIN s}
  <2>1. 1 \in DOMAIN s /\ Head(s) = s[1] /\ s[1] \in S /\ Tail(s) \in Seq(S)
    BY <1>2
  <2>2. ASSUME NEW n \in DOMAIN Tail(s)
        PROVE  Tail(s)[n] = s[n + 1] /\ n + 1 \in DOMAIN s
    BY <1>2, <2>2
  <2> QED BY <2>1, <2>2
<1> QED BY <1>1, <1>2

\* A thread that is done with its command gives it to its device, or has got
\* its mapping.
LEMMA NextArgQueues ==
  ASSUME NEW t \in Thread, NextArg(t)
  PROVE  \/ cmds' = cmds
         \/ /\ cmds' = [cmds EXCEPT ![Dev(t)] = Append(@, job[t])]
            /\ arg[t] >= Len(job[t].args) /\ job[t].op # "Map"
  BY DEF NextArg, Queue, Dev

\* What devices have to do is what they had, less what they do, and what a
\* thread gives them.
LEMMA QueuedNext ==
  ASSUME MemTypes, WorkTypes, JobInv, RootsInv, DataTypes, Next, NEW d \in Device
  PROVE  /\ cmds'[d] \in Seq(Jobs)
         /\ \/ Queued(d)' \subseteq Queued(d)
            \/ \E t \in Thread :
                 /\ CheckAllocated(t) \/ TestCount(t) \/ FreeCopy(t)
                 /\ NextArg(t) /\ pc[t] # "idle" /\ Dev(t) = d
                 /\ arg[t] >= Len(job[t].args) /\ job[t].op # "Map"
                 /\ Queued(d)' \subseteq Queued(d) \union {job[t]}
<1>0. cmds[d] \in Seq(Jobs)
  BY DEF DataTypes
<1>1. ASSUME cmds'[d] = cmds[d]
      PROVE  cmds'[d] \in Seq(Jobs) /\ Queued(d)' \subseteq Queued(d)
  BY <1>0, <1>1 DEF Queued
<1>2. ASSUME NEW t \in Thread, CheckAllocated(t) \/ TestCount(t) \/ FreeCopy(t)
      PROVE  \/ cmds'[d] = cmds[d]
             \/ /\ cmds'[d] \in Seq(Jobs) /\ pc[t] # "idle" /\ NextArg(t)
                /\ Dev(t) = d /\ arg[t] >= Len(job[t].args) /\ job[t].op # "Map"
                /\ Queued(d)' \subseteq Queued(d) \union {job[t]}
  <2>1. NextArg(t) \/ cmds' = cmds
    BY <1>2 DEF CheckAllocated, TestCount, FreeCopy
  <2>2. pc[t] # "idle"
    BY <1>2 DEF CheckAllocated, TestCount, FreeCopy, At
  <2>3. job[t] \in Jobs
    BY <2>2 DEF JobInv
  <2>4. CASE NextArg(t) /\ cmds' = [cmds EXCEPT ![Dev(t)] = Append(@, job[t])]
             /\ arg[t] >= Len(job[t].args) /\ job[t].op # "Map"
    <3>1. CASE Dev(t) = d
      <4>1. cmds'[d] = Append(cmds[d], job[t])
        BY <2>4, <3>1 DEF DataTypes
      <4>2. Queued(d)' \subseteq Queued(d) \union {job[t]}
        BY <1>0, <2>3, <4>1, QueueFacts DEF Queued
      <4>3. cmds'[d] \in Seq(Jobs)
        BY <1>0, <2>3, <4>1
      <4> QED BY <2>2, <2>4, <3>1, <4>2, <4>3
    <3>2. CASE Dev(t) # d
      BY <2>4, <3>2 DEF DataTypes
    <3> QED BY <3>1, <3>2
  <2> QED BY <2>1, <2>4, NextArgQueues
<1>3. ASSUME NEW t \in Thread, Construct(t)
      PROVE  \/ cmds'[d] = cmds[d]
             \/ CheckAllocated(t) \/ TestCount(t) \/ FreeCopy(t)
  BY <1>3 DEF Construct, Enqueue, TestData, Malloc, MallocFails, CopyIn, LoadCount, Decrement
<1>4. ASSUME NEW t \in Thread, Create(t)
      PROVE  cmds'[d] = cmds[d]
  BY <1>4 DEF Create, CreateBuffer, CreateSubBuffer, OutOfSpace
<1>5. ASSUME NEW e \in Device, Execute(e)
      PROVE  cmds'[d] \in Seq(Jobs) /\ Queued(d)' \subseteq Queued(d)
  <2>1. \E op : Take(e, op)
    BY <1>5 DEF Execute, ExecRead, ExecWrite, ExecCopy, ExecKernel, KernelAbandoned, BadPointer
  <2>2. cmds[e] # <<>> /\ cmds' = [cmds EXCEPT ![e] = Tail(@)]
    BY <2>1 DEF Take
  <2>3. CASE e = d
    <3>1. cmds'[d] = Tail(cmds[d]) /\ cmds[d] # <<>>
      BY <2>2, <2>3 DEF DataTypes
    <3> QED BY <1>0, <3>1, QueueFacts DEF Queued
  <2>4. CASE e # d
    BY <1>1, <2>2, <2>4 DEF DataTypes
  <2> QED BY <2>3, <2>4
<1> QED BY <1>1, <1>2, <1>3, <1>4, <1>5 DEF Next

\* A command that is made stays in its buffers.
LEMMA EnqueueFits ==
  ASSUME MemTypes, WorkTypes, NEW t \in Thread, Enqueue(t)
  PROVE  InRange(job'[t])
<1>0. PICK op \in Ops, d \in Uses[t] \intersect ctx, off \in Offsets : \E args \in ArgsOf(op) :
         /\ \A i \in DOMAIN args : kind[args[i]] # "none"
         /\ off < SmallestSize(args)
         /\ job' = [job EXCEPT ![t] = [op |-> op, args |-> args, dev |-> d, off |-> off,
                                       cb |-> SmallestSize(args) - off, id |-> made + 1]]
  BY DEF Enqueue
<1>1. PICK args \in ArgsOf(op) :
         /\ \A i \in DOMAIN args : kind[args[i]] # "none"
         /\ off < SmallestSize(args)
         /\ job' = [job EXCEPT ![t] = [op |-> op, args |-> args, dev |-> d, off |-> off,
                                       cb |-> SmallestSize(args) - off, id |-> made + 1]]
  BY <1>0
<1> DEFINE j == job'[t]
<1>2. /\ j.op = op /\ j.args = args /\ j.off = off /\ j.cb = SmallestSize(args) - off
  BY <1>1 DEF WorkTypes
<1>3. 1 \in DOMAIN args /\ (op = "Copy" => 2 \in DOMAIN args)
  <2>1. CASE op = "Copy"
    <3>1. PICK a \in Buffer, b \in Buffer : args = <<a, b>>
      BY <2>1 DEF ArgsOf
    <3> QED BY <3>1
  <2>2. CASE op # "Copy"
    <3>1. PICK b \in Buffer : args = <<b>>
      BY <2>2 DEF ArgsOf
    <3> QED BY <2>2, <3>1
  <2> QED BY <2>1, <2>2
<1>4. off \in Nat /\ SmallestSize(args) \in {1, 2}
  <2>1. off \in {0, 1}
    BY MemObjectsOK
  <2> QED BY <2>1 DEF SmallestSize
<1>5. \A i \in DOMAIN args : SmallestSize(args) <= SizeOf(args[i])
  BY DEF SmallestSize, SizeOf
<1>6. off + (SmallestSize(args) - off) = SmallestSize(args) /\ SmallestSize(args) - off >= 1
  BY <1>1, <1>4
<1> HIDE DEF j
<1>7. InRange(j)
  BY <1>1, <1>2, <1>3, <1>4, <1>5, <1>6 DEF InRange, Exists
<1> QED BY <1>7 DEF j

\* A command that fits its buffers goes on to fit them.
LEMMA InRangeStays ==
  ASSUME MemTypes, WorkTypes, Next, NEW c \in Jobs, InRange(c)
  PROVE  InRange(c)'
<1>1. \A i \in DOMAIN c.args : c.args[i] \in Buffer /\ Exists(c.args[i])
  BY DEF Jobs, InRange
<1>2. \A i \in DOMAIN c.args : kind'[c.args[i]] = kind[c.args[i]]
  BY <1>1, KindsStay
<1> QED BY <1>2 DEF InRange, Exists, SizeOf

\* What a thread is at.
LEMMA JobKept ==
  ASSUME MemTypes, WorkTypes, JobInv, Next, NEW u \in Thread, pc'[u] # "idle"
  PROVE  Enqueue(u) \/ (pc[u] # "idle" /\ job'[u] = job[u])
<1>1. ASSUME Construct(u), ~Enqueue(u)
      PROVE  pc[u] # "idle" /\ job'[u] = job[u]
  <2>1. CASE CheckAllocated(u) \/ TestCount(u) \/ FreeCopy(u)
    <3>1. pc[u] # "idle" /\ (job' = job \/ NextArg(u))
      BY <2>1 DEF CheckAllocated, TestCount, FreeCopy, At
    <3> QED BY <3>1, NextArgDoes
  <2>2. CASE TestData(u) \/ Malloc(u) \/ CopyIn(u) \/ LoadCount(u) \/ Decrement(u)
    BY <2>2 DEF TestData, Malloc, CopyIn, LoadCount, Decrement, At
  <2>3. CASE MallocFails(u)
    BY <2>3 DEF MallocFails, Leave, Go, WorkTypes
  <2> QED BY <1>1, <2>1, <2>2, <2>3 DEF Construct
<1> QED BY <1>1, Moves

\* No command leaves its buffers.
LEMMA JobsInRange ==
  ASSUME TypeInv, Next
  PROVE  /\ \A u \in Thread : pc'[u] # "idle" => InRange(job[u])'
         /\ \A d \in Device : \A c \in Queued(d)' : InRange(c)'
<1>1. MemTypes /\ WorkTypes /\ JobInv /\ RootsInv /\ DataTypes /\ RangeInv
  BY DEF TypeInv
<1>2. ASSUME NEW u \in Thread, pc'[u] # "idle"
      PROVE  InRange(job[u])'
  <2>1. CASE Enqueue(u)
    <3>1. InRange(job'[u])
      BY <1>1, <2>1, EnqueueFits
    <3>2. kind' = kind
      BY <2>1 DEF Enqueue, objVars
    <3> QED BY <3>1, <3>2 DEF InRange, Exists, SizeOf
  <2>2. CASE pc[u] # "idle" /\ job'[u] = job[u]
    <3>1. PICK c \in Jobs : c = job[u]
      BY <1>1, <2>2 DEF JobInv
    <3>2. InRange(c)
      BY <1>1, <2>2, <3>1 DEF RangeInv
    <3>3. InRange(c)'
      BY <1>1, <3>2, InRangeStays
    <3>4. c = job'[u]
      BY <2>2, <3>1
    <3> QED BY <3>3, <3>4 DEF InRange, Exists, SizeOf
  <2> QED BY <1>1, <1>2, <2>1, <2>2, JobKept
<1>3. ASSUME NEW d \in Device, NEW c \in Queued(d)'
      PROVE  InRange(c)'
  <2>1. cmds[d] \in Seq(Jobs) /\ Queued(d) \subseteq Jobs
    BY <1>1 DEF DataTypes, Queued
  <2>2. c \in Jobs /\ InRange(c)
    <3>1. CASE c \in Queued(d)
      BY <1>1, <2>1, <3>1 DEF RangeInv
    <3>2. CASE c \notin Queued(d)
      <4>1. PICK t \in Thread : pc[t] # "idle" /\ Queued(d)' \subseteq Queued(d) \union {job[t]}
        BY <1>1, <1>3, <3>2, QueuedNext
      <4>2. c = job[t]
        BY <1>3, <3>2, <4>1
      <4>3. InRange(job[t]) /\ job[t] \in Jobs
        BY <1>1, <4>1 DEF RangeInv, JobInv
      <4> QED BY <4>2, <4>3
    <3> QED BY <3>1, <3>2
  <2> QED BY <1>1, <2>2, InRangeStays
<1> QED BY <1>2, <1>3

\* Copying to memory, and what it should have come to, keep the types.
LEMMA StoredType ==
  ASSUME DataTypes, NEW d \in Device, NEW b \in Buffer, NEW data,
         \A j \in DOMAIN data : data[j] \in Int
  PROVE  Stored(d, b, data) \in [Blocks -> [Cells -> Int]]
<1> DEFINE p == PtrOf(d, b)
           cell(bl) == [k \in Cells |-> IF k - p.off \in DOMAIN data THEN data[k - p.off]
                                                                     ELSE mem[bl][k]]
<1>1. \A bl \in Blocks : cell(bl) \in [Cells -> Int]
  BY DEF DataTypes
<1> HIDE DEF p
<1>2. Stored(d, b, data) = [mem EXCEPT ![p.block] = cell(p.block)]
  BY DEF Stored, p
<1> HIDE DEF cell
<1>3. DOMAIN mem = Blocks /\ \A bl \in Blocks : mem[bl] \in [Cells -> Int]
  BY DEF DataTypes
<1>4. Stored(d, b, data) =
        [bl \in Blocks |-> IF bl = p.block THEN cell(p.block) ELSE mem[bl]]
  BY <1>2, <1>3
<1>5. \A bl \in Blocks : (IF bl = p.block THEN cell(p.block) ELSE mem[bl]) \in [Cells -> Int]
  BY <1>1, <1>3
<1> QED BY <1>4, <1>5

LEMMA ShouldStoreType ==
  ASSUME MemTypes, DataTypes, NEW d \in Device, NEW b \in Buffer, NEW off, NEW data,
         ShouldStore(d, b, off, data), \A j \in DOMAIN data : data[j] \in Int
  PROVE  expect' \in [Buffer -> [Device -> [Cells -> Int]]]
<1> DEFINE put == [k \in Cells |-> LET j == k - origin[b] - off IN
                     IF j \in DOMAIN data THEN data[j] ELSE expect[Root(b)][d][k]]
           all == [e \in Device |-> IF e = d \/ kind[Root(b)] = "host" THEN put
                                                                       ELSE expect[Root(b)][e]]
<1>1. Root(b) \in Buffer
  BY DEF Root, MemTypes
<1>2. put \in [Cells -> Int]
  BY <1>1 DEF DataTypes
<1>3. expect' = [expect EXCEPT ![Root(b)] = all]
  BY DEF ShouldStore
<1> HIDE DEF put
<1>4. all \in [Device -> [Cells -> Int]]
  BY <1>1, <1>2 DEF DataTypes
<1> HIDE DEF all
<1> QED BY <1>1, <1>3, <1>4 DEF DataTypes

\* Where the cells of a command are.
LEMMA CommandCells ==
  ASSUME MemTypes, RootsInv, RangeInv, NEW d \in Device, NEW c \in Jobs, InRange(c),
         NEW i \in DOMAIN c.args, NEW k \in 0 .. c.cb - 1
  PROVE  /\ c.args[i] \in Buffer /\ Root(c.args[i]) \in Buffer /\ IsRoot(Root(c.args[i]))
         /\ ptr[c.args[i]][d].off + k \in Cells
         /\ origin[c.args[i]] + c.off + k \in Cells
<1> DEFINE b == c.args[i]
<1>1. b \in Buffer
  BY DEF Jobs
<1>2. c.off \in Nat /\ c.cb \in Nat /\ c.off + c.cb <= SizeOf(b) /\ Exists(b)
  BY DEF InRange, Jobs
<1> HIDE DEF b
<1>3. Root(b) \in Buffer /\ IsRoot(Root(b))
  BY <1>1, <1>2 DEF Root, MemTypes, RootsInv, IsRoot, Exists
<1>4. ptr[b][d].off \in Cells /\ origin[b] \in Cells
  BY <1>1 DEF RangeInv, MemTypes
<1>5. CASE kind[b] = "sub"
  <2>1. c.off = 0 /\ k = 0
    BY <1>2, <1>5 DEF SizeOf
  <2>2. ptr[b][d].off + 0 \in Cells /\ origin[b] + 0 + 0 \in Cells
    BY <1>4 DEF Cells
  <2> QED BY <1>1, <1>3, <2>1, <2>2 DEF b
<1>6. CASE kind[b] # "sub"
  <2>1. ptr[b][d].off = 0 /\ origin[b] = 0 /\ c.off + c.cb <= 2
    BY <1>1, <1>2, <1>6 DEF RangeInv, SizeOf
  <2>2. 0 + k \in Cells /\ 0 + c.off + k \in Cells
    BY <1>2, <2>1 DEF Cells
  <2> QED BY <1>1, <1>3, <2>1, <2>2 DEF b
<1> QED BY <1>5, <1>6

\* What is read, and what should be, are values.
LEMMA ReadTypes ==
  ASSUME MemTypes, RootsInv, DataTypes, RangeInv, NEW d \in Device, NEW c \in Jobs, InRange(c),
         NEW i \in DOMAIN c.args
  PROVE  /\ ~Wild(PtrOf(d, c.args[i])) =>
              \A k \in DOMAIN Fetched(d, c.args[i], c.cb) : Fetched(d, c.args[i], c.cb)[k] \in Int
         /\ \A k \in DOMAIN Wanted(d, c.args[i], c.off, c.cb) :
              Wanted(d, c.args[i], c.off, c.cb)[k] \in Int
<1> DEFINE b == c.args[i]
<1>1. ASSUME NEW k \in 0 .. c.cb - 1
      PROVE  expect[Root(b)][d][origin[b] + c.off + k] \in Int
  <2>1. Root(b) \in Buffer /\ origin[b] + c.off + k \in Cells
    BY <1>1, CommandCells
  <2> QED BY <2>1 DEF DataTypes
<1>2. ASSUME NEW k \in 0 .. c.cb - 1, ~Wild(PtrOf(d, b))
      PROVE  mem[ptr[b][d].block][ptr[b][d].off + k] \in Int
  <2>1. b \in Buffer /\ ptr[b][d].off + k \in Cells
    BY <1>2, CommandCells
  <2>2. ptr[b][d].block \in Blocks
    BY <1>2, <2>1 DEF MemTypes, PointerType, Wild, PtrOf
  <2> QED BY <2>1, <2>2 DEF DataTypes
<1> HIDE DEF b
<1>3. \A k \in 0 .. c.cb - 1 : Wanted(d, b, c.off, c.cb)[k] \in Int
  BY <1>1 DEF Wanted
<1>4. ~Wild(PtrOf(d, b)) => \A k \in 0 .. c.cb - 1 : Fetched(d, b, c.cb)[k] \in Int
  BY <1>2 DEF Fetched, PtrOf
<1>5. DOMAIN Wanted(d, b, c.off, c.cb) = 0 .. c.cb - 1 /\ DOMAIN Fetched(d, b, c.cb) = 0 .. c.cb - 1
  BY DEF Wanted, Fetched
<1> QED BY <1>3, <1>4, <1>5 DEF b

\* The command at the head of a queue.
LEMMA HeadCommand ==
  ASSUME MemTypes, DataTypes, RangeInv, NEW d \in Device, NEW op, Take(d, op)
  PROVE  /\ Next1(d) \in Jobs /\ InRange(Next1(d)) /\ Next1(d).op = op
         /\ Next1(d) \in Queued(d) /\ 1 \in DOMAIN Next1(d).args /\ Next1(d).args[1] \in Buffer
         /\ (op = "Copy" => 2 \in DOMAIN Next1(d).args /\ Next1(d).args[2] \in Buffer)
<1>1. cmds[d] \in Seq(Jobs) /\ cmds[d] # <<>> /\ Next1(d).op = op
  BY DEF DataTypes, Take
<1>2. Next1(d) \in Queued(d) /\ Next1(d) \in Jobs
  BY <1>1, QueueFacts DEF Queued, Next1
<1>3. InRange(Next1(d))
  BY <1>2 DEF RangeInv
<1> QED BY <1>1, <1>2, <1>3 DEF InRange, Jobs

\* What the workers do keeps memory's types.
LEMMA ExecuteTypes ==
  ASSUME TypeInv, NEW d \in Device, Execute(d)
  PROVE  /\ mem' \in [Blocks -> [Cells -> Int]]
         /\ expect' \in [Buffer -> [Device -> [Cells -> Int]]]
         /\ base' = base /\ exited' \in BOOLEAN /\ dead' \subseteq Device
<1>1. MemTypes /\ RootsInv /\ DataTypes /\ RangeInv
  BY DEF TypeInv
<1>2. base' = base
  BY ExecuteFrame DEF objVars
<1>3. ASSUME UNCHANGED <<dataVars, expect>>
      PROVE  mem' \in [Blocks -> [Cells -> Int]] /\ expect' \in [Buffer -> [Device -> [Cells -> Int]]]
  BY <1>1, <1>3 DEF DataTypes, dataVars
<1>4. CASE ExecRead(d)
  BY <1>1, <1>2, <1>3, <1>4 DEF ExecRead, DataTypes
<1>5. CASE KernelAbandoned(d)
  BY <1>1, <1>2, <1>3, <1>5 DEF KernelAbandoned, DataTypes
<1>6. CASE BadPointer(d)
  BY <1>1, <1>2, <1>3, <1>6 DEF BadPointer, DataTypes
<1>7. ASSUME NEW off,
             \/ Take(d, "Write") \/ Take(d, "Kernel"),
             mem' = Stored(d, Next1(d).args[1], Written(Next1(d))),
             ShouldStore(d, Next1(d).args[1], off, Written(Next1(d)))
      PROVE  mem' \in [Blocks -> [Cells -> Int]] /\ expect' \in [Buffer -> [Device -> [Cells -> Int]]]
  <2>1. Next1(d) \in Jobs /\ Next1(d).args[1] \in Buffer
    BY <1>1, <1>7, HeadCommand
  <2>2. \A j \in DOMAIN Written(Next1(d)) : Written(Next1(d))[j] \in Int
    BY <2>1 DEF Written, Jobs
  <2> QED BY <1>1, <1>7, <2>1, <2>2, StoredType, ShouldStoreType
<1>8. CASE ExecWrite(d)
  <2>1. UNCHANGED <<exited, dead>>
    BY <1>8 DEF ExecWrite
  <2>2. /\ Take(d, "Write")
        /\ mem' = Stored(d, Next1(d).args[1], Written(Next1(d)))
        /\ ShouldStore(d, Next1(d).args[1], Next1(d).off, Written(Next1(d)))
    BY <1>8 DEF ExecWrite
  <2> QED BY <1>1, <1>2, <1>7, <2>1, <2>2 DEF DataTypes
<1>9. CASE ExecKernel(d)
  <2>1. UNCHANGED <<exited, dead>>
    BY <1>9 DEF ExecKernel
  <2>2. /\ Take(d, "Kernel")
        /\ mem' = Stored(d, Next1(d).args[1], Written(Next1(d)))
        /\ ShouldStore(d, Next1(d).args[1], 0, Written(Next1(d)))
    BY <1>9 DEF ExecKernel
  <2> QED BY <1>1, <1>2, <1>7, <2>1, <2>2 DEF DataTypes
<1>10. CASE ExecCopy(d)
  <2> DEFINE c == Next1(d)
             got == Fetched(d, c.args[1], c.cb)
             want == Wanted(d, c.args[1], c.off, c.cb)
  <2>1. /\ Take(d, "Copy") /\ Sound(d) /\ mem' = Stored(d, c.args[2], got)
        /\ ShouldStore(d, c.args[2], c.off, want) /\ UNCHANGED <<exited, dead>>
    BY <1>10 DEF ExecCopy
  <2>2. c \in Jobs /\ InRange(c) /\ 1 \in DOMAIN c.args /\ c.args[2] \in Buffer
    BY <1>1, <2>1, HeadCommand
  <2>3. ~Wild(PtrOf(d, c.args[1]))
    BY <2>1, <2>2 DEF Sound
  <2>4. (\A j \in DOMAIN got : got[j] \in Int) /\ (\A j \in DOMAIN want : want[j] \in Int)
    BY <1>1, <2>2, <2>3, ReadTypes
  <2> HIDE DEF c, got, want
  <2>5. Stored(d, c.args[2], got) \in [Blocks -> [Cells -> Int]]
    BY <1>1, <2>2, <2>4, StoredType
  <2>6. expect' \in [Buffer -> [Device -> [Cells -> Int]]]
    BY <1>1, <2>1, <2>2, <2>4, ShouldStoreType
  <2> QED BY <1>1, <1>2, <2>1, <2>5, <2>6 DEF DataTypes
<1> QED BY <1>4, <1>5, <1>6, <1>8, <1>9, <1>10 DEF Execute

\* Memory, mappings and queues keep their types.
LEMMA DataTypesNext ==
  ASSUME TypeInv, Next
  PROVE  DataTypes'
<1>1. MemTypes /\ WorkTypes /\ JobInv /\ RootsInv /\ DataTypes /\ RangeInv
  BY DEF TypeInv
<1>2. InitialData("plain") \in [Cells -> Int] /\ \A k \in Kinds : InitialData(k) \in [Cells -> Int]
  BY DEF InitialData, Filled
<1>3. \A n \in Nat, a \in Nat : RoundUp4(a + n) \in Nat
  BY DEF RoundUp4
<1>4. ASSUME NEW t \in Thread, NEW b \in Buffer, NEW k \in Kinds, CreateBuffer(t, b, k)
      PROVE  DataTypes'
  <2>1. base' \in [Device -> Nat]
    BY <1>1, <1>3, <1>4 DEF CreateBuffer, GrowBase, DataTypes
  <2>2. mem' \in [Blocks -> [Cells -> Int]]
    BY <1>1, <1>2, <1>4 DEF CreateBuffer, DataTypes
  <2>3. expect' = [expect EXCEPT ![b] = [d \in Device |-> InitialData(k)]]
    BY <1>4 DEF CreateBuffer
  <2>4. expect' \in [Buffer -> [Device -> [Cells -> Int]]]
    BY <1>1, <1>2, <2>3 DEF DataTypes
  <2>5. UNCHANGED <<exited, maps, cmds, dead>>
    BY <1>4 DEF CreateBuffer
  <2> QED BY <1>1, <2>1, <2>2, <2>4, <2>5 DEF DataTypes, Mappings
<1>5. ASSUME NEW t \in Thread, NEW b \in Buffer, NEW p \in Buffer, NEW o \in Cells,
             CreateSubBuffer(t, b, p, o)
      PROVE  DataTypes'
  <2>1. base' \in [Device -> Nat]
    BY <1>1, <1>3, <1>5 DEF CreateSubBuffer, GrowBase, DataTypes
  <2>2. UNCHANGED <<mem, expect, exited, maps, cmds, dead>>
    BY <1>5 DEF CreateSubBuffer
  <2> QED BY <1>1, <2>1, <2>2 DEF DataTypes, Mappings
<1>6. ASSUME NEW t \in Thread, Create(t)
      PROVE  DataTypes'
  <2>1. CASE OutOfSpace(t)
    BY <1>1, <2>1 DEF OutOfSpace, objVars, dataVars, DataTypes, Mappings
  <2> QED BY <1>4, <1>5, <1>6, <2>1 DEF Create
<1>7. ASSUME NEW t \in Thread, NextArg(t), pc[t] # "idle",
             UNCHANGED <<objVars, dataVars, exited, dead, expect>>
      PROVE  DataTypes'
  <2>1. cmds' \in [Device -> Seq(Jobs)]
    <3>1. job[t] \in Jobs
      BY <1>1, <1>7 DEF JobInv
    <3>2. \A s \in Seq(Jobs) : Append(s, job[t]) \in Seq(Jobs)
      BY <3>1
    <3>3. cmds \in [Device -> Seq(Jobs)]
      BY <1>1 DEF DataTypes
    <3>4. CASE cmds' = [cmds EXCEPT ![Dev(t)] = Append(@, job[t])]
      BY <3>2, <3>3, <3>4
    <3> QED BY <1>7, <3>3, <3>4, NextArgQueues
  <2>2. maps' \subseteq Mappings
    <3> DEFINE m == [buffer |-> Arg(t), dev |-> Dev(t), off |-> job[t].off,
                     to |-> Plus(ptr[Arg(t)][Dev(t)], job[t].off)]
    <3>1. maps' = maps \/ maps' = maps \union {m}
      BY <1>1, <1>7, NextArgDoes
    <3>2. Arg(t) \in Buffer /\ Dev(t) \in Device
      BY <1>1, <1>7, Targets
    <3>3. PICK p \in PointerType, o \in Nat : p = ptr[Arg(t)][Dev(t)] /\ o = job[t].off
          /\ o \in Cells /\ p.off + o \in Cells
      <4>1. ptr[Arg(t)][Dev(t)] \in PointerType
        BY <1>1, <3>2 DEF MemTypes
      <4>2. job[t] \in Jobs /\ InRange(job[t]) /\ arg[t] \in DOMAIN job[t].args
        BY <1>1, <1>7 DEF JobInv, RangeInv
      <4>3. /\ job[t].off \in Nat /\ job[t].off + job[t].cb <= SizeOf(Arg(t))
            /\ job[t].cb \in Nat /\ job[t].cb >= 1
        BY <4>2 DEF InRange, Jobs, Arg
      <4>4. job[t].off \in Cells /\ (kind[Arg(t)] = "sub" => job[t].off = 0)
        BY <4>3 DEF SizeOf, Cells
      <4>5. ptr[Arg(t)][Dev(t)].off \in Cells
            /\ (kind[Arg(t)] # "sub" => ptr[Arg(t)][Dev(t)].off = 0)
        BY <1>1, <3>2 DEF RangeInv
      <4>6. ptr[Arg(t)][Dev(t)].off + job[t].off \in Cells
        BY <4>3, <4>4, <4>5 DEF Cells
      <4> QED BY <4>1, <4>3, <4>4, <4>6
    <3>4. Plus(p, o) \in Pointers
      BY <3>3 DEF Plus, PointerType, Pointers
    <3>5. m \in Mappings
      BY <3>2, <3>3, <3>4 DEF Mappings
    <3> HIDE DEF m
    <3> QED BY <1>1, <3>1, <3>5 DEF DataTypes
  <2> QED BY <1>1, <1>7, <2>1, <2>2 DEF DataTypes, objVars, dataVars
<1>8. ASSUME NEW t \in Thread, Construct(t)
      PROVE  DataTypes'
  <2>1. ASSUME UNCHANGED <<objVars, exited, maps, cmds, dead, expect>>,
               mem' = mem \/ \E bl \in Blocks, v \in [Cells -> Int] : mem' = [mem EXCEPT ![bl] = v]
        PROVE  DataTypes'
    BY <1>1, <2>1 DEF DataTypes, objVars, Mappings
  <2>2. CASE Enqueue(t)
    BY <2>1, <2>2 DEF Enqueue, dataVars
  <2>3. CASE TestData(t) \/ MallocFails(t) \/ LoadCount(t) \/ Decrement(t)
    BY <2>1, <2>3 DEF TestData, MallocFails, LoadCount, Decrement, dataVars
  <2>4. CASE CheckAllocated(t) \/ TestCount(t) \/ FreeCopy(t)
    <3>1. /\ NextArg(t) \/ UNCHANGED <<maps, cmds>>
          /\ pc[t] # "idle" /\ UNCHANGED <<objVars, dataVars, exited, dead, expect>>
      BY <2>4 DEF CheckAllocated, TestCount, FreeCopy, At
    <3> QED BY <1>7, <2>1, <3>1 DEF dataVars
  <2>5. CASE Malloc(t)
    <3>1. Target(t) \in Buffer /\ Dev(t) \in Device
      BY <1>1, <2>5, Targets DEF Malloc, At
    <3>2. Block(Target(t), Dev(t), t) \in Blocks /\ Filled(0) \in [Cells -> Int]
      BY <3>1, BlocksAreSomewhere DEF Filled
    <3>3. /\ mem' = [mem EXCEPT ![Block(Target(t), Dev(t), t)] = Filled(0)]
          /\ UNCHANGED <<objVars, exited, maps, cmds, dead, expect>>
      BY <2>5 DEF Malloc
    <3> QED BY <2>1, <3>2, <3>3
  <2>6. CASE CopyIn(t)
    <3>1. /\ exited' = (kind[Target(t)] = "copy" /\ hostCopy[Target(t)] # "kept")
          /\ mem' = IF kind[Target(t)] = "copy" THEN [mem EXCEPT ![TargetPtr(t).block] = Filled(-1)]
                                                ELSE mem
          /\ UNCHANGED <<objVars, maps, cmds, dead, expect>>
      BY <2>6 DEF CopyIn
    <3>2. exited' \in BOOLEAN
      BY <3>1
    <3>3. Filled(-1) \in [Cells -> Int]
      BY DEF Filled
    <3>4. mem' \in [Blocks -> [Cells -> Int]]
      BY <1>1, <3>1, <3>3 DEF DataTypes
    <3> QED BY <1>1, <3>1, <3>2, <3>4 DEF DataTypes, objVars, Mappings
  <2> QED BY <1>8, <2>2, <2>3, <2>4, <2>5, <2>6 DEF Construct
<1>9. ASSUME NEW d \in Device, Execute(d)
      PROVE  DataTypes'
  <2>1. /\ mem' \in [Blocks -> [Cells -> Int]]
        /\ expect' \in [Buffer -> [Device -> [Cells -> Int]]]
        /\ base' = base /\ exited' \in BOOLEAN /\ dead' \subseteq Device
    BY <1>9, ExecuteTypes
  <2>2. maps' = maps
    BY <1>9, ExecuteFrame
  <2>3. cmds' \in [Device -> Seq(Jobs)]
    <3>1. \E op : Take(d, op)
      BY <1>9 DEF Execute, ExecRead, ExecWrite, ExecCopy, ExecKernel, KernelAbandoned, BadPointer
    <3>2. cmds[d] # <<>> /\ cmds' = [cmds EXCEPT ![d] = Tail(@)]
      BY <3>1 DEF Take
    <3>3. cmds[d] \in Seq(Jobs) /\ Tail(cmds[d]) \in Seq(Jobs)
      BY <1>1, <3>2, QueueFacts DEF DataTypes
    <3> QED BY <1>1, <3>2, <3>3 DEF DataTypes
  <2> QED BY <1>1, <2>1, <2>2, <2>3 DEF DataTypes, Mappings
<1> QED BY <1>6, <1>8, <1>9 DEF Next

\* Offsets keep in the buffers.
LEMMA RangeNext ==
  ASSUME TypeInv, Next
  PROVE  RangeInv'
<1>1. MemTypes /\ WorkTypes /\ JobInv /\ RootsInv /\ DataTypes /\ RangeInv
  BY DEF TypeInv
<1> DEFINE Offs == /\ \A b \in Buffer, d \in Device : ptr[b][d].off \in Cells
                   /\ \A b \in Buffer : kind[b] # "sub" =>
                        origin[b] = 0 /\ \A d \in Device : ptr[b][d].off = 0
<1>2. Offs
  BY <1>1 DEF RangeInv
<1>3. NullPtr.off = 0 /\ \A bl, k : Pointer(bl, k).off = k
  BY DEF NullPtr, Pointer
<1>4. 0 \in Cells
  BY DEF Cells
<1>5. ASSUME UNCHANGED <<kind, origin, ptr>>
      PROVE  Offs'
  BY <1>2, <1>5
<1>6. ASSUME NEW t \in Thread, NEW c \in Buffer, NEW k \in Kinds, CreateBuffer(t, c, k)
      PROVE  Offs'
  <2>1. /\ kind[c] = "none" /\ kind' = [kind EXCEPT ![c] = k] /\ origin' = origin
        /\ ptr' = [ptr EXCEPT ![c] = InitialPtr(t, c, k)]
    BY <1>6 DEF CreateBuffer
  <2>2. \A d \in Device : InitialPtr(t, c, k)[d].off = 0
    BY <1>3 DEF InitialPtr
  <2>3. /\ \A b \in Buffer \ {c} : kind'[b] = kind[b] /\ ptr'[b] = ptr[b]
        /\ ptr'[c] = InitialPtr(t, c, k)
    BY <1>1, <2>1 DEF MemTypes
  <2> QED BY <1>2, <1>4, <2>1, <2>2, <2>3
<1>7. ASSUME NEW t \in Thread, NEW c \in Buffer, NEW p \in Buffer, NEW o \in Cells,
             CreateSubBuffer(t, c, p, o)
      PROVE  Offs'
  <2>1. /\ kind[p] # "sub" /\ kind' = [kind EXCEPT ![c] = "sub"]
        /\ origin' = [origin EXCEPT ![c] = o]
        /\ ptr' = [ptr EXCEPT ![c] = SubPtr(p, o)]
    BY <1>7 DEF CreateSubBuffer
  <2>2. ASSUME NEW d \in Device
        PROVE  SubPtr(p, o)[d].off \in Cells
    <3>1. PICK q \in PointerType : q = ptr[p][d]
      BY <1>1 DEF MemTypes
    <3>2. q.off = 0
      BY <1>2, <2>1, <3>1
    <3>3. Plus(q, o).off = o
      BY <3>1, <3>2 DEF Plus, PointerType, Cells
    <3> QED BY <1>3, <1>4, <3>1, <3>3 DEF SubPtr
  <2>3. /\ \A b \in Buffer \ {c} : kind'[b] = kind[b] /\ ptr'[b] = ptr[b] /\ origin'[b] = origin[b]
        /\ ptr'[c] = SubPtr(p, o) /\ kind'[c] = "sub"
    BY <1>1, <2>1 DEF MemTypes
  <2> QED BY <1>2, <2>2, <2>3
<1>8. ASSUME NEW t \in Thread, Malloc(t)
      PROVE  Offs'
  <2>1. Target(t) \in Buffer /\ Dev(t) \in Device
    BY <1>1, <1>8, Targets DEF Malloc, At
  <2>2. /\ ptr' = [ptr EXCEPT ![Target(t)][Dev(t)] = Pointer(Block(Target(t), Dev(t), t), 0)]
        /\ UNCHANGED <<kind, origin>>
    BY <1>8 DEF Malloc, objVars
  <2>3. \A b \in Buffer, d \in Device : ptr'[b][d] = ptr[b][d] \/ ptr'[b][d].off = 0
    BY <1>1, <1>3, <2>1, <2>2 DEF MemTypes
  <2> QED BY <1>2, <1>4, <2>2, <2>3
<1>9. ASSUME NEW t \in Thread, Construct(t), ~Malloc(t)
      PROVE  Offs'
  <2>1. UNCHANGED <<kind, origin, ptr>>
    BY <1>9 DEF Construct, Enqueue, CheckAllocated, TestData, MallocFails, CopyIn, LoadCount,
                Decrement, TestCount, FreeCopy, objVars, dataVars
  <2> QED BY <1>5, <2>1
<1>10. ASSUME NEW t \in Thread, Create(t)
       PROVE  Offs'
  <2>1. CASE OutOfSpace(t)
    BY <1>5, <2>1 DEF OutOfSpace, objVars, dataVars
  <2> QED BY <1>6, <1>7, <1>10, <2>1 DEF Create
<1>11. ASSUME NEW d \in Device, Execute(d)
       PROVE  Offs'
  BY <1>5, <1>11, ExecuteFrame DEF objVars
<1>12. Offs'
  BY <1>8, <1>9, <1>10, <1>11 DEF Next
<1>13. /\ \A u \in Thread : pc'[u] # "idle" => InRange(job[u])'
       /\ \A d \in Device : \A c \in Queued(d)' : InRange(c)'
  BY JobsInRange
<1> QED BY <1>12, <1>13 DEF RangeInv

-----------------------------------------------------------------------------
(* The types hold at the start, and in every step.                         *)

LEMMA TypesInit ==
  ASSUME Init
  PROVE  TypeInv
<1>1. NullPtr \in PointerType /\ NullPtr.off = 0 /\ 0 \in Cells
  BY DEF NullPtr, Pointer, PointerType, Cells
<1>2. Modulus \in Nat /\ 0 \in 0 .. Modulus - 1
  <2>1. IsFiniteSet(Device) /\ Cardinality(Device) < Modulus /\ Modulus \in Nat
    BY MemObjectsOK
  <2>2. Cardinality(Device) \in Nat
    BY <2>1, FS_CardinalityType
  <2> QED BY <2>1, <2>2
<1>3. MemTypes
  BY <1>1, <1>2 DEF Init, MemTypes
<1>4. WorkTypes
  BY <1>2 DEF Init, WorkTypes, Places
<1>5. JobInv /\ RootsInv
  BY DEF Init, JobInv, RootsInv
<1>6. DataTypes
  <2>1. base \in [Device -> Nat]
    BY MemObjectsOK DEF Init
  <2>2. Filled(0) \in [Cells -> Int]
    BY DEF Filled
  <2>3. mem \in [Blocks -> [Cells -> Int]] /\ expect \in [Buffer -> [Device -> [Cells -> Int]]]
    BY <2>2 DEF Init
  <2>4. cmds \in [Device -> Seq(Jobs)]
    BY DEF Init
  <2>5. exited \in BOOLEAN /\ maps \subseteq Mappings /\ dead \subseteq Device
    BY DEF Init
  <2> QED BY <2>1, <2>3, <2>4, <2>5 DEF DataTypes
<1>7. RangeInv
  <2>1. \A d \in Device : Queued(d) = {}
    BY DEF Init, Queued
  <2> QED BY <1>1, <2>1 DEF Init, RangeInv
<1> QED BY <1>3, <1>4, <1>5, <1>6, <1>7 DEF TypeInv

LEMMA TypesNext ==
  ASSUME TypeInv, Next
  PROVE  TypeInv'
<1>1. MemTypes /\ WorkTypes /\ JobInv /\ RootsInv
  BY DEF TypeInv
<1>2. MemTypes' /\ WorkTypes' /\ JobInv' /\ RootsInv'
  BY <1>1, MemTypesNext, WorkTypesNext, JobNext, RootsNext
<1> QED BY <1>2, DataTypesNext, RangeNext DEF TypeInv

LEMMA TypesStutter ==
  ASSUME TypeInv, UNCHANGED vars
  PROVE  TypeInv'
<1>1. UNCHANGED <<ctx, kind, parent, origin, ptr, toAllocate, hostCopy, counted, maps, made,
                  pc, job, arg, seen, mem, expect, base, exited, cmds, dead>>
  BY DEF vars, objVars, dataVars, countVars, threadVars
<1>2. MemTypes' /\ WorkTypes'
  BY <1>1 DEF TypeInv, MemTypes, WorkTypes
<1>3. JobInv' /\ RootsInv' /\ DataTypes'
  BY <1>1 DEF TypeInv, JobInv, RootsInv, DataTypes, Mappings, IsRoot, Exists, Dev
<1>4. RangeInv'
  <2>1. \A d \in Device : Queued(d)' = Queued(d)
    BY <1>1 DEF Queued
  <2>2. \A c : InRange(c)' <=> InRange(c)
    BY <1>1 DEF InRange, Exists, SizeOf
  <2>3. \A u \in Thread : InRange(job[u])' <=> InRange(job[u])
    BY <1>1 DEF InRange, Exists, SizeOf
  <2> QED BY <1>1, <2>1, <2>2, <2>3 DEF TypeInv, RangeInv
<1> QED BY <1>2, <1>3, <1>4 DEF TypeInv

LEMMA TypesImply ==
  ASSUME TypeInv
  PROVE  TypeOK
<1>1. MemTypes /\ WorkTypes /\ JobInv /\ DataTypes /\ RangeInv
  BY DEF TypeInv
<1>2. ptr \in [Buffer -> [Device -> Pointers]]
  <2>1. ASSUME NEW b \in Buffer, NEW d \in Device
        PROVE  ptr[b][d] \in Pointers
    <3>1. ptr[b][d] \in PointerType /\ ptr[b][d].off \in Cells
      BY <1>1 DEF MemTypes, RangeInv
    <3> QED BY <3>1 DEF PointerType, Pointers
  <2> QED BY <1>1, <2>1 DEF MemTypes
<1>3. NoJob \notin Jobs
  <2>1. "None" \notin Ops
    BY MemObjectsOK
  <2> QED BY <2>1 DEF NoJob, Jobs
<1>4. \A t \in Thread : pc[t] # "idle" => job[t] \in Jobs /\ arg[t] \in DOMAIN job[t].args
  BY <1>1 DEF JobInv
<1>5. \A t \in Thread : (pc[t] = "idle") = (job[t] = NoJob)
  BY <1>1, <1>3, <1>4 DEF WorkTypes
<1>6. seen \in [Thread -> Nat]
  <2>1. \A n \in 0 .. Modulus - 1 : n \in Nat
    BY MemObjectsOK
  <2> QED BY <1>1, <2>1 DEF WorkTypes
<1> QED BY <1>1, <1>2, <1>4, <1>5, <1>6 DEF TypeOK, MemTypes, WorkTypes, DataTypes, Mappings

-----------------------------------------------------------------------------
(* Steps keep the invariant.                                               *)

\* The more devices are counted, the fewer are not.
LEMMA UncountedShrinks ==
  ASSUME ctx \subseteq Device, NEW S, NEW T, S \subseteq T
  PROVE  Cardinality(ctx \ T) <= Cardinality(ctx \ S)
<1>1. IsFiniteSet(ctx \ S) /\ ctx \ T \subseteq ctx \ S
  BY ContextFinite
<1> QED BY <1>1, FS_Subset

\* A device that is counted is one less.
LEMMA OneLess ==
  ASSUME ctx \subseteq Device, NEW S, NEW d \in ctx, d \notin S
  PROVE  /\ Cardinality(ctx \ S) > 0
         /\ Cardinality(ctx \ (S \union {d})) = Cardinality(ctx \ S) - 1
<1>1. IsFiniteSet(ctx \ S) /\ d \in ctx \ S /\ Cardinality(ctx \ S) \in Nat
  BY ContextFinite
<1>2. Cardinality((ctx \ S) \ {d}) = Cardinality(ctx \ S) - 1
  BY <1>1, FS_RemoveElement
<1>3. (ctx \ S) \ {d} = ctx \ (S \union {d})
  OBVIOUS
<1>4. Cardinality(ctx \ (S \union {d})) \in Nat
  BY ContextFinite
<1> QED BY <1>1, <1>2, <1>3, <1>4

\* A thread that stays at its argument stays at its target.
LEMMA TargetStays ==
  ASSUME MemTypes, WorkTypes, JobInv, RootsInv, Next, NEW u \in Thread,
         pc[u] # "idle", job'[u] = job[u], arg'[u] = arg[u]
  PROVE  Target(u)' = Target(u) /\ Dev(u)' = Dev(u) /\ ctx' = ctx
<1>1. Arg(u) \in Buffer /\ Exists(Arg(u))
  BY Targets
<1>2. Arg(u)' = Arg(u) /\ Dev(u)' = Dev(u)
  BY DEF Arg, Dev
<1> QED BY <1>1, <1>2, KindsStay DEF Target, Root

\* What another thread does at its own device.
LEMMA OthersKeep ==
  ASSUME OwnDevices, MemTypes, WorkTypes, JobInv, RootsInv,
         NEW t \in Thread, NEW u \in Thread, t # u, Construct(t), pc[u] # "idle"
  PROVE  /\ ptr'[Target(u)][Dev(u)] = ptr[Target(u)][Dev(u)]
         /\ Dev(u) \notin counted[Target(u)] => Dev(u) \notin counted'[Target(u)]
         /\ counted[Target(u)] \subseteq counted'[Target(u)]
<1>1. Target(u) \in Buffer /\ Dev(u) \in Device
  BY Targets
<1>2. CASE Enqueue(t)
  BY <1>2, EnqueueDoes DEF dataVars, countVars
<1>3. CASE CheckAllocated(t) \/ TestData(t) \/ MallocFails(t) \/ CopyIn(t) \/ LoadCount(t)
           \/ TestCount(t) \/ FreeCopy(t)
  BY <1>3 DEF CheckAllocated, TestData, MallocFails, CopyIn, LoadCount, TestCount, FreeCopy,
              dataVars, countVars
<1>4. CASE Malloc(t)
  <2>1. Dev(t) # Dev(u) /\ Target(t) \in Buffer
    BY <1>4, Apart, Targets DEF Malloc, At
  <2>2. ptr' = [ptr EXCEPT ![Target(t)][Dev(t)] = Pointer(Block(Target(t), Dev(t), t), 0)]
        /\ counted' = counted
    BY <1>4 DEF Malloc, countVars
  <2> QED BY <1>1, <2>1, <2>2 DEF MemTypes
<1>5. CASE Decrement(t)
  <2>1. Dev(t) # Dev(u) /\ Target(t) \in Buffer
    BY <1>5, Apart, Targets DEF Decrement, At
  <2>2. counted' = [counted EXCEPT ![Target(t)] = @ \union {Dev(t)}] /\ ptr' = ptr
    BY <1>5 DEF Decrement, dataVars
  <2> QED BY <1>1, <2>1, <2>2 DEF MemTypes
<1> QED BY <1>2, <1>3, <1>4, <1>5 DEF Construct

\* A thread counts its device once, and knows of no count that is too low.
LEMMA AllocNext ==
  ASSUME OwnDevices, MemInv, Next
  PROVE  AllocInv'
<1>1. MemTypes /\ WorkTypes /\ JobInv /\ RootsInv /\ PointerInv /\ AllocInv /\ CountInv
  BY DEF MemInv, PointerInv
<1> SUFFICES ASSUME NEW u \in Thread
             PROVE  /\ pc'[u] \in {"test", "malloc", "copy", "load", "dec"} =>
                         Dev(u)' \notin counted'[Target(u)']
                    /\ pc'[u] = "malloc" => ptr'[Target(u)'][Dev(u)'] = NullPtr
                    /\ pc'[u] \in {"copy", "load", "dec"} => ptr'[Target(u)'][Dev(u)'] # NullPtr
                    /\ pc'[u] = "dec" => seen'[u] >= Cardinality(ctx' \ counted'[Target(u)'])
                    /\ pc'[u] = "free" => ctx' \subseteq counted'[Target(u)']
  BY DEF AllocInv, TargetPtr
<1> DEFINE b == Target(u)
           d == Dev(u)
           Kept == /\ pc'[u] \in {"test", "malloc", "copy", "load", "dec"} => d \notin counted'[b]
                   /\ pc'[u] = "malloc" => ptr'[b][d] = NullPtr
                   /\ pc'[u] \in {"copy", "load", "dec"} => ptr'[b][d] # NullPtr
                   /\ pc'[u] = "dec" => seen'[u] >= Cardinality(ctx \ counted'[b])
                   /\ pc'[u] = "free" => ctx \subseteq counted'[b]
<1>2. CASE pc'[u] \in {"idle", "check", "testCount"}
  BY <1>2
<1>3. ASSUME pc[u] # "idle", job'[u] = job[u], arg'[u] = arg[u], Kept
      PROVE  /\ pc'[u] \in {"test", "malloc", "copy", "load", "dec"} =>
                  Dev(u)' \notin counted'[Target(u)']
             /\ pc'[u] = "malloc" => ptr'[Target(u)'][Dev(u)'] = NullPtr
             /\ pc'[u] \in {"copy", "load", "dec"} => ptr'[Target(u)'][Dev(u)'] # NullPtr
             /\ pc'[u] = "dec" => seen'[u] >= Cardinality(ctx' \ counted'[Target(u)'])
             /\ pc'[u] = "free" => ctx' \subseteq counted'[Target(u)']
  <2>1. Target(u)' = b /\ Dev(u)' = d /\ ctx' = ctx
    BY <1>1, <1>3, TargetStays
  <2> QED BY <1>3, <2>1
<1>4. ASSUME pc[u] # "idle"
      PROVE  b \in Buffer /\ IsRoot(b) /\ d \in ctx /\ d \in Device
  BY <1>1, <1>4, Targets
<1>5. ASSUME pc[u] # "idle", UNCHANGED <<pc[u], job[u], arg[u], seen[u]>>,
             ptr'[b][d] = ptr[b][d], counted[b] \subseteq counted'[b],
             d \notin counted[b] => d \notin counted'[b]
      PROVE  Kept
  <2>1. /\ pc[u] \in {"test", "malloc", "copy", "load", "dec"} => d \notin counted[b]
        /\ pc[u] = "malloc" => ptr[b][d] = NullPtr
        /\ pc[u] \in {"copy", "load", "dec"} => ptr[b][d] # NullPtr
        /\ pc[u] = "dec" => seen[u] >= Cardinality(ctx \ counted[b])
        /\ pc[u] = "free" => ctx \subseteq counted[b]
    BY <1>1 DEF AllocInv, TargetPtr
  <2>2. Cardinality(ctx \ counted'[b]) <= Cardinality(ctx \ counted[b])
    BY <1>1, <1>5, UncountedShrinks DEF MemTypes
  <2>3. Cardinality(ctx \ counted'[b]) \in Nat /\ Cardinality(ctx \ counted[b]) \in Nat
        /\ seen[u] \in Int
    <3>1. \A S : Cardinality(ctx \ S) \in Nat
      BY <1>1, ContextFinite DEF MemTypes
    <3>2. seen[u] \in 0 .. Modulus - 1
      BY <1>1 DEF WorkTypes
    <3>3. seen[u] \in Int
      BY <3>2, MemObjectsOK
    <3>4. Cardinality(ctx \ counted'[b]) \in Nat
      BY <3>1
    <3>5. Cardinality(ctx \ counted[b]) \in Nat
      BY <3>1
    <3> QED BY <3>3, <3>4, <3>5
  <2>4. pc[u] = "dec" => seen[u] >= Cardinality(ctx \ counted'[b])
    BY <2>1, <2>2, <2>3
  <2> QED BY <1>5, <2>1, <2>4
<1>6. ASSUME NEW t \in Thread, Construct(t), t # u, pc'[u] # "idle"
      PROVE  pc[u] # "idle" /\ job'[u] = job[u] /\ arg'[u] = arg[u] /\ Kept
  <2>1. UNCHANGED <<pc[u], job[u], arg[u], seen[u]>>
    BY <1>1, <1>6, ConstructFrame
  <2>2. pc[u] # "idle"
    BY <1>6, <2>1
  <2>3. /\ ptr'[b][d] = ptr[b][d] /\ counted[b] \subseteq counted'[b]
        /\ d \notin counted[b] => d \notin counted'[b]
    BY <1>1, <1>6, <2>2, OthersKeep
  <2> QED BY <1>5, <2>1, <2>2, <2>3
<1>7. ASSUME NEW t \in Thread, Create(t), pc'[u] # "idle"
      PROVE  pc[u] # "idle" /\ job'[u] = job[u] /\ arg'[u] = arg[u] /\ Kept
  <2>1. UNCHANGED <<pc[u], job[u], arg[u], seen[u]>>
    BY <1>7, CreateFrame DEF threadVars
  <2>2. pc[u] # "idle"
    BY <1>7, <2>1
  <2>3. ptr'[b] = ptr[b] /\ counted'[b] = counted[b]
    BY <1>1, <1>4, <1>7, <2>2, CreateKeeps DEF IsRoot, Exists
  <2> QED BY <1>5, <2>1, <2>2, <2>3
<1>8. ASSUME NEW e \in Device, Execute(e), pc'[u] # "idle"
      PROVE  pc[u] # "idle" /\ job'[u] = job[u] /\ arg'[u] = arg[u] /\ Kept
  <2>1. UNCHANGED <<pc[u], job[u], arg[u], seen[u], ptr, counted>>
    BY <1>8, ExecuteFrame DEF threadVars, countVars
  <2>2. pc[u] # "idle"
    BY <1>8, <2>1
  <2> QED BY <1>5, <2>1, <2>2
<1>9. ASSUME Construct(u), pc'[u] \notin {"idle", "check", "testCount"}
      PROVE  pc[u] # "idle" /\ job'[u] = job[u] /\ arg'[u] = arg[u] /\ Kept
  <2>1. ~Enqueue(u) /\ ~MallocFails(u) /\ ~NextArg(u) /\ ~Decrement(u)
    <3>1. ~Enqueue(u)
      BY <1>1, <1>9, EnqueueDoes DEF WorkTypes
    <3>2. ~NextArg(u)
      BY <1>1, <1>9, NextArgDoes
    <3> QED BY <1>1, <1>9, <3>1, <3>2 DEF MallocFails, Decrement, Leave, Go, WorkTypes
  <2>2. CASE CheckAllocated(u)
    <3>1. /\ pc[u] = "check" /\ pc'[u] = "test" /\ ptr[b][d] = NullPtr
          /\ UNCHANGED <<job, arg, seen, ptr, counted>>
      BY <1>1, <2>1, <2>2 DEF CheckAllocated, At, Go, Needed, TargetPtr, WorkTypes, dataVars,
         countVars
    <3>2. d \notin counted[b]
      BY <1>1, <1>4, <3>1 DEF CountInv
    <3> QED BY <3>1, <3>2
  <2>3. CASE TestData(u)
    <3>1. /\ pc[u] = "test" /\ pc'[u] = (IF ptr[b][d] = NullPtr THEN "malloc" ELSE "copy")
          /\ UNCHANGED <<job, arg, seen, ptr, counted>>
      BY <1>1, <2>3 DEF TestData, At, Go, TargetPtr, WorkTypes, dataVars, countVars
    <3>2. d \notin counted[b]
      BY <1>1, <3>1 DEF AllocInv
    <3> QED BY <3>1, <3>2
  <2>4. CASE Malloc(u)
    <3>1. /\ pc[u] = "malloc" /\ pc'[u] = "copy"
          /\ ptr' = [ptr EXCEPT ![b][d] = Pointer(Block(b, d, u), 0)]
          /\ UNCHANGED <<job, arg, seen, counted>>
      BY <1>1, <2>4 DEF Malloc, At, Go, WorkTypes, countVars
    <3>2. d \notin counted[b]
      BY <1>1, <3>1 DEF AllocInv
    <3>3. Pointer(Block(b, d, u), 0) # NullPtr
      BY <1>4, <3>1, BlocksAreSomewhere DEF Pointer, NullPtr
    <3>4. ptr'[b][d] # NullPtr
      BY <1>1, <1>4, <3>1, <3>3 DEF MemTypes
    <3> QED BY <3>1, <3>2, <3>4
  <2>5. CASE CopyIn(u)
    <3>1. /\ pc[u] = "copy" /\ pc'[u] = "load"
          /\ UNCHANGED <<job, arg, seen, ptr, counted>>
      BY <1>1, <2>5 DEF CopyIn, At, Go, WorkTypes, countVars
    <3>2. d \notin counted[b] /\ ptr[b][d] # NullPtr
      BY <1>1, <3>1 DEF AllocInv, TargetPtr
    <3> QED BY <3>1, <3>2
  <2>6. CASE LoadCount(u)
    <3>1. /\ pc[u] = "load" /\ pc'[u] = "dec" /\ seen'[u] = toAllocate[b]
          /\ UNCHANGED <<job, arg, ptr, counted>>
      BY <1>1, <2>6 DEF LoadCount, At, Go, WorkTypes, dataVars, countVars
    <3>2. d \notin counted[b] /\ ptr[b][d] # NullPtr
      BY <1>1, <3>1 DEF AllocInv, TargetPtr
    <3>3. toAllocate[b] >= Cardinality(ctx \ counted[b])
      BY <1>1, <1>4, <3>1 DEF CountInv
    <3> QED BY <3>1, <3>2, <3>3
  <2>7. CASE TestCount(u)
    <3>1. /\ pc[u] = "testCount" /\ pc'[u] = "free" /\ toAllocate[b] = 0
          /\ UNCHANGED <<job, arg, ptr, counted>>
      BY <1>1, <2>1, <2>7 DEF TestCount, LastOne, At, Go, WorkTypes, dataVars, countVars
    <3>2. 0 >= Cardinality(ctx \ counted[b])
      BY <1>1, <1>4, <3>1 DEF CountInv
    <3>3. Cardinality(ctx \ counted[b]) \in Nat /\ IsFiniteSet(ctx \ counted[b])
      BY <1>1, ContextFinite DEF MemTypes
    <3>4. Cardinality(ctx \ counted[b]) = 0
      BY <3>2, <3>3
    <3>5. ctx \ counted[b] = {}
      BY <3>3, <3>4, FS_EmptySet
    <3> QED BY <3>1, <3>5
  <2>8. CASE FreeCopy(u)
    BY <2>1, <2>8 DEF FreeCopy
  <2> QED BY <1>9, <2>1, <2>2, <2>3, <2>4, <2>5, <2>6, <2>7, <2>8 DEF Construct
<1> HIDE DEF Kept
<1> QED BY <1>2, <1>3, <1>6, <1>7, <1>8, <1>9 DEF Next

\* Whoever counts a device leaves the count right or too high.
LEMMA CountNext ==
  ASSUME OwnDevices, MemInv, Next
  PROVE  CountInv'
<1>1. MemTypes /\ WorkTypes /\ JobInv /\ RootsInv /\ PointerInv /\ AllocInv /\ CountInv
  BY DEF MemInv, PointerInv
<1> SUFFICES ASSUME NEW b \in Buffer, kind'[b] \notin {"none", "sub"}
             PROVE  /\ toAllocate'[b] >= Cardinality(ctx' \ counted'[b])
                    /\ \A d \in counted'[b] \intersect ctx' : ptr'[b][d] # NullPtr
                    /\ kind'[b] = "copy" => hostCopy'[b] = "kept" \/ ctx' \subseteq counted'[b]
  BY DEF CountInv, IsRoot
<1> DEFINE Kept == /\ toAllocate'[b] >= Cardinality(ctx' \ counted'[b])
                   /\ \A d \in counted'[b] \intersect ctx' : ptr'[b][d] # NullPtr
                   /\ kind'[b] = "copy" => hostCopy'[b] = "kept" \/ ctx' \subseteq counted'[b]
<1>2. IsRoot(b) => /\ toAllocate[b] >= Cardinality(ctx \ counted[b])
                   /\ \A d \in counted[b] \intersect ctx : ptr[b][d] # NullPtr
                   /\ kind[b] = "copy" => hostCopy[b] = "kept" \/ ctx \subseteq counted[b]
  BY <1>1 DEF CountInv
<1>3. ASSUME NEW t \in Thread, Create(t)
      PROVE  Kept
  <2>1. CASE Exists(b)
    BY <1>1, <1>2, <1>3, <2>1, CreateKeeps DEF Exists, IsRoot
  <2>2. CASE ~Exists(b)
    <3>1. \E k \in Kinds : CreateBuffer(t, b, k)
      <4>1. ASSUME NEW c \in Buffer, NEW k \in Kinds, CreateBuffer(t, c, k)
            PROVE  c = b
        <5>1. kind' = [kind EXCEPT ![c] = k]
          BY <4>1 DEF CreateBuffer
        <5> QED BY <1>1, <2>2, <5>1 DEF MemTypes, Exists
      <4>2. ASSUME NEW c \in Buffer, NEW p \in Buffer, NEW o \in Cells, CreateSubBuffer(t, c, p, o)
            PROVE  FALSE
        <5>1. kind' = [kind EXCEPT ![c] = "sub"]
          BY <4>2 DEF CreateSubBuffer
        <5> QED BY <1>1, <2>2, <5>1 DEF MemTypes, Exists
      <4>3. ~OutOfSpace(t)
        BY <2>2 DEF OutOfSpace, objVars, Exists
      <4> QED BY <1>3, <4>1, <4>2, <4>3 DEF Create
    <3>2. PICK k \in Kinds : CreateBuffer(t, b, k)
      BY <3>1
    <3>3. /\ kind' = [kind EXCEPT ![b] = k] /\ ptr' = [ptr EXCEPT ![b] = InitialPtr(t, b, k)]
          /\ toAllocate' = [toAllocate EXCEPT ![b] = IF Single THEN 0 ELSE Cardinality(ctx)]
          /\ hostCopy' = [hostCopy EXCEPT ![b] = IF k = "copy" /\ ~Single THEN "kept" ELSE "none"]
          /\ counted' = [counted EXCEPT ![b] = IF Single THEN ctx ELSE {}]
          /\ ctx' = ctx
      BY <3>2 DEF CreateBuffer
    <3>4. /\ kind'[b] = k /\ ptr'[b] = InitialPtr(t, b, k)
          /\ toAllocate'[b] = (IF Single THEN 0 ELSE Cardinality(ctx))
          /\ hostCopy'[b] = (IF k = "copy" /\ ~Single THEN "kept" ELSE "none")
          /\ counted'[b] = (IF Single THEN ctx ELSE {})
      BY <1>1, <3>3 DEF MemTypes
    <3>5. CASE Single
      <4>1. ctx \ counted'[b] = {}
        BY <3>4, <3>5
      <4>2. Cardinality(ctx \ counted'[b]) = 0
        BY <4>1, FS_EmptySet
      <4>3. \A d \in ctx : ptr'[b][d] # NullPtr
        BY <1>1, <3>4, <3>5, InitialPointers DEF MemTypes
      <4> QED BY <3>3, <3>4, <3>5, <4>1, <4>2, <4>3
    <3>6. CASE ~Single
      <4>1. ctx \ counted'[b] = ctx /\ counted'[b] = {}
        BY <3>4, <3>6
      <4>2. Cardinality(ctx) \in 0 .. Modulus - 1
        BY <1>1, ContextFinite DEF MemTypes
      <4>3. toAllocate'[b] >= Cardinality(ctx \ counted'[b])
        BY <3>4, <3>6, <4>1, <4>2
      <4> QED BY <3>3, <3>4, <3>6, <4>1, <4>3
    <3> QED BY <3>5, <3>6
  <2> QED BY <2>1, <2>2
<1>4. ASSUME UNCHANGED <<ctx, kind, ptr, countVars>>
      PROVE  Kept
  BY <1>2, <1>4 DEF countVars, IsRoot
<1>5. ASSUME NEW t \in Thread, Construct(t)
      PROVE  Kept
  <2>1. CASE Enqueue(t)
    BY <1>1, <1>4, <2>1, EnqueueDoes DEF objVars, dataVars
  <2>2. CASE CheckAllocated(t) \/ TestData(t) \/ MallocFails(t) \/ CopyIn(t) \/ LoadCount(t)
             \/ TestCount(t)
    BY <1>4, <2>2 DEF CheckAllocated, TestData, MallocFails, CopyIn, LoadCount, TestCount,
                      objVars, dataVars
  <2>3. CASE Malloc(t)
    <3>1. Target(t) \in Buffer /\ Dev(t) \in Device
      BY <1>1, <2>3, Targets DEF Malloc, At
    <3>2. /\ ptr' = [ptr EXCEPT ![Target(t)][Dev(t)] = Pointer(Block(Target(t), Dev(t), t), 0)]
          /\ UNCHANGED <<ctx, kind, toAllocate, hostCopy, counted>>
      BY <2>3 DEF Malloc, objVars, countVars
    <3>3. Pointer(Block(Target(t), Dev(t), t), 0) # NullPtr
      BY <3>1, BlocksAreSomewhere DEF Pointer, NullPtr
    <3>4. \A d \in Device : ptr'[b][d] = ptr[b][d] \/ ptr'[b][d] # NullPtr
      BY <1>1, <3>1, <3>2, <3>3 DEF MemTypes
    <3> QED BY <1>1, <1>2, <3>2, <3>4 DEF IsRoot, MemTypes
  <2>4. CASE Decrement(t)
    <3> DEFINE c == Target(t)
               d == Dev(t)
    <3>1. c \in Buffer /\ d \in ctx /\ IsRoot(c) /\ pc[t] = "dec"
      BY <1>1, <2>4, Targets DEF Decrement, At
    <3>2. /\ toAllocate' = [toAllocate EXCEPT ![c] = (seen[t] + Modulus - 1) % Modulus]
          /\ counted' = [counted EXCEPT ![c] = @ \union {d}]
          /\ UNCHANGED <<ctx, kind, ptr, hostCopy>>
      BY <2>4 DEF Decrement, objVars, dataVars
    <3>3. d \notin counted[c] /\ seen[t] >= Cardinality(ctx \ counted[c]) /\ ptr[c][d] # NullPtr
      BY <1>1, <3>1 DEF AllocInv, TargetPtr
    <3>4. CASE b # c
      BY <1>1, <1>2, <3>2, <3>4 DEF IsRoot, MemTypes
    <3>5. CASE b = c
      <4>1. /\ toAllocate'[b] = (seen[t] + Modulus - 1) % Modulus
            /\ counted'[b] = counted[b] \union {d}
        BY <1>1, <3>1, <3>2, <3>5 DEF MemTypes
      <4>2. /\ Cardinality(ctx \ counted[b]) > 0
            /\ Cardinality(ctx \ (counted[b] \union {d})) = Cardinality(ctx \ counted[b]) - 1
        BY <1>1, <3>1, <3>3, <3>5, OneLess DEF MemTypes
      <4>3. seen[t] \in 0 .. Modulus - 1 /\ Modulus \in Nat
        BY <1>1, MemObjectsOK DEF WorkTypes
      <4>4. Cardinality(ctx \ counted[b]) \in Nat
        BY <1>1, ContextFinite DEF MemTypes
      <4>5. seen[t] > 0
        BY <3>3, <3>5, <4>2, <4>3, <4>4
      <4>6. toAllocate'[b] = seen[t] - 1
        BY <4>1, <4>3, <4>5, Remainder
      <4>7. toAllocate'[b] >= Cardinality(ctx \ counted'[b])
        BY <3>3, <3>5, <4>1, <4>2, <4>3, <4>4, <4>6
      <4> HIDE DEF c, d
      <4> QED BY <1>2, <3>1, <3>2, <3>3, <3>5, <4>1, <4>7
    <3> QED BY <3>4, <3>5
  <2>5. CASE FreeCopy(t)
    <3>1. Target(t) \in Buffer /\ pc[t] = "free"
      BY <1>1, <2>5, Targets DEF FreeCopy, At
    <3>2. /\ hostCopy' = [hostCopy EXCEPT ![Target(t)] = "freed"]
          /\ UNCHANGED <<ctx, kind, ptr, toAllocate, counted>>
      BY <2>5 DEF FreeCopy, objVars, dataVars
    <3>3. ctx \subseteq counted[Target(t)]
      BY <1>1, <3>1 DEF AllocInv
    <3> QED BY <1>1, <1>2, <3>2, <3>3 DEF IsRoot, MemTypes
  <2> QED BY <1>5, <2>1, <2>2, <2>3, <2>4, <2>5 DEF Construct
<1>6. ASSUME NEW d \in Device, Execute(d)
      PROVE  Kept
  BY <1>4, <1>6, ExecuteFrame DEF objVars
<1> HIDE DEF Kept
<1>7. Kept
  BY <1>3, <1>5, <1>6 DEF Next
<1> QED BY <1>7 DEF Kept

\* Pointers that were derived stay right: a root's pointer changes once, from
\* null, when nothing but null was derived from it.
LEMMA PointerNext ==
  ASSUME OwnDevices, MemInv, Next
  PROVE  PointerInv'
<1>1. MemTypes /\ WorkTypes /\ JobInv /\ RootsInv /\ PointerInv /\ AllocInv
  BY DEF MemInv, PointerInv
<1>2. ASSUME UNCHANGED <<ctx, kind, parent, origin, ptr, maps>>
      PROVE  PointerInv'
  BY <1>1, <1>2 DEF PointerInv, RootsInv, AliasesHold, IsRoot, Exists
<1>3. ASSUME NEW t \in Thread, NEW c \in Buffer, NEW k \in Kinds, k # "sub", CreateBuffer(t, c, k)
      PROVE  PointerInv'
  <2>1. /\ kind[c] = "none" /\ kind' = [kind EXCEPT ![c] = k]
        /\ ptr' = [ptr EXCEPT ![c] = InitialPtr(t, c, k)]
        /\ UNCHANGED <<ctx, parent, origin, maps>>
    BY <1>3 DEF CreateBuffer
  <2>2. \A b \in Buffer \ {c} : kind'[b] = kind[b] /\ ptr'[b] = ptr[b]
    BY <1>1, <2>1 DEF MemTypes
  <2>3. kind'[c] = k /\ \A d \in Device : ptr'[c][d] = NullPtr \/ ~Wild(ptr'[c][d])
    BY <1>1, <2>1, InitialPointers DEF MemTypes
  <2>4. \A b \in Buffer : kind'[b] = "sub" => b # c /\ parent[b] # c
    BY <1>1, <1>3, <2>1, <2>2, <2>3 DEF PointerInv, RootsInv, IsRoot
  <2>5. \A m \in maps : m.buffer \in Buffer \ {c}
    BY <1>1, <2>1 DEF PointerInv, RootsInv, Exists
  <2>6. \A b \in Buffer : kind'[b] \notin {"none", "sub"} =>
          \A d \in Device : ptr'[b][d] = NullPtr \/ ~Wild(ptr'[b][d])
    BY <1>1, <2>2, <2>3 DEF PointerInv, RootsInv, IsRoot
  <2>7. \A b \in Buffer : kind'[b] = "sub" =>
          /\ kind'[parent[b]] \notin {"none", "sub"}
          /\ ptr'[b] = ptr[b] /\ ptr'[parent[b]] = ptr[parent[b]] /\ kind[b] = "sub"
    BY <1>1, <2>2, <2>4 DEF PointerInv, RootsInv, IsRoot, MemTypes
  <2>8. \A m \in maps : kind'[m.buffer] # "none" /\ ptr'[m.buffer] = ptr[m.buffer]
    BY <1>1, <2>2, <2>5 DEF PointerInv, RootsInv, Exists
  <2>9. AliasesHold'
    BY <1>1, <2>1, <2>7, <2>8 DEF PointerInv, RootsInv, AliasesHold
  <2> QED BY <1>1, <2>1, <2>6, <2>7, <2>8, <2>9 DEF PointerInv, RootsInv, IsRoot, Exists
<1>4. ASSUME NEW t \in Thread, NEW c \in Buffer, NEW p \in Buffer, NEW o \in Cells,
             CreateSubBuffer(t, c, p, o)
      PROVE  PointerInv'
  <2>1. /\ kind[c] = "none" /\ kind[p] \notin {"none", "sub"} /\ p # c
        /\ kind' = [kind EXCEPT ![c] = "sub"]
        /\ ptr' = [ptr EXCEPT ![c] = SubPtr(p, o)]
        /\ parent' = [parent EXCEPT ![c] = p] /\ origin' = [origin EXCEPT ![c] = o]
        /\ ctx' = ctx /\ maps' = maps
    BY <1>4 DEF CreateSubBuffer
  <2>2. \A b \in Buffer \ {c} : /\ kind'[b] = kind[b] /\ ptr'[b] = ptr[b]
                                /\ parent'[b] = parent[b] /\ origin'[b] = origin[b]
    BY <1>1, <2>1 DEF MemTypes
  <2>3. /\ kind'[c] = "sub" /\ parent'[c] = p /\ origin'[c] = o
        /\ \A d \in ctx : ptr'[c][d] = Plus(ptr[p][d], o)
    BY <1>1, <2>1 DEF MemTypes, SubPtr
  <2>4. \A b \in Buffer \ {c} : kind[b] = "sub" => parent[b] \in Buffer \ {c}
    BY <1>1, <2>1 DEF PointerInv, RootsInv, IsRoot, MemTypes
  <2>5. \A m \in maps : m.buffer \in Buffer \ {c}
    BY <1>1, <2>1 DEF PointerInv, RootsInv, Exists
  <2>6. \A b \in Buffer : kind'[b] \notin {"none", "sub"} =>
          \A d \in Device : ptr'[b][d] = NullPtr \/ ~Wild(ptr'[b][d])
    BY <1>1, <2>2, <2>3 DEF PointerInv, RootsInv, IsRoot
  <2>7. \A b \in Buffer : kind'[b] = "sub" => kind'[parent'[b]] \notin {"none", "sub"}
    BY <1>1, <2>1, <2>2, <2>3, <2>4 DEF PointerInv, RootsInv, IsRoot
  <2>8. \A m \in maps : kind'[m.buffer] # "none" /\ ptr'[m.buffer] = ptr[m.buffer]
    BY <1>1, <2>2, <2>5 DEF PointerInv, RootsInv, Exists
  <2>9. \A b \in Buffer, d \in ctx : kind'[b] = "sub" /\ ~Wild(ptr'[b][d]) =>
          ptr'[b][d] = Plus(ptr'[parent'[b]][d], origin'[b])
    <3> SUFFICES ASSUME NEW b \in Buffer, NEW d \in ctx, kind'[b] = "sub", ~Wild(ptr'[b][d])
                 PROVE  ptr'[b][d] = Plus(ptr'[parent'[b]][d], origin'[b])
      OBVIOUS
    <3>1. CASE b = c
      BY <2>1, <2>2, <2>3, <3>1
    <3>2. CASE b # c
      BY <1>1, <2>2, <2>4, <3>2 DEF PointerInv, RootsInv, AliasesHold
    <3> QED BY <3>1, <3>2
  <2>10. \A m \in maps : ~Wild(m.to) => m.to = Plus(ptr'[m.buffer][m.dev], m.off)
    BY <1>1, <2>8 DEF PointerInv, RootsInv, AliasesHold
  <2> QED BY <1>1, <2>1, <2>6, <2>7, <2>8, <2>9, <2>10 DEF PointerInv, RootsInv, AliasesHold, IsRoot, Exists
<1>5. ASSUME NEW t \in Thread, Create(t)
      PROVE  PointerInv'
  <2>1. CASE \E c \in Buffer, k \in Kinds : CreateBuffer(t, c, k)
    <3>1. PICK c \in Buffer, k \in Kinds : CreateBuffer(t, c, k)
      BY <2>1
    <3>2. k # "sub"
      BY <3>1 DEF CreateBuffer
    <3> QED BY <1>3, <3>1, <3>2
  <2>2. CASE \E c, p \in Buffer, o \in Cells : CreateSubBuffer(t, c, p, o)
    BY <1>4, <2>2
  <2>3. CASE OutOfSpace(t)
    BY <1>2, <2>3 DEF OutOfSpace, objVars, dataVars
  <2> QED BY <1>5, <2>1, <2>2, <2>3 DEF Create
<1>6. ASSUME NEW t \in Thread, NextArg(t), pc[t] # "idle",
             UNCHANGED <<ctx, kind, parent, origin, ptr>>
      PROVE  PointerInv'
  <2> DEFINE m == [buffer |-> Arg(t), dev |-> Dev(t), off |-> job[t].off,
                   to |-> Plus(ptr[Arg(t)][Dev(t)], job[t].off)]
  <2>1. maps' = maps \/ maps' = maps \union {m}
    BY <1>1, <1>6, NextArgDoes
  <2>2. Arg(t) \in Buffer /\ Exists(Arg(t)) /\ Dev(t) \in Device /\ job[t].off \in Nat
    <3>1. Arg(t) \in Buffer /\ Exists(Arg(t)) /\ Dev(t) \in Device
      BY <1>1, <1>6, Targets
    <3>2. job[t].off \in Offsets
      BY <1>1, <1>6 DEF JobInv, Jobs
    <3>3. Offsets \subseteq {0, 1}
      BY MemObjectsOK
    <3>4. job[t].off \in {0, 1}
      BY <3>2, <3>3
    <3> QED BY <3>1, <3>4
  <2>3. /\ m.buffer \in Buffer /\ Exists(m.buffer) /\ m.dev \in Device /\ m.off \in Nat
        /\ m.to = Plus(ptr[m.buffer][m.dev], m.off)
    BY <2>2
  <2> HIDE DEF m
  <2>4. \A x \in maps' : x \in maps \/ x = m
    BY <2>1
  <2> QED BY <1>1, <1>6, <2>3, <2>4 DEF PointerInv, RootsInv, AliasesHold, IsRoot, Exists
<1>7. ASSUME NEW t \in Thread, Malloc(t)
      PROVE  PointerInv'
  <2> DEFINE c == Target(t)
             e == Dev(t)
             q == Pointer(Block(c, e, t), 0)
  <2>1. /\ c \in Buffer /\ e \in Device /\ IsRoot(c) /\ pc[t] = "malloc"
    BY <1>1, <1>7, Targets DEF Malloc, At
  <2>2. /\ ptr' = [ptr EXCEPT ![c][e] = q] /\ UNCHANGED <<ctx, kind, parent, origin, maps>>
    BY <1>7 DEF Malloc, objVars
  <2>3. ptr[c][e] = NullPtr
    BY <1>1, <2>1 DEF AllocInv, TargetPtr
  <2>4. ~Wild(q)
    BY <2>1, BlocksAreSomewhere DEF Pointer, Wild
  <2> HIDE DEF c, e, q
  <2>5. /\ ptr'[c][e] = q
        /\ \A b \in Buffer, d \in Device : b # c \/ d # e => ptr'[b][d] = ptr[b][d]
    BY <1>1, <2>1, <2>2 DEF MemTypes
  <2>6. \A k \in Nat : Wild(Plus(ptr[c][e], k))
    <3>1. NullPtr \in PointerType /\ Wild(NullPtr)
      BY DEF NullPtr, Pointer, PointerType, Wild
    <3> QED BY <2>3, <3>1, PlusFacts
  <2>7. \A b \in Buffer : IsRoot(b) =>
          \A d \in Device : ptr'[b][d] = NullPtr \/ ~Wild(ptr'[b][d])
    BY <1>1, <2>4, <2>5 DEF PointerInv, RootsInv
  <2>8. \A b \in Buffer, d \in ctx : kind[b] = "sub" /\ ~Wild(ptr'[b][d]) =>
          ptr'[b][d] = Plus(ptr'[parent[b]][d], origin[b])
    <3> SUFFICES ASSUME NEW b \in Buffer, NEW d \in ctx, kind[b] = "sub", ~Wild(ptr'[b][d])
                 PROVE  ptr'[b][d] = Plus(ptr'[parent[b]][d], origin[b])
      OBVIOUS
    <3>1. d \in Device /\ origin[b] \in Nat /\ parent[b] \in Buffer
      BY <1>1 DEF MemTypes, Cells
    <3>2. b # c
      BY <2>1 DEF IsRoot
    <3>3. ptr'[b][d] = ptr[b][d] /\ ptr[b][d] = Plus(ptr[parent[b]][d], origin[b])
      BY <1>1, <2>5, <3>1, <3>2 DEF PointerInv, RootsInv, AliasesHold
    <3>4. parent[b] # c \/ d # e
      BY <2>6, <3>1, <3>3
    <3> QED BY <2>5, <3>1, <3>3, <3>4
  <2>9. \A m \in maps : ~Wild(m.to) => m.to = Plus(ptr'[m.buffer][m.dev], m.off)
    <3> SUFFICES ASSUME NEW m \in maps, ~Wild(m.to)
                 PROVE  m.to = Plus(ptr'[m.buffer][m.dev], m.off)
      OBVIOUS
    <3>1. m.buffer \in Buffer /\ m.dev \in Device /\ m.off \in Nat
          /\ m.to = Plus(ptr[m.buffer][m.dev], m.off)
      BY <1>1 DEF PointerInv, RootsInv, AliasesHold
    <3>2. m.buffer # c \/ m.dev # e
      BY <2>6, <3>1
    <3> QED BY <2>5, <3>1, <3>2
  <2> QED BY <1>1, <2>2, <2>7, <2>8, <2>9 DEF PointerInv, RootsInv, AliasesHold, IsRoot, Exists
<1>8. ASSUME NEW t \in Thread, Construct(t)
      PROVE  PointerInv'
  <2>1. CASE Enqueue(t)
    BY <1>1, <1>2, <2>1, EnqueueDoes DEF objVars, dataVars
  <2>2. CASE CheckAllocated(t) \/ TestCount(t) \/ FreeCopy(t)
    BY <1>2, <1>6, <2>2 DEF CheckAllocated, TestCount, FreeCopy, At, objVars, dataVars
  <2>3. CASE TestData(t) \/ MallocFails(t) \/ CopyIn(t) \/ LoadCount(t) \/ Decrement(t)
    BY <1>2, <2>3 DEF TestData, MallocFails, CopyIn, LoadCount, Decrement, objVars, dataVars
  <2> QED BY <1>7, <1>8, <2>1, <2>2, <2>3 DEF Construct
<1>9. ASSUME NEW d \in Device, Execute(d)
      PROVE  PointerInv'
  BY <1>2, <1>9, ExecuteFrame DEF objVars
<1> QED BY <1>5, <1>8, <1>9 DEF Next

\* The invariant holds at the start.
LEMMA MemInit ==
  ASSUME Init
  PROVE  MemInv
<1>1. NullPtr \in PointerType
  BY DEF NullPtr, Pointer, PointerType
<1>2. Modulus \in Nat /\ 0 \in 0 .. Modulus - 1
  <2>1. IsFiniteSet(Device) /\ Cardinality(Device) < Modulus /\ Modulus \in Nat
    BY MemObjectsOK
  <2>2. Cardinality(Device) \in Nat
    BY <2>1, FS_CardinalityType
  <2> QED BY <2>1, <2>2
<1>3. MemTypes
  BY <1>1, <1>2 DEF Init, MemTypes, Cells
<1>4. WorkTypes
  BY <1>2 DEF Init, WorkTypes, Places
<1>5. JobInv /\ AllocInv
  BY DEF Init, JobInv, AllocInv
<1>6. CountInv /\ PointerInv
  BY DEF Init, CountInv, PointerInv, RootsInv, AliasesHold, IsRoot
<1> QED BY <1>3, <1>4, <1>5, <1>6 DEF MemInv

\* Stuttering changes nothing of it.
LEMMA MemStutter ==
  ASSUME MemInv, UNCHANGED vars
  PROVE  MemInv'
<1>1. UNCHANGED <<ctx, kind, parent, origin, ptr, toAllocate, hostCopy, counted, maps, made,
                  pc, job, arg, seen>>
  BY DEF vars, objVars, dataVars, countVars, threadVars
<1>2. MemTypes' /\ WorkTypes'
  BY <1>1 DEF MemInv, MemTypes, WorkTypes
<1>3. JobInv' /\ CountInv'
  BY <1>1 DEF MemInv, JobInv, CountInv, IsRoot, Exists, Dev
<1>4. AllocInv'
  BY <1>1 DEF MemInv, AllocInv, TargetPtr, Target, Root, Arg, Dev
<1>5. PointerInv'
  BY <1>1 DEF MemInv, PointerInv, RootsInv, AliasesHold, IsRoot, Exists
<1> QED BY <1>2, <1>3, <1>4, <1>5 DEF MemInv

\* Every step keeps it.
LEMMA MemNext ==
  ASSUME OwnDevices, MemInv, Next
  PROVE  MemInv'
<1>1. MemTypes' /\ WorkTypes' /\ JobInv'
  BY MemTypesNext, WorkTypesNext, JobNext DEF MemInv, PointerInv
<1>2. AllocInv' /\ CountInv' /\ PointerInv'
  BY AllocNext, CountNext, PointerNext
<1> QED BY <1>1, <1>2 DEF MemInv

-----------------------------------------------------------------------------
(* What is read: the memory of a buffer on a device holds what the         *)
(* commands there have written, unless a thread is about to fill it.       *)

\* Nothing in the code asks for this one either: the workers leave it out.
NoOffsets == Offsets \subseteq {0}

\* The buffers of queued commands have memory, and so have those that a thread
\* is done with.
QueuedInv ==
  /\ \A d \in Device : \A c \in Queued(d) :
       d \in ctx /\ \A i \in DOMAIN c.args : IsRoot(c.args[i]) => ptr[c.args[i]][d] # NullPtr
  /\ \A t \in Thread : pc[t] # "idle" =>
       \A i \in DOMAIN job[t].args :
         i < arg[t] /\ IsRoot(job[t].args[i]) => ptr[job[t].args[i]][Dev(t)] # NullPtr
  /\ \A t \in Thread : pc[t] \in {"testCount", "free"} => TargetPtr(t) # NullPtr

\* What a thread allocates has no memory of the host, and the commands that the
\* device has for it are on pointers that will never be right.
FillInv == \A t \in Thread :
  /\ pc[t] \in {"test", "malloc"} => TargetPtr(t) = NullPtr
  /\ pc[t] \in {"test", "malloc", "copy"} =>
       /\ kind[Target(t)] # "host"
       /\ \A c \in Queued(Dev(t)) : \A i \in DOMAIN c.args :
            Root(c.args[i]) = Target(t) => Wild(ptr[c.args[i]][Dev(t)])

Filling(b, d) == \E t \in Thread : pc[t] = "copy" /\ Target(t) = b /\ Dev(t) = d

\* Every device has a block of its own of a buffer, or all have the host's.
BlockInv == \A b \in Buffer : IsRoot(b) => \A d \in Device : ptr[b][d] # NullPtr =>
  /\ d \in ctx
  /\ kind[b] = "host" => ptr[b][d].block = HostBlock(b)
  /\ kind[b] # "host" => \E t \in Thread : ptr[b][d].block = Block(b, d, t)

\* Memory of the host program is there for every device and what one device
\* writes the others see.
HostInv == \A b \in Buffer : kind[b] = "host" =>
  /\ \A d \in ctx : ptr[b][d] # NullPtr
  /\ \A d, e \in Device : expect[b][d] = expect[b][e]

Matches(b, d) ==
  /\ ptr[b][d] # NullPtr /\ ~Filling(b, d) =>
       \A k \in Cells : expect[b][d][k] # 0 => mem[ptr[b][d].block][k] = expect[b][d][k]
  /\ ptr[b][d] = NullPtr \/ Filling(b, d) => expect[b][d] = InitialData(kind[b])

\* Memory that is filled holds what it should; what is not yet filled will be
\* filled with what it should.
MatchInv == \A b \in Buffer : IsRoot(b) => \A d \in ctx : Matches(b, d)

ReadInv == MemInv /\ TypeInv /\ QueuedInv /\ FillInv /\ BlockInv /\ HostInv /\ MatchInv

\* The pointer of a sub-buffer never changes, that of a root only from null.
LEMMA PointerOnce ==
  ASSUME MemInv, Next, NEW b \in Buffer, NEW d \in Device, Exists(b),
         IsRoot(b) => ptr[b][d] # NullPtr
  PROVE  ptr'[b][d] = ptr[b][d]
<1>1. MemTypes /\ WorkTypes /\ JobInv /\ RootsInv /\ AllocInv
  BY DEF MemInv, PointerInv
<1>2. ASSUME NEW t \in Thread, Create(t)
      PROVE  ptr'[b] = ptr[b]
  BY <1>1, <1>2, CreateKeeps
<1>3. ASSUME NEW t \in Thread, Malloc(t)
      PROVE  ptr'[b][d] = ptr[b][d]
  <2>1. Target(t) \in Buffer /\ Dev(t) \in Device /\ IsRoot(Target(t)) /\ pc[t] = "malloc"
    BY <1>1, <1>3, Targets DEF Malloc, At
  <2>2. ptr[Target(t)][Dev(t)] = NullPtr
    BY <1>1, <2>1 DEF AllocInv, TargetPtr
  <2>3. b # Target(t) \/ d # Dev(t)
    BY <2>1, <2>2
  <2>4. ptr' = [ptr EXCEPT ![Target(t)][Dev(t)] = Pointer(Block(Target(t), Dev(t), t), 0)]
    BY <1>3 DEF Malloc
  <2> QED BY <1>1, <2>1, <2>3, <2>4 DEF MemTypes
<1>4. ASSUME NEW t \in Thread, Construct(t), ~Malloc(t)
      PROVE  ptr' = ptr
  BY <1>4 DEF Construct, Enqueue, CheckAllocated, TestData, MallocFails, CopyIn, LoadCount,
              Decrement, TestCount, FreeCopy, dataVars
<1>5. ASSUME NEW e \in Device, Execute(e)
      PROVE  ptr' = ptr
  BY <1>5, ExecuteFrame
<1> QED BY <1>2, <1>3, <1>4, <1>5 DEF Next

\* A thread goes on to its next argument when this one has memory.
LEMMA DoneArg ==
  ASSUME MemInv, QueuedInv, NEW t \in Thread, NextArg(t),
         CheckAllocated(t) \/ TestCount(t) \/ FreeCopy(t)
  PROVE  /\ pc[t] # "idle" /\ UNCHANGED <<objVars, dataVars>>
         /\ IsRoot(Arg(t)) => ptr[Arg(t)][Dev(t)] # NullPtr
<1>1. MemTypes /\ WorkTypes /\ JobInv /\ RootsInv
  BY DEF MemInv, PointerInv
<1>2. pc[t] # "idle" /\ UNCHANGED <<objVars, dataVars>>
  BY DEF CheckAllocated, TestCount, FreeCopy, At
<1>3. pc'[t] \in {"check", "idle"}
  BY <1>1, NextArgDoes
<1>4. ASSUME IsRoot(Arg(t))
      PROVE  Target(t) = Arg(t)
  BY <1>4 DEF Target, Root, IsRoot
<1>5. CASE CheckAllocated(t)
  <2>1. ~Needed(t)
    BY <1>1, <1>3, <1>5 DEF CheckAllocated, Go, WorkTypes
  <2> QED BY <1>2, <1>4, <2>1 DEF Needed, TargetPtr
<1>6. CASE TestCount(t) \/ FreeCopy(t)
  <2>1. pc[t] \in {"testCount", "free"}
    BY <1>6 DEF TestCount, FreeCopy, At
  <2>2. TargetPtr(t) # NullPtr
    BY <2>1 DEF QueuedInv
  <2> QED BY <1>2, <1>4, <2>2 DEF TargetPtr
<1> QED BY <1>5, <1>6

\* Commands that are queued have the memory they need.
LEMMA QueuedInvNext ==
  ASSUME MemInv, TypeInv, QueuedInv, Next, OwnDevices
  PROVE  QueuedInv'
<1>1. MemTypes /\ WorkTypes /\ JobInv /\ RootsInv /\ DataTypes /\ AllocInv /\ RangeInv
  BY DEF MemInv, PointerInv, TypeInv
<1>2. ASSUME NEW c \in Jobs, NEW d \in ctx, NEW i \in DOMAIN c.args, Exists(c.args[i]),
             IsRoot(c.args[i]) => ptr[c.args[i]][d] # NullPtr, kind'[c.args[i]] \notin {"none", "sub"}
      PROVE  ptr'[c.args[i]][d] # NullPtr
  <2>1. c.args[i] \in Buffer /\ d \in Device
    BY <1>1 DEF Jobs, MemTypes
  <2>2. kind'[c.args[i]] = kind[c.args[i]]
    BY <1>1, <1>2, <2>1, KindsStay
  <2>3. IsRoot(c.args[i])
    BY <1>2, <2>2 DEF IsRoot
  <2> QED BY <1>2, <2>1, <2>3, PointerOnce
<1>3. ASSUME NEW d \in Device, NEW c \in Queued(d)'
      PROVE  /\ d \in ctx'
             /\ \A i \in DOMAIN c.args : IsRoot(c.args[i])' => ptr'[c.args[i]][d] # NullPtr
  <2>1. /\ c \in Jobs /\ InRange(c) /\ d \in ctx
        /\ \A i \in DOMAIN c.args : IsRoot(c.args[i]) => ptr[c.args[i]][d] # NullPtr
    <3>1. CASE c \in Queued(d)
      <4>1. Queued(d) \subseteq Jobs
        BY <1>1 DEF DataTypes, Queued
      <4> QED BY <1>1, <3>1, <4>1 DEF QueuedInv, RangeInv
    <3>2. CASE c \notin Queued(d)
      <4>1. PICK t \in Thread :
                 /\ CheckAllocated(t) \/ TestCount(t) \/ FreeCopy(t)
                 /\ NextArg(t) /\ pc[t] # "idle" /\ Dev(t) = d
                 /\ arg[t] >= Len(job[t].args)
                 /\ Queued(d)' \subseteq Queued(d) \union {job[t]}
        BY <1>1, <1>3, <3>2, QueuedNext
      <4>2. c = job[t]
        BY <1>3, <3>2, <4>1
      <4>3. InRange(job[t]) /\ job[t] \in Jobs /\ d \in ctx
        BY <1>1, <4>1 DEF RangeInv, JobInv
      <4>4. IsRoot(Arg(t)) => ptr[Arg(t)][Dev(t)] # NullPtr
        BY <4>1, DoneArg
      <4>5. ASSUME NEW i \in DOMAIN job[t].args, IsRoot(job[t].args[i])
            PROVE  ptr[job[t].args[i]][d] # NullPtr
        <5>1. CASE i = arg[t]
          BY <4>1, <4>4, <4>5, <5>1 DEF Arg
        <5>2. CASE i < arg[t]
          BY <4>1, <4>5, <5>2 DEF QueuedInv
        <5>3. i <= arg[t] /\ i \in Nat /\ arg[t] \in Nat
          BY <1>1, <4>1, <4>3, <4>5 DEF WorkTypes, Jobs
        <5> QED BY <5>1, <5>2, <5>3
      <4> QED BY <4>2, <4>3, <4>5
    <3> QED BY <3>1, <3>2
  <2>2. \A i \in DOMAIN c.args : Exists(c.args[i]) /\ c.args[i] \in Buffer
    BY <2>1 DEF InRange, Jobs
  <2>3. 1 \in DOMAIN c.args
    BY <2>1 DEF InRange
  <2>4. ctx' = ctx
    BY <1>1, <2>2, <2>3, KindsStay
  <2> QED BY <1>2, <2>1, <2>2, <2>4 DEF IsRoot
<1>4. ASSUME NEW u \in Thread, pc'[u] # "idle", NEW i \in DOMAIN job'[u].args, i < arg'[u],
             kind'[job'[u].args[i]] \notin {"none", "sub"}
      PROVE  ptr'[job'[u].args[i]][job'[u].dev] # NullPtr
  <2>1. CASE Enqueue(u)
    <3>1. arg'[u] = 1
      BY <1>1, <2>1, EnqueueDoes
    <3>2. job'[u] \in Jobs
      <4>1. JobInv'
        BY <1>1, JobNext
      <4> QED BY <1>4, <4>1 DEF JobInv
    <3> QED BY <1>4, <3>1, <3>2 DEF Jobs
  <2>2. CASE pc[u] # "idle" /\ job'[u] = job[u]
    <3>1. PICK c \in Jobs : c = job[u]
      BY <1>1, <2>2 DEF JobInv
    <3>2. Dev(u) \in ctx /\ Dev(u) = c.dev /\ i \in DOMAIN c.args /\ Exists(c.args[i])
      BY <1>1, <1>4, <2>2, <3>1 DEF JobInv, Dev
    <3>3. ASSUME IsRoot(c.args[i])
          PROVE  ptr[c.args[i]][c.dev] # NullPtr
      <4>1. CASE i < arg[u]
        BY <2>2, <3>1, <3>2, <3>3, <4>1 DEF QueuedInv
      <4>2. CASE ~(i < arg[u])
        <5>1. arg'[u] # arg[u]
          BY <1>4, <4>2
        <5>2. Construct(u)
          BY <1>1, <5>1, Moves
        <5>3. CASE CheckAllocated(u) \/ TestCount(u) \/ FreeCopy(u)
          <6>1. NextArg(u) \/ arg' = arg
            BY <5>3 DEF CheckAllocated, TestCount, FreeCopy
          <6>2. NextArg(u)
            BY <5>1, <6>1
          <6>3. arg'[u] = arg[u] + 1
            BY <1>1, <1>4, <6>2, NextArgDoes
          <6>4. i = arg[u]
            <7>1. i \in Nat /\ arg[u] \in Nat
              BY <1>1, <3>2 DEF WorkTypes, Jobs
            <7> QED BY <1>4, <4>2, <6>3, <7>1
          <6>5. IsRoot(Arg(u)) => ptr[Arg(u)][Dev(u)] # NullPtr
            BY <5>3, <6>2, DoneArg
          <6>6. Arg(u) = c.args[i]
            BY <3>1, <6>4 DEF Arg
          <6> QED BY <3>2, <3>3, <6>5, <6>6
        <5>4. CASE TestData(u) \/ Malloc(u) \/ CopyIn(u) \/ LoadCount(u) \/ Decrement(u)
          BY <5>1, <5>4 DEF TestData, Malloc, CopyIn, LoadCount, Decrement
        <5>5. CASE Enqueue(u) \/ MallocFails(u)
          BY <1>1, <1>4, <2>2, <5>5 DEF Enqueue, MallocFails, Leave, Go, WorkTypes
        <5> QED BY <5>2, <5>3, <5>4, <5>5 DEF Construct
      <4> QED BY <4>1, <4>2
    <3>4. kind'[c.args[i]] \notin {"none", "sub"}
      BY <1>4, <2>2, <3>1
    <3>5. ptr'[c.args[i]][c.dev] # NullPtr
      BY <1>2, <3>2, <3>3, <3>4
    <3> QED BY <2>2, <3>1, <3>5
  <2> QED BY <1>1, <1>4, <2>1, <2>2, JobKept
<1>5. ASSUME NEW u \in Thread, pc'[u] \in {"testCount", "free"}
      PROVE  TargetPtr(u)' # NullPtr
  <2>1. pc[u] # "idle" /\ job'[u] = job[u] /\ arg'[u] = arg[u] /\ TargetPtr(u) # NullPtr
    <3>1. CASE UNCHANGED <<pc[u], job[u], arg[u]>>
      BY <1>5, <3>1 DEF QueuedInv
    <3>2. CASE Decrement(u)
      BY <1>1, <3>2 DEF Decrement, At, AllocInv
    <3>3. CASE TestCount(u)
      <4>1. ~NextArg(u)
        BY <1>1, <1>5, NextArgDoes
      <4>2. pc[u] = "testCount" /\ UNCHANGED <<job, arg>>
        BY <3>3, <4>1 DEF TestCount, At
      <4> QED BY <4>2 DEF QueuedInv
    <3>4. CASE CheckAllocated(u) \/ FreeCopy(u)
      <4>1. ~NextArg(u)
        BY <1>1, <1>5, NextArgDoes
      <4> QED BY <1>1, <1>5, <3>4, <4>1 DEF CheckAllocated, FreeCopy, Go, WorkTypes
    <3>5. CASE Enqueue(u) \/ TestData(u) \/ Malloc(u) \/ MallocFails(u) \/ CopyIn(u)
               \/ LoadCount(u)
      BY <1>1, <1>5, <3>5 DEF Enqueue, TestData, Malloc, MallocFails, CopyIn, LoadCount, Leave, Go,
                              WorkTypes
    <3> QED BY <1>1, <3>1, <3>2, <3>3, <3>4, <3>5, Moves DEF Construct
  <2>2. Target(u)' = Target(u) /\ Dev(u)' = Dev(u)
    BY <1>1, <2>1, TargetStays
  <2>3. Target(u) \in Buffer /\ IsRoot(Target(u)) /\ Dev(u) \in Device
    BY <1>1, <2>1, Targets
  <2>4. ptr'[Target(u)][Dev(u)] = ptr[Target(u)][Dev(u)]
    BY <2>1, <2>3, PointerOnce DEF TargetPtr, IsRoot, Exists
  <2> QED BY <2>1, <2>2, <2>4 DEF TargetPtr
<1>6. \A u \in Thread : Dev(u)' = job'[u].dev
  BY DEF Dev
<1> QED BY <1>3, <1>4, <1>5, <1>6 DEF QueuedInv, IsRoot

\* No queued command has a right pointer to what a thread is about to allocate.
LEMMA NeededFacts ==
  ASSUME MemInv, TypeInv, QueuedInv, HostInv, NEW t \in Thread, pc[t] # "idle",
         TargetPtr(t) = NullPtr
  PROVE  /\ kind[Target(t)] # "host"
         /\ \A c \in Queued(Dev(t)) : \A i \in DOMAIN c.args :
              Root(c.args[i]) = Target(t) => Wild(ptr[c.args[i]][Dev(t)])
<1>1. MemTypes /\ JobInv /\ RootsInv /\ DataTypes /\ RangeInv /\ PointerInv
  BY DEF MemInv, PointerInv, TypeInv
<1>2. Target(t) \in Buffer /\ IsRoot(Target(t)) /\ Dev(t) \in ctx /\ Dev(t) \in Device
  BY <1>1, Targets
<1>3. kind[Target(t)] # "host"
  BY <1>2 DEF HostInv, TargetPtr
<1>4. ASSUME NEW c \in Queued(Dev(t)), NEW i \in DOMAIN c.args, Root(c.args[i]) = Target(t)
      PROVE  Wild(ptr[c.args[i]][Dev(t)])
  <2> DEFINE a == c.args[i]
             d == Dev(t)
  <2>1. c \in Jobs /\ InRange(c)
    BY <1>1, <1>2 DEF DataTypes, Queued, RangeInv
  <2>2. a \in Buffer /\ Exists(a)
    BY <2>1 DEF Jobs, InRange
  <2>3. IsRoot(a) => ptr[a][d] # NullPtr
    BY <1>2 DEF QueuedInv
  <2> HIDE DEF a, d
  <2>4. Root(a) = Target(t) /\ ptr[Target(t)][d] = NullPtr /\ d \in ctx /\ d \in Device
    BY <1>2, <1>4 DEF a, d, TargetPtr
  <2>5. kind[a] = "sub" /\ parent[a] = Target(t)
    BY <2>2, <2>3, <2>4 DEF Root, IsRoot, Exists
  <2>6. NullPtr \in PointerType /\ Wild(NullPtr) /\ origin[a] \in Nat
    BY <1>1, <2>2 DEF NullPtr, Pointer, PointerType, Wild, MemTypes, Cells
  <2>7. Wild(Plus(NullPtr, origin[a]))
    BY <2>6, PlusFacts
  <2>8. Wild(ptr[a][d])
    BY <1>1, <2>2, <2>4, <2>5, <2>7 DEF PointerInv, AliasesHold
  <2> QED BY <2>8 DEF a, d
<1> QED BY <1>3, <1>4

\* It stays so while the thread allocates.
LEMMA FillInvNext ==
  ASSUME OwnDevices, MemInv, TypeInv, QueuedInv, HostInv, FillInv, Next
  PROVE  FillInv'
<1>1. MemTypes /\ WorkTypes /\ JobInv /\ RootsInv /\ DataTypes /\ RangeInv
  BY DEF MemInv, PointerInv, TypeInv
<1> SUFFICES ASSUME NEW u \in Thread, pc'[u] \in {"test", "malloc", "copy"}
             PROVE  /\ pc'[u] \in {"test", "malloc"} => TargetPtr(u)' = NullPtr
                    /\ kind'[Target(u)'] # "host"
                    /\ \A c \in Queued(Dev(u))' : \A i \in DOMAIN c.args :
                         Root(c.args[i])' = Target(u)' => Wild(ptr[c.args[i]][Dev(u)])'
  BY DEF FillInv
<1>2. ASSUME Construct(u)
      PROVE  /\ pc[u] # "idle" /\ job'[u] = job[u] /\ arg'[u] = arg[u] /\ cmds' = cmds
             /\ \/ TargetPtr(u) = NullPtr /\ ptr' = ptr
                \/ TargetPtr(u) = NullPtr /\ pc[u] = "malloc" /\ pc'[u] = "copy"
  <2>1. CASE CheckAllocated(u)
    <3>1. ~NextArg(u)
      BY <1>1, NextArgDoes
    <3> QED BY <2>1, <3>1 DEF CheckAllocated, Needed, At, dataVars
  <2>2. CASE TestData(u)
    <3>1. pc[u] = "test"
      BY <2>2 DEF TestData, At
    <3> QED BY <2>2, <3>1 DEF TestData, FillInv, dataVars
  <2>3. CASE Malloc(u)
    <3>1. pc[u] = "malloc" /\ pc'[u] = "copy" /\ UNCHANGED <<job, arg, cmds>>
      BY <1>1, <2>3 DEF Malloc, At, Go, WorkTypes
    <3> QED BY <3>1 DEF FillInv
  <2>4. CASE TestCount(u) \/ FreeCopy(u)
    <3>1. ~NextArg(u)
      BY <1>1, NextArgDoes
    <3> QED BY <1>1, <2>4, <3>1 DEF TestCount, FreeCopy, Go, WorkTypes
  <2>5. CASE Enqueue(u) \/ MallocFails(u) \/ CopyIn(u) \/ LoadCount(u) \/ Decrement(u)
    BY <1>1, <2>5 DEF Enqueue, MallocFails, CopyIn, LoadCount, Decrement, Leave, Go, WorkTypes
  <2> QED BY <1>2, <2>1, <2>2, <2>3, <2>4, <2>5 DEF Construct
<1>3. pc[u] # "idle" /\ job'[u] = job[u] /\ arg'[u] = arg[u]
  BY <1>1, <1>2, Moves
<1>4. PICK b \in Buffer, d \in Device : b = Target(u) /\ d = Dev(u) /\ IsRoot(b) /\ d \in ctx
  BY <1>1, <1>3, Targets
<1>5. Target(u)' = b /\ Dev(u)' = d
  BY <1>1, <1>3, <1>4, TargetStays
<1>6. /\ kind[b] # "host"
      /\ \A c \in Queued(d) : \A i \in DOMAIN c.args : Root(c.args[i]) = b => Wild(ptr[c.args[i]][d])
  <2>1. CASE TargetPtr(u) = NullPtr
    BY <1>3, <1>4, <2>1, NeededFacts
  <2>2. CASE pc'[u] = pc[u]
    BY <1>4, <2>2 DEF FillInv
  <2> QED BY <1>1, <1>2, <2>1, <2>2, Moves
<1>7. Queued(d)' \subseteq Queued(d)
  <2>1. CASE Construct(u)
    BY <1>2, <2>1 DEF Queued
  <2>2. CASE ~Construct(u)
    <3> SUFFICES ASSUME NEW t \in Thread,
                        CheckAllocated(t) \/ TestCount(t) \/ FreeCopy(t),
                        NextArg(t), pc[t] # "idle", Dev(t) = d
                 PROVE  FALSE
      BY <1>1, QueuedNext
    <3>1. t = u
      BY <1>1, <1>3, <1>4, Apart
    <3> QED BY <2>2, <3>1 DEF Construct
  <2> QED BY <2>1, <2>2
<1>8. ASSUME pc'[u] \in {"test", "malloc"}
      PROVE  ptr'[b][d] = NullPtr
  <2>1. CASE Construct(u)
    BY <1>2, <1>4, <1>8, <2>1 DEF TargetPtr
  <2>2. CASE ~Construct(u)
    <3>1. ptr[b][d] = NullPtr
      BY <1>1, <1>4, <1>8, <2>2, Moves DEF FillInv, TargetPtr
    <3>2. ASSUME NEW t \in Thread, Create(t)
          PROVE  ptr'[b] = ptr[b]
      BY <1>1, <1>4, <3>2, CreateKeeps DEF IsRoot, Exists
    <3>3. ASSUME NEW t \in Thread, Construct(t)
          PROVE  ptr'[b][d] = ptr[b][d]
      BY <1>1, <1>3, <1>4, <2>2, <3>3, OthersKeep
    <3>4. ASSUME NEW e \in Device, Execute(e)
          PROVE  ptr' = ptr
      BY <3>4, ExecuteFrame
    <3> QED BY <3>1, <3>2, <3>3, <3>4 DEF Next
  <2> QED BY <2>1, <2>2
<1>9. kind'[b] = kind[b]
  BY <1>1, <1>4, KindsStay DEF IsRoot, Exists
<1>10. ASSUME NEW c \in Queued(d), NEW i \in DOMAIN c.args,
              (IF kind'[c.args[i]] = "sub" THEN parent'[c.args[i]] ELSE c.args[i]) = b
       PROVE  Wild(ptr'[c.args[i]][d])
  <2>1. c \in Jobs /\ InRange(c)
    <3>1. Queued(d) \subseteq Jobs
      BY <1>1, <1>4 DEF DataTypes, Queued
    <3> QED BY <1>1, <1>4, <3>1 DEF RangeInv
  <2>2. c.args[i] \in Buffer /\ Exists(c.args[i])
    BY <2>1 DEF Jobs, InRange
  <2>3. kind'[c.args[i]] = kind[c.args[i]] /\ parent'[c.args[i]] = parent[c.args[i]]
    BY <1>1, <2>2, KindsStay
  <2>4. Wild(ptr[c.args[i]][d])
    BY <1>6, <1>10, <2>3 DEF Root
  <2>5. IsRoot(c.args[i]) => ptr[c.args[i]][d] # NullPtr
    BY <1>4 DEF QueuedInv
  <2>6. ptr'[c.args[i]][d] = ptr[c.args[i]][d]
    BY <1>4, <2>2, <2>5, PointerOnce
  <2> QED BY <2>4, <2>6
<1>11. Queued(Dev(u))' \subseteq Queued(d)
  BY <1>5, <1>7 DEF Queued
<1>12. \A c \in Queued(d) : \A i \in DOMAIN c.args :
         Root(c.args[i])' = b => Wild(ptr[c.args[i]][Dev(u)])'
  BY <1>5, <1>10 DEF Root, Wild
<1> QED BY <1>4, <1>5, <1>6, <1>8, <1>9, <1>11, <1>12 DEF TargetPtr

\* A pointer that a queued command can use is in the block of its root, which
\* nobody is about to fill.
LEMMA ArgPointer ==
  ASSUME ReadInv, NEW d \in Device, NEW c \in Queued(d), NEW i \in DOMAIN c.args,
         ~Wild(ptr[c.args[i]][d])
  PROVE  LET a == c.args[i]
             r == Root(a)
         IN  /\ c \in Jobs /\ InRange(c) /\ d \in ctx /\ a \in Buffer /\ r \in Buffer /\ IsRoot(r)
             /\ ptr[r][d] # NullPtr /\ ~Filling(r, d)
             /\ ptr[a][d].block = ptr[r][d].block /\ ptr[a][d].off = origin[a]
<1>1. /\ MemTypes /\ JobInv /\ RootsInv /\ DataTypes /\ RangeInv /\ PointerInv
      /\ QueuedInv /\ FillInv
  BY DEF ReadInv, MemInv, PointerInv, TypeInv
<1>2. PICK a \in Buffer : a = c.args[i] /\ c \in Jobs /\ InRange(c) /\ d \in ctx /\ Exists(a)
  <2>1. Queued(d) \subseteq Jobs
    BY <1>1 DEF DataTypes, Queued
  <2>2. c \in Jobs /\ InRange(c) /\ d \in ctx
    BY <1>1, <2>1 DEF RangeInv, QueuedInv
  <2> QED BY <2>2 DEF Jobs, InRange
<1>3. PICK r \in Buffer : r = Root(a) /\ IsRoot(r)
  BY <1>1, <1>2 DEF Root, MemTypes, RootsInv, IsRoot, Exists
<1>4. NullPtr \in PointerType /\ Wild(NullPtr) /\ origin[a] \in Nat /\ ptr[r][d] \in PointerType
  BY <1>1 DEF NullPtr, Pointer, PointerType, Wild, MemTypes, Cells
<1>5. ptr[r][d].off = 0 /\ (kind[a] # "sub" => origin[a] = 0)
  BY <1>1, <1>3 DEF RangeInv, IsRoot
<1>6. /\ ptr[r][d] # NullPtr /\ ptr[a][d].block = ptr[r][d].block /\ ptr[a][d].off = origin[a]
  <2>1. CASE kind[a] = "sub"
    <3>1. ptr[a][d] = Plus(ptr[r][d], origin[a])
      BY <1>1, <1>2, <1>3, <2>1 DEF PointerInv, AliasesHold, Root
    <3>2. ptr[r][d] # NullPtr
      BY <1>2, <1>4, <3>1, PlusFacts
    <3>3. Plus(ptr[r][d], origin[a]).block = ptr[r][d].block
          /\ Plus(ptr[r][d], origin[a]).off = ptr[r][d].off + origin[a]
      BY <1>4 DEF Plus, PointerType
    <3> QED BY <1>4, <1>5, <3>1, <3>2, <3>3
  <2>2. CASE kind[a] # "sub"
    <3>1. r = a
      BY <1>3, <2>2 DEF Root
    <3> QED BY <1>2, <1>4, <1>5, <2>2, <3>1
  <2> QED BY <2>1, <2>2
<1>7. ~Filling(r, d)
  <2> SUFFICES ASSUME NEW t \in Thread, pc[t] = "copy", Target(t) = r, Dev(t) = d
               PROVE  FALSE
    BY DEF Filling
  <2>1. \A e \in Queued(Dev(t)) : \A k \in DOMAIN e.args :
          Root(e.args[k]) = Target(t) => Wild(ptr[e.args[k]][Dev(t)])
    BY <1>1 DEF FillInv
  <2> QED BY <1>2, <1>3, <2>1
<1> QED BY <1>2, <1>3, <1>6, <1>7

\* A read finds what should be there.
LEMMA ReadsMatch ==
  ASSUME ReadInv, NoOffsets, NEW d \in Device, NEW c \in Queued(d), NEW i \in DOMAIN c.args,
         ~Wild(ptr[c.args[i]][d]), NEW k \in 0 .. c.cb - 1,
         Wanted(d, c.args[i], c.off, c.cb)[k] # 0
  PROVE  Fetched(d, c.args[i], c.cb)[k] = Wanted(d, c.args[i], c.off, c.cb)[k]
<1>1. MemTypes /\ RootsInv /\ RangeInv /\ MatchInv
  BY DEF ReadInv, MemInv, PointerInv, TypeInv
<1>2. PICK a \in Buffer, r \in Buffer :
         /\ a = c.args[i] /\ r = Root(a) /\ c \in Jobs /\ InRange(c) /\ d \in ctx /\ IsRoot(r)
         /\ ptr[r][d] # NullPtr /\ ~Filling(r, d)
         /\ ptr[a][d].block = ptr[r][d].block /\ ptr[a][d].off = origin[a]
  BY ArgPointer
<1>3. c.off = 0
  BY <1>2 DEF NoOffsets, Jobs
<1>4. origin[a] + k \in Cells
  <2>1. origin[a] + c.off + k \in Cells /\ origin[a] \in Cells
    BY <1>1, <1>2, CommandCells DEF MemTypes
  <2> QED BY <1>3, <2>1 DEF Cells
<1>5. Wanted(d, a, c.off, c.cb)[k] = expect[r][d][origin[a] + k]
  <2>1. origin[a] \in Int /\ k \in Int
    BY <1>1, <1>2 DEF MemTypes, Cells, Jobs
  <2>2. origin[a] + 0 + k = origin[a] + k
    BY <2>1
  <2> QED BY <1>2, <1>3, <2>2 DEF Wanted
<1>6. Fetched(d, a, c.cb)[k] = mem[ptr[r][d].block][origin[a] + k]
  BY <1>2 DEF Fetched, PtrOf
<1> QED BY <1>1, <1>2, <1>4, <1>5, <1>6 DEF MatchInv, Matches

\* What a worker does to memory, and what it should do.
StoresAs(d, a, n, data, wish) ==
  /\ mem' = Stored(d, a, data) /\ ShouldStore(d, a, 0, wish)
  /\ DOMAIN data = 0 .. n - 1 /\ DOMAIN wish = 0 .. n - 1
  /\ \A j \in 0 .. n - 1 : wish[j] # 0 => data[j] = wish[j]

LEMMA WorkerStores ==
  ASSUME ReadInv, NoOffsets, NEW d \in Device, Execute(d), ~(UNCHANGED <<mem, expect>>)
  PROVE  \E c \in Queued(d) : \E i \in DOMAIN c.args : \E data, wish :
           /\ c \in Jobs /\ ~Wild(ptr[c.args[i]][d])
           /\ StoresAs(d, c.args[i], c.cb, data, wish)
<1>1. MemTypes /\ DataTypes /\ RangeInv
  BY DEF ReadInv, MemInv, TypeInv
<1> DEFINE c == Next1(d)
<1>2. ASSUME Take(d, "Write") \/ Take(d, "Kernel"), Sound(d),
             mem' = Stored(d, c.args[1], Written(c)),
             ShouldStore(d, c.args[1], 0, Written(c))
      PROVE  \E e \in Queued(d) : \E i \in DOMAIN e.args : \E data, wish :
               /\ e \in Jobs /\ ~Wild(ptr[e.args[i]][d])
               /\ StoresAs(d, e.args[i], e.cb, data, wish)
  <2>1. c \in Queued(d) /\ c \in Jobs /\ 1 \in DOMAIN c.args
    BY <1>1, <1>2, HeadCommand
  <2>2. ~Wild(ptr[c.args[1]][d])
    BY <1>2, <2>1 DEF Sound, PtrOf
  <2>3. DOMAIN Written(c) = 0 .. c.cb - 1
    BY DEF Written
  <2>4. StoresAs(d, c.args[1], c.cb, Written(c), Written(c))
    BY <1>2, <2>3 DEF StoresAs
  <2> HIDE DEF c
  <2> QED BY <2>1, <2>2, <2>4
<1>3. CASE ExecWrite(d)
  <2>1. /\ Take(d, "Write") /\ Sound(d) /\ mem' = Stored(d, c.args[1], Written(c))
        /\ ShouldStore(d, c.args[1], c.off, Written(c))
    BY <1>3 DEF ExecWrite
  <2>2. c.off = 0
    <3>1. c \in Jobs
      BY <1>1, <2>1, HeadCommand
    <3> QED BY <3>1 DEF NoOffsets, Jobs
  <2> QED BY <1>2, <2>1, <2>2
<1>4. CASE ExecKernel(d)
  BY <1>2, <1>4 DEF ExecKernel
<1>5. CASE ExecCopy(d)
  <2> DEFINE got == Fetched(d, c.args[1], c.cb)
             want == Wanted(d, c.args[1], c.off, c.cb)
  <2>1. /\ Take(d, "Copy") /\ Sound(d) /\ mem' = Stored(d, c.args[2], got)
        /\ ShouldStore(d, c.args[2], c.off, want)
    BY <1>5 DEF ExecCopy
  <2>2. c \in Queued(d) /\ c \in Jobs /\ 1 \in DOMAIN c.args /\ 2 \in DOMAIN c.args
    BY <1>1, <2>1, HeadCommand
  <2>3. ~Wild(ptr[c.args[1]][d]) /\ ~Wild(ptr[c.args[2]][d])
    BY <2>1, <2>2 DEF Sound, PtrOf
  <2>4. c.off = 0
    BY <2>2 DEF NoOffsets, Jobs
  <2>5. DOMAIN got = 0 .. c.cb - 1 /\ DOMAIN want = 0 .. c.cb - 1
    BY DEF Fetched, Wanted
  <2>6. \A j \in 0 .. c.cb - 1 : want[j] # 0 => got[j] = want[j]
    BY <2>2, <2>3, ReadsMatch
  <2> HIDE DEF c, got, want
  <2>7. StoresAs(d, c.args[2], c.cb, got, want)
    BY <2>1, <2>4, <2>5, <2>6 DEF StoresAs
  <2> QED BY <2>2, <2>3, <2>7
<1>6. CASE ExecRead(d) \/ KernelAbandoned(d) \/ BadPointer(d)
  BY <1>6 DEF ExecRead, KernelAbandoned, BadPointer, dataVars
<1> QED BY <1>3, <1>4, <1>5, <1>6 DEF Execute

\* A store of d for the root r, in block bl: elsewhere nothing changes, and each
\* cell is left alone or gets what it should.
Effect(d, r, bl) ==
  /\ \A x \in Blocks : x # bl => mem'[x] = mem[x]
  /\ \A b \in Buffer \ {r} : expect'[b] = expect[b]
  /\ \A e \in Device : e # d /\ kind[r] # "host" => expect'[r][e] = expect[r][e]
  /\ \A e \in Device : kind[r] = "host" => expect'[r][e] = expect'[r][d]
  /\ \A k \in Cells :
       \/ mem'[bl][k] = mem[bl][k] /\ expect'[r][d][k] = expect[r][d][k]
       \/ expect'[r][d][k] # 0 => mem'[bl][k] = expect'[r][d][k]

LEMMA StoreEffect ==
  ASSUME MemTypes, RootsInv, DataTypes, NEW d \in Device, NEW a \in Buffer, NEW n \in Nat,
         NEW data, NEW wish, StoresAs(d, a, n, data, wish), NEW r \in Buffer, r = Root(a),
         ptr[a][d].block \in Blocks, ptr[a][d].off = origin[a]
  PROVE  Effect(d, r, ptr[a][d].block)
<1> DEFINE put == [k \in Cells |-> LET j == k - origin[a] - 0 IN
                     IF j \in DOMAIN wish THEN wish[j] ELSE expect[r][d][k]]
           all == [e \in Device |-> IF e = d \/ kind[r] = "host" THEN put ELSE expect[r][e]]
           bl0 == ptr[a][d].block
           cell == [k \in Cells |-> IF k - origin[a] \in DOMAIN data THEN data[k - origin[a]]
                                                                     ELSE mem[bl0][k]]
<1>1. expect' = [expect EXCEPT ![r] = all]
  BY DEF StoresAs, ShouldStore
<1>2. mem' = [mem EXCEPT ![bl0] = cell]
  BY DEF StoresAs, Stored, PtrOf
<1>3. DOMAIN mem = Blocks /\ DOMAIN expect = Buffer
  BY DEF DataTypes
<1>4. ASSUME NEW k \in Cells
      PROVE  \/ cell[k] = mem[bl0][k] /\ put[k] = expect[r][d][k]
             \/ put[k] # 0 => cell[k] = put[k]
  <2>1. k - origin[a] - 0 = k - origin[a]
    BY DEF MemTypes, Cells
  <2>2. DOMAIN data = DOMAIN wish /\ \A j \in DOMAIN wish : wish[j] # 0 => data[j] = wish[j]
    BY DEF StoresAs
  <2>3. CASE k - origin[a] \in DOMAIN wish
    BY <1>4, <2>1, <2>2, <2>3
  <2>4. CASE k - origin[a] \notin DOMAIN wish
    BY <1>4, <2>1, <2>2, <2>4
  <2> QED BY <2>3, <2>4
<1> HIDE DEF put, cell, bl0
<1>5. \A e \in Device : all[e] = IF e = d \/ kind[r] = "host" THEN put ELSE expect[r][e]
  OBVIOUS
<1> HIDE DEF all
<1>6. mem'[bl0] = cell /\ expect'[r] = all /\ all[d] = put
  BY <1>1, <1>2, <1>3, <1>5 DEF bl0
<1>7. \A bl \in Blocks : bl # bl0 => mem'[bl] = mem[bl]
  BY <1>2, <1>3
<1>8. \A b \in Buffer \ {r} : expect'[b] = expect[b]
  BY <1>1, <1>3
<1> QED BY <1>4, <1>5, <1>6, <1>7, <1>8 DEF bl0, Effect

\* A root that is not there yet comes from CreateBuffer.
LEMMA NewRoot ==
  ASSUME MemTypes, WorkTypes, Next, NEW b \in Buffer, ~Exists(b), kind'[b] \notin {"none", "sub"}
  PROVE  \E t \in Thread, k \in Kinds : CreateBuffer(t, b, k)
<1>1. kind' # kind
  BY DEF Exists
<1>2. ASSUME NEW t \in Thread, Construct(t)
      PROVE  FALSE
  BY <1>1, <1>2, ConstructFrame
<1>3. ASSUME NEW d \in Device, Execute(d)
      PROVE  FALSE
  BY <1>1, <1>3, ExecuteFrame DEF objVars
<1>4. PICK t \in Thread : Create(t)
  BY <1>2, <1>3 DEF Next
<1>5. ASSUME NEW c \in Buffer, NEW k \in Kinds, CreateBuffer(t, c, k)
      PROVE  c = b
  <2>1. kind' = [kind EXCEPT ![c] = k]
    BY <1>5 DEF CreateBuffer
  <2> QED BY <2>1 DEF MemTypes, Exists
<1>6. ASSUME NEW c \in Buffer, NEW p \in Buffer, NEW o \in Cells, CreateSubBuffer(t, c, p, o)
      PROVE  FALSE
  <2>1. kind' = [kind EXCEPT ![c] = "sub"]
    BY <1>6 DEF CreateSubBuffer
  <2> QED BY <2>1 DEF MemTypes, Exists
<1>7. ~OutOfSpace(t)
  BY <1>1 DEF OutOfSpace, objVars
<1> QED BY <1>4, <1>5, <1>6, <1>7 DEF Create

\* Where the pointers of a new root are.
LEMMA NewPointer ==
  ASSUME MemTypes, NEW t \in Thread, NEW b \in Buffer, NEW k \in Kinds, CreateBuffer(t, b, k),
         NEW d \in Device
  PROVE  /\ kind'[b] = k /\ ctx' = ctx
         /\ \/ k = "host" /\ d \in ctx /\ ptr'[b][d] = Pointer(HostBlock(b), 0)
            \/ k # "host" /\ Single /\ d \in ctx /\ ptr'[b][d] = Pointer(Block(b, d, t), 0)
            \/ ~(k = "host" /\ d \in ctx) /\ ptr'[b][d] = NullPtr
<1>1. /\ kind' = [kind EXCEPT ![b] = k] /\ ptr' = [ptr EXCEPT ![b] = InitialPtr(t, b, k)]
      /\ ctx' = ctx
  BY DEF CreateBuffer
<1>2. kind'[b] = k /\ ptr'[b] = InitialPtr(t, b, k)
  BY <1>1 DEF MemTypes
<1> QED BY <1>1, <1>2 DEF InitialPtr

\* A root that is there gets its pointer from malloc.
LEMMA PointerBorn ==
  ASSUME MemInv, Next, NEW b \in Buffer, NEW d \in Device, IsRoot(b), ptr'[b][d] # ptr[b][d]
  PROVE  \E t \in Thread :
           /\ Malloc(t) /\ pc[t] = "malloc" /\ b = Target(t) /\ d = Dev(t) /\ d \in ctx
           /\ ptr'[b][d] = Pointer(Block(b, d, t), 0)
<1>1. MemTypes /\ WorkTypes /\ JobInv /\ RootsInv
  BY DEF MemInv, PointerInv
<1>2. ASSUME NEW t \in Thread, Create(t)
      PROVE  FALSE
  BY <1>1, <1>2, CreateKeeps DEF IsRoot, Exists
<1>3. ASSUME NEW e \in Device, Execute(e)
      PROVE  FALSE
  BY <1>3, ExecuteFrame
<1>4. ASSUME NEW t \in Thread, Construct(t), ~Malloc(t)
      PROVE  FALSE
  <2>1. ptr' = ptr
    BY <1>4 DEF Construct, Enqueue, CheckAllocated, TestData, MallocFails, CopyIn, LoadCount,
              Decrement, TestCount, FreeCopy, dataVars
  <2> QED BY <2>1
<1>5. PICK t \in Thread : Malloc(t)
  BY <1>2, <1>3, <1>4 DEF Next
<1>6. Target(t) \in Buffer /\ Dev(t) \in Device /\ Dev(t) \in ctx /\ pc[t] = "malloc"
  BY <1>1, <1>5, Targets DEF Malloc, At
<1>7. ptr' = [ptr EXCEPT ![Target(t)][Dev(t)] = Pointer(Block(Target(t), Dev(t), t), 0)]
  BY <1>5 DEF Malloc
<1>8. b = Target(t) /\ d = Dev(t)
  BY <1>1, <1>6, <1>7 DEF MemTypes
<1>9. ptr'[b][d] = Pointer(Block(b, d, t), 0)
  BY <1>1, <1>6, <1>7, <1>8 DEF MemTypes
<1> QED BY <1>5, <1>6, <1>8, <1>9

\* Blocks belong to a buffer and, unless they are the host's, to a device.
LEMMA BlockNext ==
  ASSUME MemInv, FillInv, BlockInv, Next
  PROVE  BlockInv'
<1>1. MemTypes /\ WorkTypes /\ JobInv /\ RootsInv
  BY DEF MemInv, PointerInv
<1> SUFFICES ASSUME NEW b \in Buffer, kind'[b] \notin {"none", "sub"}, NEW d \in Device,
                    ptr'[b][d] # NullPtr
             PROVE  /\ d \in ctx'
                    /\ kind'[b] = "host" => ptr'[b][d].block = HostBlock(b)
                    /\ kind'[b] # "host" => \E t \in Thread : ptr'[b][d].block = Block(b, d, t)
  BY DEF BlockInv, IsRoot
<1>2. \A bl : Pointer(bl, 0).block = bl
  BY DEF Pointer
<1>3. CASE Exists(b)
  <2>1. kind'[b] = kind[b] /\ ctx' = ctx /\ IsRoot(b)
    BY <1>1, <1>3, KindsStay DEF IsRoot
  <2>2. CASE ptr'[b][d] = ptr[b][d]
    BY <2>1, <2>2 DEF BlockInv
  <2>3. CASE ptr'[b][d] # ptr[b][d]
    <3>1. PICK t \in Thread : /\ Malloc(t) /\ pc[t] = "malloc" /\ b = Target(t) /\ d \in ctx
                              /\ ptr'[b][d] = Pointer(Block(b, d, t), 0)
      BY <2>1, <2>3, PointerBorn
    <3>2. kind[b] # "host"
      BY <3>1 DEF FillInv
    <3> QED BY <1>2, <2>1, <3>1, <3>2
  <2> QED BY <2>2, <2>3
<1>4. CASE ~Exists(b)
  <2>1. PICK t \in Thread, k \in Kinds : CreateBuffer(t, b, k)
    BY <1>1, <1>4, NewRoot
  <2> QED BY <1>1, <1>2, <2>1, NewPointer
<1> QED BY <1>3, <1>4

\* What commands should have left changes when buffers are made and workers
\* store.
LEMMA ExpectStays ==
  ASSUME MemTypes, DataTypes, Next, NEW b \in Buffer, Exists(b), \A d \in Device : ~Execute(d)
  PROVE  expect'[b] = expect[b]
<1>1. ASSUME NEW t \in Thread, Create(t)
      PROVE  expect'[b] = expect[b]
  <2>1. ASSUME NEW c \in Buffer, NEW k \in Kinds, CreateBuffer(t, c, k)
        PROVE  expect'[b] = expect[b]
    <3>1. c # b /\ expect' = [expect EXCEPT ![c] = [d \in Device |-> InitialData(k)]]
      BY <2>1 DEF CreateBuffer, Exists
    <3> QED BY <3>1 DEF DataTypes
  <2>2. ASSUME NEW c \in Buffer, NEW p \in Buffer, NEW o \in Cells, CreateSubBuffer(t, c, p, o)
        PROVE  expect' = expect
    BY <2>2 DEF CreateSubBuffer
  <2>3. OutOfSpace(t) => expect' = expect
    BY DEF OutOfSpace
  <2> QED BY <1>1, <2>1, <2>2, <2>3 DEF Create
<1>2. ASSUME NEW t \in Thread, Construct(t)
      PROVE  expect' = expect
  BY <1>2 DEF Construct, Enqueue, CheckAllocated, TestData, Malloc, MallocFails, CopyIn,
              LoadCount, Decrement, TestCount, FreeCopy
<1> QED BY <1>1, <1>2 DEF Next

\* A worker's store, cell by cell.
LEMMA WorkerEffect ==
  ASSUME ReadInv, NoOffsets, NEW d \in Device, Execute(d), ~(UNCHANGED <<mem, expect>>)
  PROVE  \E r \in Buffer :
           /\ IsRoot(r) /\ d \in ctx /\ ptr[r][d] # NullPtr /\ ~Filling(r, d)
           /\ Effect(d, r, ptr[r][d].block)
<1>1. MemTypes /\ RootsInv /\ DataTypes
  BY DEF ReadInv, MemInv, PointerInv, TypeInv
<1>2. PICK c \in Queued(d) : \E i \in DOMAIN c.args : \E data, wish :
           /\ c \in Jobs /\ ~Wild(ptr[c.args[i]][d])
           /\ StoresAs(d, c.args[i], c.cb, data, wish)
  BY WorkerStores
<1>3. PICK i \in DOMAIN c.args : \E data, wish :
           /\ c \in Jobs /\ ~Wild(ptr[c.args[i]][d])
           /\ StoresAs(d, c.args[i], c.cb, data, wish)
  BY <1>2
<1>4. PICK data, wish : /\ c \in Jobs /\ ~Wild(ptr[c.args[i]][d])
                        /\ StoresAs(d, c.args[i], c.cb, data, wish)
  BY <1>3
<1>5. PICK a \in Buffer, r \in Buffer :
         /\ a = c.args[i] /\ r = Root(a) /\ d \in ctx /\ IsRoot(r)
         /\ ptr[r][d] # NullPtr /\ ~Filling(r, d)
         /\ ptr[a][d].block = ptr[r][d].block /\ ptr[a][d].off = origin[a]
  BY <1>4, ArgPointer
<1>6. c.cb \in Nat /\ StoresAs(d, a, c.cb, data, wish)
  BY <1>4, <1>5 DEF Jobs
<1>7. ptr[a][d].block \in Blocks
  BY <1>1, <1>4, <1>5 DEF MemTypes, PointerType, Wild
<1>8. Effect(d, r, ptr[a][d].block)
  BY <1>1, <1>5, <1>6, <1>7, StoreEffect
<1> QED BY <1>5, <1>8

\* The devices go on to share the memory of the host.
LEMMA HostNext ==
  ASSUME ReadInv, NoOffsets, Next
  PROVE  HostInv'
<1>1. MemInv /\ MemTypes /\ WorkTypes /\ DataTypes /\ HostInv
  BY DEF ReadInv, MemInv, TypeInv
<1> SUFFICES ASSUME NEW b \in Buffer, kind'[b] = "host"
             PROVE  /\ \A d \in ctx' : ptr'[b][d] # NullPtr
                    /\ \A d, e \in Device : expect'[b][d] = expect'[b][e]
  BY DEF HostInv
<1>2. CASE Exists(b)
  <2>1. kind[b] = "host" /\ ctx' = ctx /\ IsRoot(b)
    BY <1>1, <1>2, KindsStay DEF IsRoot
  <2>2. \A d \in ctx : ptr'[b][d] # NullPtr
    BY <1>1, <1>2, <2>1, PointerOnce DEF HostInv, MemTypes
  <2>3. CASE expect'[b] = expect[b]
    BY <1>1, <2>1, <2>2, <2>3 DEF HostInv
  <2>4. CASE expect'[b] # expect[b]
    <3>1. PICK d \in Device : Execute(d)
      BY <1>1, <1>2, <2>4, ExpectStays
    <3>2. ~(UNCHANGED <<mem, expect>>)
      BY <2>4
    <3>3. PICK r \in Buffer :
           /\ \A c \in Buffer \ {r} : expect'[c] = expect[c]
           /\ \A e \in Device : kind[r] = "host" => expect'[r][e] = expect'[r][d]
      BY <3>1, <3>2, WorkerEffect DEF Effect
    <3>4. r = b
      BY <2>4, <3>3
    <3> QED BY <2>1, <2>2, <3>3, <3>4
  <2> QED BY <2>3, <2>4
<1>3. CASE ~Exists(b)
  <2>1. PICK t \in Thread, k \in Kinds : CreateBuffer(t, b, k)
    BY <1>1, <1>3, NewRoot
  <2>2. expect' = [expect EXCEPT ![b] = [d \in Device |-> InitialData(k)]]
    BY <2>1 DEF CreateBuffer
  <2>3. \A d \in Device : expect'[b][d] = InitialData(k)
    BY <1>1, <2>2 DEF DataTypes
  <2>4. ASSUME NEW d \in ctx'
        PROVE  ptr'[b][d] # NullPtr
    <3>1. ctx' = ctx /\ d \in Device
      BY <1>1, <2>1 DEF CreateBuffer, MemTypes
    <3>2. ptr'[b][d] = Pointer(HostBlock(b), 0)
      BY <1>1, <2>1, <2>4, <3>1, NewPointer
    <3> QED BY <3>2, BlocksAreSomewhere DEF Pointer, NullPtr
  <2> QED BY <2>3, <2>4
<1> QED BY <1>2, <1>3

\* Buffers and devices have no block in common but the host's.
LEMMA BlocksApart ==
  ASSUME BlockInv, NEW b \in Buffer, NEW c \in Buffer, NEW d \in Device, NEW e \in Device,
         IsRoot(b), IsRoot(c), ptr[b][d] # NullPtr, ptr[c][e] # NullPtr,
         ptr[b][d].block = ptr[c][e].block
  PROVE  b = c /\ (d = e \/ kind[b] = "host")
<1>1. Host \notin Device
  BY MemObjectsOK
<1>2. \/ kind[b] = "host" /\ ptr[b][d].block = HostBlock(b)
      \/ kind[b] # "host" /\ \E t \in Thread : ptr[b][d].block = Block(b, d, t)
  BY DEF BlockInv
<1>3. \/ kind[c] = "host" /\ ptr[c][e].block = HostBlock(c)
      \/ kind[c] # "host" /\ \E t \in Thread : ptr[c][e].block = Block(c, e, t)
  BY DEF BlockInv
<1> QED BY <1>1, <1>2, <1>3 DEF HostBlock, Block

\* A thread is about to fill what it has just allocated, until it does.
LEMMA FillingNext ==
  ASSUME MemInv, FillInv, Next, NEW b \in Buffer, NEW d \in Device
  PROVE  /\ Filling(b, d)' =>
              Filling(b, d) \/ \E t \in Thread : Malloc(t) /\ Target(t) = b /\ Dev(t) = d
         /\ Filling(b, d) =>
              Filling(b, d)' \/ \E t \in Thread : CopyIn(t) /\ Target(t) = b /\ Dev(t) = d
         /\ \A t \in Thread : Malloc(t) /\ Target(t) = b /\ Dev(t) = d => Filling(b, d)'
<1>1. MemTypes /\ WorkTypes /\ JobInv /\ RootsInv
  BY DEF MemInv, PointerInv
<1>2. ASSUME NEW u \in Thread, pc'[u] = "copy", Target(u)' = b, Dev(u)' = d
      PROVE  Filling(b, d) \/ \E t \in Thread : Malloc(t) /\ Target(t) = b /\ Dev(t) = d
  <2>1. CASE pc'[u] = pc[u] /\ job'[u] = job[u] /\ arg'[u] = arg[u]
    <3>1. Target(u)' = Target(u) /\ Dev(u)' = Dev(u)
      BY <1>1, <1>2, <2>1, TargetStays
    <3> QED BY <1>2, <2>1, <3>1 DEF Filling
  <2>2. CASE Malloc(u)
    <3>1. pc[u] # "idle" /\ job'[u] = job[u] /\ arg'[u] = arg[u]
      BY <2>2 DEF Malloc, At
    <3>2. Target(u)' = Target(u) /\ Dev(u)' = Dev(u)
      BY <1>1, <3>1, TargetStays
    <3> QED BY <1>2, <2>2, <3>2
  <2>3. ASSUME Construct(u), ~Malloc(u)
        PROVE  FALSE
    <3>1. ~NextArg(u)
      BY <1>1, <1>2, NextArgDoes
    <3>2. ~TestData(u)
      BY <1>1, <1>2 DEF TestData, At, Go, WorkTypes, FillInv
    <3> QED BY <1>1, <1>2, <2>3, <3>1, <3>2 DEF Construct, Enqueue, CheckAllocated, MallocFails,
               CopyIn, LoadCount, Decrement, TestCount, FreeCopy, Leave, Go, WorkTypes
  <2> QED BY <1>1, <2>1, <2>2, <2>3, Moves
<1>3. ASSUME NEW u \in Thread, pc[u] = "copy", Target(u) = b, Dev(u) = d
      PROVE  Filling(b, d)' \/ \E t \in Thread : CopyIn(t) /\ Target(t) = b /\ Dev(t) = d
  <2>1. CASE pc'[u] = pc[u] /\ job'[u] = job[u] /\ arg'[u] = arg[u]
    <3>1. Target(u)' = Target(u) /\ Dev(u)' = Dev(u)
      BY <1>1, <1>3, <2>1, TargetStays
    <3> QED BY <1>3, <2>1, <3>1 DEF Filling
  <2>2. CASE Construct(u)
    <3>1. CopyIn(u)
      BY <1>3, <2>2 DEF Construct, Enqueue, CheckAllocated, TestData, Malloc, MallocFails, LoadCount,
         Decrement, TestCount, FreeCopy, At
    <3> QED BY <1>3, <3>1
  <2> QED BY <1>1, <2>1, <2>2, Moves
<1>4. ASSUME NEW u \in Thread, Malloc(u), Target(u) = b, Dev(u) = d
      PROVE  Filling(b, d)'
  <2>1. pc[u] # "idle" /\ job'[u] = job[u] /\ arg'[u] = arg[u] /\ pc'[u] = "copy"
    BY <1>1, <1>4 DEF Malloc, At, Go, WorkTypes
  <2>2. Target(u)' = Target(u) /\ Dev(u)' = Dev(u)
    BY <1>1, <2>1, TargetStays
  <2> QED BY <1>4, <2>1, <2>2 DEF Filling
<1> QED BY <1>2, <1>3, <1>4 DEF Filling

\* A block that is in use is written by workers, and by the thread that fills
\* it.
LEMMA MemoryStays ==
  ASSUME MemInv, TypeInv, BlockInv, Next, \A e \in Device : ~Execute(e),
         NEW b \in Buffer, NEW d \in Device, IsRoot(b), ptr[b][d] # NullPtr
  PROVE  \/ mem'[ptr[b][d].block] = mem[ptr[b][d].block]
         \/ \E t \in Thread : CopyIn(t) /\ Target(t) = b /\ Dev(t) = d
<1>1. MemTypes /\ WorkTypes /\ JobInv /\ RootsInv /\ AllocInv /\ DataTypes /\ PointerInv
  BY DEF MemInv, PointerInv, TypeInv
<1> DEFINE bl == ptr[b][d].block
<1>2. bl \in Blocks
  BY <1>1 DEF PointerInv, MemTypes, PointerType, Wild
<1>3. /\ \A c \in Buffer : bl = HostBlock(c) => b = c
      /\ \A c \in Buffer, e \in Device, t \in Thread :
           bl = Block(c, e, t) => b = c /\ d = e /\ kind[b] # "host"
  <2>1. Host \notin Device
    BY MemObjectsOK
  <2>2. \/ kind[b] = "host" /\ ptr[b][d].block = HostBlock(b)
        \/ kind[b] # "host" /\ \E t \in Thread : ptr[b][d].block = Block(b, d, t)
    BY DEF BlockInv
  <2> QED BY <2>1, <2>2 DEF HostBlock, Block
<1> HIDE DEF bl
<1>4. ASSUME NEW t \in Thread, Create(t)
      PROVE  mem'[bl] = mem[bl]
  <2>1. ASSUME NEW c \in Buffer, NEW k \in Kinds, CreateBuffer(t, c, k)
        PROVE  mem'[bl] = mem[bl]
    <3>1. c # b /\ mem' = [x \in Blocks |->
                IF x = HostBlock(c) \/ (Single /\ \E e \in ctx : x = Block(c, e, t))
                THEN InitialData(k) ELSE mem[x]]
      BY <2>1 DEF CreateBuffer, IsRoot
    <3> QED BY <1>1, <1>2, <1>3, <3>1 DEF MemTypes
  <2>2. ASSUME NEW c \in Buffer, NEW p \in Buffer, NEW o \in Cells, CreateSubBuffer(t, c, p, o)
        PROVE  mem' = mem
    BY <2>2 DEF CreateSubBuffer
  <2>3. OutOfSpace(t) => mem' = mem
    BY DEF OutOfSpace, dataVars
  <2> QED BY <1>4, <2>1, <2>2, <2>3 DEF Create
<1>5. ASSUME NEW t \in Thread, Malloc(t)
      PROVE  mem'[bl] = mem[bl]
  <2>1. Target(t) \in Buffer /\ Dev(t) \in Device /\ pc[t] = "malloc"
    BY <1>1, <1>5, Targets DEF Malloc, At
  <2>2. ptr[Target(t)][Dev(t)] = NullPtr
    BY <1>1, <2>1 DEF AllocInv, TargetPtr
  <2>3. bl # Block(Target(t), Dev(t), t)
    BY <1>3, <2>1, <2>2
  <2>4. mem' = [mem EXCEPT ![Block(Target(t), Dev(t), t)] = Filled(0)]
    BY <1>5 DEF Malloc
  <2> QED BY <1>1, <1>2, <2>3, <2>4 DEF DataTypes
<1>6. ASSUME NEW t \in Thread, CopyIn(t)
      PROVE  mem'[bl] = mem[bl] \/ (Target(t) = b /\ Dev(t) = d)
  <2>1. Target(t) \in Buffer /\ IsRoot(Target(t)) /\ Dev(t) \in Device /\ pc[t] = "copy"
    BY <1>1, <1>6, Targets DEF CopyIn, At
  <2>2. ptr[Target(t)][Dev(t)] # NullPtr
    BY <1>1, <2>1 DEF AllocInv, TargetPtr
  <2>3. mem' = IF kind[Target(t)] = "copy"
               THEN [mem EXCEPT ![ptr[Target(t)][Dev(t)].block] = Filled(-1)] ELSE mem
    BY <1>6 DEF CopyIn, TargetPtr
  <2>4. CASE kind[Target(t)] = "copy" /\ ptr[Target(t)][Dev(t)].block = bl
    BY <2>1, <2>2, <2>4, BlocksApart DEF bl
  <2>5. CASE ~(kind[Target(t)] = "copy" /\ ptr[Target(t)][Dev(t)].block = bl)
    BY <1>1, <1>2, <2>3, <2>5 DEF DataTypes
  <2> QED BY <2>4, <2>5
<1>7. ASSUME NEW t \in Thread, Construct(t), ~Malloc(t), ~CopyIn(t)
      PROVE  mem' = mem
  BY <1>7 DEF Construct, Enqueue, CheckAllocated, TestData, MallocFails, LoadCount,
              Decrement, TestCount, FreeCopy, dataVars
<1>8. mem'[bl] = mem[bl] \/ \E t \in Thread : CopyIn(t) /\ Target(t) = b /\ Dev(t) = d
  BY <1>4, <1>5, <1>6, <1>7 DEF Next
<1> QED BY <1>8 DEF bl

\* A new buffer holds what it is made with, or will.
LEMMA NewMatches ==
  ASSUME ReadInv, Next, NEW b \in Buffer, ~Exists(b), kind'[b] \notin {"none", "sub"},
         NEW d \in ctx'
  PROVE  Matches(b, d)'
<1>1. /\ MemInv /\ MemTypes /\ WorkTypes /\ JobInv /\ RootsInv /\ DataTypes /\ FillInv
  BY DEF ReadInv, MemInv, PointerInv, TypeInv
<1>2. PICK t \in Thread, k \in Kinds : CreateBuffer(t, b, k)
  BY <1>1, NewRoot
<1>3. /\ mem' = [bl \in Blocks |->
           IF bl = HostBlock(b) \/ (Single /\ \E e \in ctx : bl = Block(b, e, t))
           THEN InitialData(k) ELSE mem[bl]]
      /\ expect' = [expect EXCEPT ![b] = [e \in Device |-> InitialData(k)]]
      /\ ctx' = ctx
  BY <1>2 DEF CreateBuffer
<1>4. d \in ctx /\ d \in Device
  BY <1>1, <1>3 DEF MemTypes
<1>5. expect'[b][d] = InitialData(k)
  BY <1>1, <1>3, <1>4 DEF DataTypes
<1>6. kind'[b] = k
  BY <1>1, <1>2, <1>4, NewPointer
<1>7. ASSUME ptr'[b][d] # NullPtr
      PROVE  mem'[ptr'[b][d].block] = InitialData(k)
  <2>1. ptr'[b][d] = Pointer(HostBlock(b), 0)
        \/ (Single /\ ptr'[b][d] = Pointer(Block(b, d, t), 0))
    BY <1>1, <1>2, <1>4, <1>7, NewPointer
  <2>2. \A bl : Pointer(bl, 0).block = bl
    BY DEF Pointer
  <2> QED BY <1>3, <1>4, <2>1, <2>2, BlocksAreSomewhere
<1> QED BY <1>5, <1>6, <1>7 DEF Matches

\* A buffer that is there goes on to hold it when no worker runs,
LEMMA MatchesStay ==
  ASSUME ReadInv, Next, \A e \in Device : ~Execute(e), NEW b \in Buffer, IsRoot(b), NEW d \in ctx
  PROVE  Matches(b, d)'
<1>1. /\ MemInv /\ MemTypes /\ WorkTypes /\ JobInv /\ RootsInv /\ DataTypes /\ FillInv
      /\ BlockInv /\ TypeInv /\ HostInv /\ AllocInv /\ PointerInv
  BY DEF ReadInv, MemInv, PointerInv, TypeInv
<1>2. d \in Device /\ Exists(b)
  BY <1>1 DEF MemTypes, IsRoot, Exists
<1>3. Matches(b, d)
  BY DEF ReadInv, MatchInv
<1>4. expect'[b] = expect[b] /\ kind'[b] = kind[b]
  BY <1>1, <1>2, ExpectStays, KindsStay
<1>5. CASE \E t \in Thread : Malloc(t) /\ Target(t) = b /\ Dev(t) = d
  <2>1. PICK t \in Thread : Malloc(t) /\ Target(t) = b /\ Dev(t) = d
    BY <1>5
  <2>2. pc[t] = "malloc"
    BY <2>1 DEF Malloc, At
  <2>3. ptr[b][d] = NullPtr
    BY <1>1, <2>1, <2>2 DEF AllocInv, TargetPtr
  <2>4. Filling(b, d)'
    BY <1>1, <1>2, <2>1, FillingNext
  <2> QED BY <1>3, <1>4, <2>3, <2>4 DEF Matches
<1>6. CASE \E t \in Thread : CopyIn(t) /\ Target(t) = b /\ Dev(t) = d
  <2>1. PICK t \in Thread : CopyIn(t) /\ Target(t) = b /\ Dev(t) = d
    BY <1>6
  <2>2. pc[t] = "copy" /\ ptr' = ptr
    BY <2>1 DEF CopyIn, At
  <2>3. Filling(b, d) /\ kind[b] # "host" /\ ptr[b][d] # NullPtr
    BY <1>1, <2>1, <2>2 DEF Filling, FillInv, AllocInv, TargetPtr
  <2>4. expect[b][d] = InitialData(kind[b])
    BY <1>3, <2>3 DEF Matches
  <2>5. kind[b] \in {"plain", "copy"}
    <3>1. kind[b] \in {"plain", "copy", "host", "sub", "none"}
      BY <1>1, MemObjectsOK DEF MemTypes
    <3> QED BY <2>3, <3>1 DEF IsRoot
  <2>6. ASSUME NEW k \in Cells, InitialData(kind[b])[k] # 0
        PROVE  mem'[ptr[b][d].block][k] = InitialData(kind[b])[k]
    <3>1. kind[b] = "copy" /\ InitialData(kind[b]) = Filled(-1)
      BY <2>5, <2>6 DEF InitialData, Filled
    <3>2. mem' = [mem EXCEPT ![ptr[b][d].block] = Filled(-1)]
      BY <2>1, <3>1 DEF CopyIn, TargetPtr
    <3>3. ptr[b][d].block \in Blocks
      BY <1>1, <1>2, <2>3 DEF PointerInv, MemTypes, PointerType, Wild
    <3>4. mem'[ptr[b][d].block] = Filled(-1)
      BY <1>1, <3>2, <3>3 DEF DataTypes
    <3> QED BY <3>1, <3>4
  <2> QED BY <1>4, <2>2, <2>3, <2>4, <2>6 DEF Matches
<1>7. CASE /\ ~\E t \in Thread : Malloc(t) /\ Target(t) = b /\ Dev(t) = d
           /\ ~\E t \in Thread : CopyIn(t) /\ Target(t) = b /\ Dev(t) = d
  <2>1. Filling(b, d)' <=> Filling(b, d)
    BY <1>1, <1>2, <1>7, FillingNext
  <2>2. ptr'[b][d] = ptr[b][d]
    BY <1>1, <1>2, <1>7, PointerBorn
  <2>3. ptr[b][d] # NullPtr => mem'[ptr[b][d].block] = mem[ptr[b][d].block]
    BY <1>1, <1>2, <1>7, MemoryStays
  <2> QED BY <1>3, <1>4, <2>1, <2>2, <2>3 DEF Matches
<1> QED BY <1>5, <1>6, <1>7

\* and when one does, for no worker stores but in its own blocks what its
\* commands should.
LEMMA MatchesStored ==
  ASSUME ReadInv, NoOffsets, NEW e \in Device, Execute(e), NEW b \in Buffer, IsRoot(b),
         NEW d \in ctx
  PROVE  Matches(b, d)'
<1>1. /\ MemInv /\ MemTypes /\ FillInv /\ BlockInv /\ HostInv /\ PointerInv
  BY DEF ReadInv, MemInv
<1>2. d \in Device
  BY <1>1 DEF MemTypes
<1>3. Matches(b, d)
  BY DEF ReadInv, MatchInv
<1>4. UNCHANGED <<objVars, ptr, threadVars>>
  BY ExecuteFrame
<1>5. (Filling(b, d)' <=> Filling(b, d)) /\ kind' = kind /\ ptr' = ptr
  BY <1>4 DEF Filling, Target, Root, Arg, Dev, objVars, threadVars
<1>6. CASE UNCHANGED <<mem, expect>>
  BY <1>3, <1>5, <1>6 DEF Matches
<1>7. CASE ~(UNCHANGED <<mem, expect>>)
  <2>1. PICK r \in Buffer :
           /\ IsRoot(r) /\ e \in ctx /\ ptr[r][e] # NullPtr /\ ~Filling(r, e)
           /\ Effect(e, r, ptr[r][e].block)
    BY <1>7, WorkerEffect
  <2>2. CASE b # r \/ (d # e /\ kind[b] # "host")
    <3>1. expect'[b][d] = expect[b][d]
      BY <1>2, <2>1, <2>2 DEF Effect
    <3>2. ASSUME ptr[b][d] # NullPtr
          PROVE  mem'[ptr[b][d].block] = mem[ptr[b][d].block]
      <4>1. ptr[b][d].block # ptr[r][e].block
        BY <1>1, <1>2, <2>1, <2>2, <3>2, BlocksApart
      <4>2. ptr[b][d].block \in Blocks
        BY <1>1, <1>2, <3>2 DEF PointerInv, MemTypes, PointerType, Wild
      <4> QED BY <2>1, <4>1, <4>2 DEF Effect
    <3> QED BY <1>3, <1>5, <3>1, <3>2 DEF Matches
  <2>3. CASE b = r /\ (d = e \/ kind[b] = "host")
    <3>1. ptr[b][d] # NullPtr /\ ~Filling(b, d) /\ ptr[b][d].block = ptr[r][e].block
      <4>1. CASE d = e
        BY <2>1, <2>3, <4>1
      <4>2. CASE kind[b] = "host"
        <5>1. ptr[b][d] # NullPtr /\ ptr[b][d].block = HostBlock(b) /\ ptr[r][e].block = HostBlock(b)
          BY <1>1, <1>2, <2>1, <2>3, <4>2 DEF HostInv, BlockInv
        <5>2. ~Filling(b, d)
          BY <1>1, <4>2 DEF Filling, FillInv
        <5> QED BY <5>1, <5>2
      <4> QED BY <2>3, <4>1, <4>2
    <3>2. expect'[b][d] = expect'[r][e]
      BY <1>2, <2>1, <2>3 DEF Effect
    <3>3. \A k \in Cells : expect[r][e][k] # 0 => mem[ptr[r][e].block][k] = expect[r][e][k]
      <4>1. Matches(r, e)
        BY <2>1 DEF ReadInv, MatchInv
      <4> QED BY <2>1, <4>1 DEF Matches
    <3>4. \A k \in Cells : expect'[r][e][k] # 0 => mem'[ptr[r][e].block][k] = expect'[r][e][k]
      BY <2>1, <3>3 DEF Effect
    <3> QED BY <1>5, <3>1, <3>2, <3>4 DEF Matches
  <2> QED BY <2>2, <2>3
<1> QED BY <1>6, <1>7

LEMMA MatchNext ==
  ASSUME ReadInv, NoOffsets, Next
  PROVE  MatchInv'
<1>1. MemTypes /\ WorkTypes
  BY DEF ReadInv, MemInv
<1> SUFFICES ASSUME NEW b \in Buffer, kind'[b] \notin {"none", "sub"}, NEW d \in ctx'
             PROVE  Matches(b, d)'
  BY DEF MatchInv, IsRoot
<1>2. CASE ~Exists(b)
  BY <1>2, NewMatches
<1>3. CASE Exists(b)
  <2>1. IsRoot(b) /\ d \in ctx
    BY <1>1, <1>3, KindsStay DEF IsRoot
  <2>2. CASE \A e \in Device : ~Execute(e)
    BY <2>1, <2>2, MatchesStay
  <2>3. ASSUME NEW e \in Device, Execute(e)
        PROVE  Matches(b, d)'
    BY <2>1, <2>3, MatchesStored
  <2> QED BY <2>2, <2>3
<1> QED BY <1>2, <1>3

\* The whole invariant.
LEMMA ReadInit ==
  ASSUME Init
  PROVE  ReadInv
<1>1. MemInv /\ TypeInv
  BY MemInit, TypesInit
<1>2. QueuedInv
  <2>1. \A d \in Device : Queued(d) = {}
    BY DEF Init, Queued
  <2> QED BY <2>1 DEF Init, QueuedInv
<1>3. FillInv /\ BlockInv /\ HostInv /\ MatchInv
  BY DEF Init, FillInv, BlockInv, HostInv, MatchInv, IsRoot
<1> QED BY <1>1, <1>2, <1>3 DEF ReadInv

LEMMA ReadNext ==
  ASSUME OwnDevices, NoOffsets, ReadInv, Next
  PROVE  ReadInv'
<1>1. MemInv /\ TypeInv /\ QueuedInv /\ FillInv /\ BlockInv /\ HostInv
  BY DEF ReadInv
<1>2. MemInv'
  BY <1>1, MemNext
<1>3. TypeInv'
  BY <1>1, TypesNext
<1>4. QueuedInv' /\ FillInv'
  BY <1>1, QueuedInvNext, FillInvNext
<1>5. BlockInv' /\ HostInv' /\ MatchInv'
  BY <1>1, BlockNext, HostNext, MatchNext
<1> QED BY <1>2, <1>3, <1>4, <1>5 DEF ReadInv

LEMMA ReadStutter ==
  ASSUME ReadInv, UNCHANGED vars
  PROVE  ReadInv'
<1>1. MemInv' /\ TypeInv'
  BY MemStutter, TypesStutter DEF ReadInv
<1>2. UNCHANGED <<ctx, kind, parent, ptr, pc, job, arg, mem, expect, cmds>>
  BY DEF vars, objVars, dataVars, threadVars
<1>3. \A d \in Device : Queued(d)' = Queued(d)
  BY <1>2 DEF Queued
<1>4. \A t \in Thread : Target(t)' = Target(t) /\ Dev(t)' = Dev(t) /\ TargetPtr(t)' = TargetPtr(t)
  BY <1>2 DEF TargetPtr, Target, Root, Arg, Dev
<1>5. QueuedInv'
  BY <1>2, <1>3, <1>4 DEF ReadInv, QueuedInv, IsRoot
<1>6. FillInv'
  <2>1. \A t \in Thread : Queued(Dev(t))' = Queued(Dev(t))
    BY <1>2 DEF Queued, Dev
  <2>2. \A a : Root(a)' = Root(a)
    BY <1>2 DEF Root
  <2> QED BY <1>2, <1>4, <2>1, <2>2 DEF ReadInv, FillInv, Wild
<1>7. BlockInv' /\ HostInv'
  BY <1>2 DEF ReadInv, BlockInv, HostInv, IsRoot
<1>8. MatchInv'
  <2>1. \A b, d : Filling(b, d)' <=> Filling(b, d)
    BY <1>2, <1>4 DEF Filling
  <2> QED BY <1>2, <2>1 DEF ReadInv, MatchInv, Matches, IsRoot
<1> QED BY <1>1, <1>5, <1>6, <1>7, <1>8 DEF ReadInv

\* What ReadsLatest says of a step.
ReadIsLatest(d) ==
  LET c == Next1(d)
      got == Fetched(d, c.args[1], c.cb)
      want == Wanted(d, c.args[1], c.off, c.cb)
  IN  \A k \in DOMAIN want : want[k] # 0 => got[k] = want[k]

-----------------------------------------------------------------------------
(* The theorems.                                                           *)

\* Every variable keeps its type: commands stay in their buffers, whatever the
\* order of threads and workers, and no copy or mapping leaves a block's cells.
THEOREM TypeCorrect == Spec => []TypeOK
<1>1. Init => TypeInv
  BY TypesInit
<1>2. TypeInv /\ [Next]_vars => TypeInv'
  BY TypesNext, TypesStutter
<1>3. TypeInv => TypeOK
  BY TypesImply
<1> QED BY <1>1, <1>2, <1>3, PTL DEF Spec

\* Where every thread uses devices of its own, counts are never too low and
\* pointers follow the memory they were derived from (MemObject::allocate,
\* LE1Buffer::allocate, which take no lock).
THEOREM FirstUse == OwnDevices => (Spec => []MemInv)
<1> SUFFICES ASSUME OwnDevices
             PROVE  Spec => []MemInv
  OBVIOUS
<1>1. Init => MemInv
  BY MemInit
<1>2. MemInv /\ [Next]_vars => MemInv'
  BY MemNext, MemStutter
<1> QED BY <1>1, <1>2, PTL DEF Spec

\* The host's copy is there whenever a thread gives it to a device, however
\* many devices there are and in whatever order they are used first
\* (MemObject::deviceAllocated).
THEOREM Copy_Has_Source == OwnDevices => (Spec => []CopyHasSource)
<1> SUFFICES ASSUME OwnDevices
             PROVE  Spec => []CopyHasSource
  OBVIOUS
<1>1. ASSUME MemInv
      PROVE  CopyHasSource
  <2> SUFFICES ASSUME NEW t \in Thread, pc[t] = "copy", kind[Target(t)] = "copy"
               PROVE  hostCopy[Target(t)] = "kept"
    BY DEF CopyHasSource
  <2>1. Target(t) \in Buffer /\ Dev(t) \in ctx /\ IsRoot(Target(t))
    BY <1>1, Targets DEF MemInv, PointerInv
  <2>2. Dev(t) \notin counted[Target(t)]
    BY <1>1 DEF MemInv, AllocInv
  <2> QED BY <1>1, <2>1, <2>2 DEF MemInv, CountInv
<1>2. Spec => []MemInv
  BY FirstUse
<1> QED BY <1>1, <1>2, PTL

\* Sub-buffers and mappings whose pointer is not null are in the memory of
\* their buffer for ever (SubBuffer, clEnqueueMapBuffer).
THEOREM Aliases_Hold == OwnDevices => (Spec => []AliasesHold)
<1>1. MemInv => AliasesHold
  BY DEF MemInv, PointerInv, RootsInv
<1> QED BY <1>1, FirstUse, PTL

\* A read gets what the last commands on its device left, or what the host gave
\* the buffer with, cell by cell, through sub-buffers too: where threads keep to
\* devices of their own and no command has an offset (LE1Buffer::allocate,
\* the worker's Event::ReadBuffer).
THEOREM Reads_Latest == OwnDevices /\ NoOffsets => (Spec => ReadsLatest)
<1> SUFFICES ASSUME OwnDevices, NoOffsets
             PROVE  Spec => ReadsLatest
  OBVIOUS
<1>1. Init => ReadInv
  BY ReadInit
<1>2. ReadInv /\ [Next]_vars => ReadInv'
  BY ReadNext, ReadStutter
<1>3. ReadInv => \A d \in Device : ExecRead(d) => ReadIsLatest(d)
  <2> SUFFICES ASSUME ReadInv, NEW d \in Device, ExecRead(d)
               PROVE  ReadIsLatest(d)
    OBVIOUS
  <2> DEFINE c == Next1(d)
  <2>1. Take(d, "Read") /\ Sound(d)
    BY DEF ExecRead
  <2>2. c \in Queued(d) /\ 1 \in DOMAIN c.args
    BY <2>1, HeadCommand DEF ReadInv, MemInv, TypeInv
  <2>3. ~Wild(ptr[c.args[1]][d])
    BY <2>1, <2>2 DEF Sound, PtrOf
  <2> HIDE DEF c
  <2>4. DOMAIN Wanted(d, c.args[1], c.off, c.cb) = 0 .. c.cb - 1
    BY DEF Wanted
  <2>5. \A k \in DOMAIN Wanted(d, c.args[1], c.off, c.cb) :
          Wanted(d, c.args[1], c.off, c.cb)[k] # 0 =>
            Fetched(d, c.args[1], c.cb)[k] = Wanted(d, c.args[1], c.off, c.cb)[k]
    BY <2>2, <2>3, <2>4, ReadsMatch
  <2> QED BY <2>5 DEF ReadIsLatest, c
<1>4. ReadInv => [\A d \in Device : ExecRead(d) => ReadIsLatest(d)]_vars
  BY <1>3
<1>5. ([][\A d \in Device : ExecRead(d) => ReadIsLatest(d)]_vars) => ReadsLatest
  BY DEF ReadsLatest, ReadIsLatest
<1> QED BY <1>1, <1>2, <1>4, <1>5, PTL DEF Spec
=============================================================================
