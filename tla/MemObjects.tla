----------------------------- MODULE MemObjects -----------------------------
(***************************************************************************)
(* Memory objects and their buffers on the devices.  A context with one    *)
(* device allocates a buffer when it is created; with several, each device *)
(* gets its memory when the first command that uses the buffer there is    *)
(* constructed, in the host thread that enqueues it, without a mutex.  A   *)
(* copy of the host's data is kept until p_devices_to_allocate says that   *)
(* every device has taken it.  A sub-buffer takes its pointer from its     *)
(* parent when it is created, a mapping when it is enqueued.  The worker   *)
(* of each device then reads and writes through the pointers.              *)
(***************************************************************************)
EXTENDS Integers, Sequences, FiniteSets

CONSTANTS
  Thread,        \* threads of the host program
  Device,
  Uses,          \* Uses[t]: devices to whose queues t enqueues commands
  Buffer,        \* memory objects
  Kinds,         \* of the buffers the program creates
  Ops,           \* of the commands it enqueues
  Offsets,       \* of the commands in their buffers
  BaseStarts,    \* what a new LE1Device may find in global_base_addr
  MaxGlobalAddr,
  MaxCommands,   \* bound: commands that are enqueued
  Modulus,       \* values of an unsigned
  Host,          \* in the place of a device: memory of the host program
  Null

ASSUME MemObjectsOK ==
  /\ IsFiniteSet(Device) /\ {Host, Null} \intersect (Buffer \union Device \union Thread) = {}
  /\ Uses \in [Thread -> SUBSET Device]
  /\ Kinds \subseteq {"plain", "copy", "host", "sub"}
  /\ Ops \subseteq {"Read", "Write", "Copy", "Map", "Kernel"}
  /\ Offsets \subseteq {0, 1} /\ BaseStarts \subseteq Nat
  /\ MaxGlobalAddr \in Nat /\ MaxCommands \in Nat
  /\ Modulus \in Nat /\ Cardinality(Device) < Modulus

VARIABLES
  ctx,         \* the devices of the context
  kind,        \* "none" until the object is created; else how it was
  parent,      \* SubBuffer::p_parent
  origin,      \* SubBuffer::p_offset
  ptr,         \* LE1Buffer::p_data, for each object and device
  mem,         \* the cells of the blocks that pointers point into
  toAllocate,  \* p_devices_to_allocate
  hostCopy,    \* the copy that init makes: "none", "kept" or "freed"
  base,        \* global_base_addr
  exited,      \* the process has ended
  maps,        \* mappings that clEnqueueMapBuffer returned
  cmds,        \* the commands each device has still to execute
  dead,        \* devices whose worker waits for the simulator for ever
  made,        \* commands constructed so far
  pc,          \* where a thread is in the construction of a command
  job,         \* that command
  arg,         \* the buffer of the command it is at
  seen,        \* p_devices_to_allocate, as loaded to be decremented
  counted,     \* history: devices whose allocation has been counted
  expect       \* history: what the commands so far should have left

objVars  == <<ctx, kind, parent, origin, base>>
dataVars == <<mem, ptr>>
countVars == <<toAllocate, hostCopy, counted>>
threadVars == <<pc, job, arg, seen>>
vars == <<objVars, dataVars, countVars, exited, maps, cmds, dead, made, threadVars, expect>>

\* A buffer has two cells, a sub-buffer one.  What a cell holds: 0 for
\* anything, -1 what the host gave, or the number of a command.
Cells == 0 .. 1
SizeOf(b) == IF kind[b] = "sub" THEN 1 ELSE 2
Filled(v) == [k \in Cells |-> v]

\* The memory that thread t allocates for b on d; that of the host program.
Block(b, d, t) == <<b, d, t>>
HostBlock(b) == <<b, Host, Host>>
Blocks == {Block(b, d, t) : b \in Buffer, d \in Device, t \in Thread}
            \union {HostBlock(b) : b \in Buffer}
NullBlock == <<Null, Null, Null>>
Pointer(bl, k) == [block |-> bl, off |-> k]
NullPtr == Pointer(NullBlock, 0)
Pointers == [block : Blocks \union {NullBlock}, off : Cells]
Plus(p, k) == [p EXCEPT !.off = @ + k]

Root(b) == IF kind[b] = "sub" THEN parent[b] ELSE b

NoJob == [op |-> "None", args |-> <<>>, dev |-> Null, off |-> 0, cb |-> 0, id |-> 0]
Jobs == [op : Ops, args : Seq(Buffer), dev : Device, off : Offsets, cb : Nat, id : Nat]

Init ==
  /\ ctx \in (SUBSET Device) \ {{}}
  /\ kind = [b \in Buffer |-> "none"]
  /\ parent = [b \in Buffer |-> b]
  /\ origin = [b \in Buffer |-> 0]
  /\ ptr = [b \in Buffer |-> [d \in Device |-> NullPtr]]
  /\ mem = [bl \in Blocks |-> Filled(0)]
  /\ toAllocate = [b \in Buffer |-> 0]
  /\ hostCopy = [b \in Buffer |-> "none"]
  /\ base \in [Device -> BaseStarts]
  /\ exited = FALSE
  /\ maps = {}
  /\ cmds = [d \in Device |-> <<>>]
  /\ dead = {}
  /\ made = 0
  /\ pc = [t \in Thread |-> "idle"]
  /\ job = [t \in Thread |-> NoJob]
  /\ arg = [t \in Thread |-> 1]
  /\ seen = [t \in Thread |-> 0]
  /\ counted = [b \in Buffer |-> {}]
  /\ expect = [b \in Buffer |-> [d \in Device |-> Filled(0)]]

-----------------------------------------------------------------------------
(* clCreateBuffer and clCreateSubBuffer.                                   *)

\* createDeviceBuffer on every device: global_base_addr goes past the new
\* buffer, to a whole word, and never back.
RoundUp4(a) == 4 * ((a + 3) \div 4)
Fits(n) == \A d \in ctx : base[d] + n <= MaxGlobalAddr
GrowBase(n) == base' = [d \in Device |-> IF d \in ctx THEN RoundUp4(base[d] + n) ELSE base[d]]

Single == Cardinality(ctx) = 1

\* init: the pointers of the new object, and what they point to.
InitialPtr(t, b, k) == [d \in Device |->
  CASE k = "host" /\ d \in ctx -> Pointer(HostBlock(b), 0)
    [] k # "host" /\ Single /\ d \in ctx -> Pointer(Block(b, d, t), 0)
    [] OTHER -> NullPtr]

InitialData(k) == Filled(IF k = "plain" THEN 0 ELSE -1)

CreateBuffer(t, b, k) ==
  /\ ~exited /\ pc[t] = "idle" /\ kind[b] = "none" /\ k # "sub"
  /\ Fits(2) /\ GrowBase(2)
  /\ kind' = [kind EXCEPT ![b] = k]
  /\ ptr' = [ptr EXCEPT ![b] = InitialPtr(t, b, k)]
  /\ mem' = [bl \in Blocks |->
       IF bl = HostBlock(b) \/ (Single /\ \E d \in ctx : bl = Block(b, d, t))
       THEN InitialData(k) ELSE mem[bl]]
  /\ toAllocate' = [toAllocate EXCEPT ![b] = IF Single THEN 0 ELSE Cardinality(ctx)]
  /\ hostCopy' = [hostCopy EXCEPT ![b] = IF k = "copy" /\ ~Single THEN "kept" ELSE "none"]
  /\ counted' = [counted EXCEPT ![b] = IF Single THEN ctx ELSE {}]
  /\ expect' = [expect EXCEPT ![b] = [d \in Device |-> InitialData(k)]]
  /\ UNCHANGED <<ctx, parent, origin, exited, maps, cmds, dead, made, threadVars>>

\* Mutant: the offset is forgotten.
SubPtrAtStart(p, o) == [d \in Device |-> IF d \in ctx THEN ptr[p][d] ELSE NullPtr]

\* The pointers are the parent's plus the offset, whatever those are.
SubPtr(p, o) == [d \in Device |-> IF d \in ctx THEN Plus(ptr[p][d], o) ELSE NullPtr]

CreateSubBuffer(t, b, p, o) ==
  /\ ~exited /\ pc[t] = "idle" /\ kind[b] = "none" /\ kind[p] \notin {"none", "sub"}
  /\ Fits(1) /\ GrowBase(1)
  /\ kind' = [kind EXCEPT ![b] = "sub"]
  /\ parent' = [parent EXCEPT ![b] = p]
  /\ origin' = [origin EXCEPT ![b] = o]
  /\ ptr' = [ptr EXCEPT ![b] = SubPtr(p, o)]
  /\ UNCHANGED <<ctx, mem, countVars, exited, maps, cmds, dead, made, threadVars, expect>>

\* createDeviceBuffer calls exit(1) when the device has no space left.
OutOfSpace(t) ==
  /\ ~exited /\ pc[t] = "idle" /\ \E b \in Buffer : kind[b] = "none"
  /\ ~Fits(2) /\ exited' = TRUE
  /\ UNCHANGED <<objVars, dataVars, countVars, maps, cmds, dead, made, threadVars, expect>>

Create(t) ==
  \/ \E b \in Buffer, k \in Kinds : CreateBuffer(t, b, k)
  \/ "sub" \in Kinds /\ \E b, p \in Buffer, o \in Cells : CreateSubBuffer(t, b, p, o)
  \/ OutOfSpace(t)

-----------------------------------------------------------------------------
(* A command is constructed: its buffers are allocated on the device.      *)

\* Buffers of a command: a copy has a source and a destination.
ArgsOf(op) == IF op = "Copy" THEN Buffer \X Buffer ELSE {<<b>> : b \in Buffer}

SmallestSize(args) == IF \E i \in DOMAIN args : kind[args[i]] = "sub" THEN 1 ELSE 2

Enqueue(t) ==
  /\ ~exited /\ pc[t] = "idle" /\ made < MaxCommands
  /\ \E op \in Ops, d \in Uses[t] \intersect ctx, off \in Offsets :
       \E args \in ArgsOf(op) :
         /\ \A i \in DOMAIN args : kind[args[i]] # "none"
         /\ off < SmallestSize(args) /\ (op = "Kernel" => off = 0)
         /\ job' = [job EXCEPT ![t] = [op |-> op, args |-> args, dev |-> d, off |-> off,
                                       cb |-> SmallestSize(args) - off, id |-> made + 1]]
  /\ made' = made + 1
  /\ pc' = [pc EXCEPT ![t] = "check"]
  /\ UNCHANGED <<objVars, dataVars, countVars, exited, maps, cmds, dead, arg, seen, expect>>

Dev(t) == job[t].dev
Arg(t) == job[t].args[arg[t]]
Target(t) == Root(Arg(t))
TargetPtr(t) == ptr[Target(t)][Dev(t)]

At(t, place) == ~exited /\ pc[t] = place
Go(t, place) == pc' = [pc EXCEPT ![t] = place]

Leave(t) ==
  /\ Go(t, "idle")
  /\ job' = [job EXCEPT ![t] = NoJob]
  /\ arg' = [arg EXCEPT ![t] = 1]
  /\ seen' = [seen EXCEPT ![t] = 0]

\* The event is queued; a mapping returns the pointer of now.
Queue(t) ==
  LET c == job[t] IN
  /\ Leave(t)
  /\ IF c.op = "Map"
     THEN /\ maps' = maps \union
               {[buffer |-> Arg(t), dev |-> c.dev, off |-> c.off,
                 to |-> Plus(ptr[Arg(t)][c.dev], c.off)]}
          /\ UNCHANGED cmds
     ELSE /\ cmds' = [cmds EXCEPT ![c.dev] = Append(@, c)]
          /\ UNCHANGED maps

NextArg(t) ==
  \/ /\ arg[t] < Len(job[t].args) /\ Go(t, "check")
     /\ arg' = [arg EXCEPT ![t] = @ + 1]
     /\ UNCHANGED <<job, seen, maps, cmds>>
  \/ arg[t] >= Len(job[t].args) /\ Queue(t)

\* Mutant: allocated() is not asked.
NeededAgain(t) == job[t].op = "Kernel" => ptr[Arg(t)][Dev(t)] = NullPtr

\* MemObject::allocate on the object, or SubBuffer::allocate on its parent.
\* A kernel only calls it for a pointer that is null.
Needed(t) ==
  /\ job[t].op = "Kernel" => ptr[Arg(t)][Dev(t)] = NullPtr
  /\ TargetPtr(t) = NullPtr

CheckAllocated(t) ==
  /\ At(t, "check")
  /\ \/ /\ Needed(t) /\ Go(t, "test")
        /\ UNCHANGED <<job, arg, seen, maps, cmds>>
     \/ ~Needed(t) /\ NextArg(t)
  /\ UNCHANGED <<objVars, dataVars, countVars, exited, dead, made, expect>>

\* LE1Buffer::allocate.
TestData(t) ==
  /\ At(t, "test")
  /\ Go(t, IF TargetPtr(t) = NullPtr THEN "malloc" ELSE "copy")
  /\ UNCHANGED <<objVars, dataVars, countVars, exited, maps, cmds, dead, made, job, arg, seen,
                 expect>>

Malloc(t) ==
  /\ At(t, "malloc") /\ Go(t, "copy")
  /\ LET bl == Block(Target(t), Dev(t), t) IN
       /\ ptr' = [ptr EXCEPT ![Target(t)][Dev(t)] = Pointer(bl, 0)]
       /\ mem' = [mem EXCEPT ![bl] = Filled(0)]
  /\ UNCHANGED <<objVars, countVars, exited, maps, cmds, dead, made, job, arg, seen, expect>>

\* Mutant: the failed command is kept.
MallocFailsKeeping(t) ==
  /\ At(t, "malloc") /\ Go(t, "idle")
  /\ UNCHANGED <<objVars, dataVars, countVars, exited, maps, cmds, dead, made, job, arg, seen,
                 expect>>

\* The command's constructor fails, and clEnqueue... with it.
MallocFails(t) ==
  /\ At(t, "malloc") /\ Leave(t)
  /\ UNCHANGED <<objVars, dataVars, countVars, exited, maps, cmds, dead, made, expect>>

\* memcpy from the host's data, which ends the process if that is gone.
CopyIn(t) ==
  /\ At(t, "copy") /\ Go(t, "load")
  /\ LET b == Target(t) IN
       /\ exited' = (kind[b] = "copy" /\ hostCopy[b] # "kept")
       /\ mem' = IF kind[b] = "copy" THEN [mem EXCEPT ![TargetPtr(t).block] = Filled(-1)] ELSE mem
  /\ UNCHANGED <<objVars, ptr, countVars, maps, cmds, dead, made, job, arg, seen, expect>>

\* deviceAllocated: p_devices_to_allocate-- is a load and a store.
LoadCount(t) ==
  /\ At(t, "load") /\ Go(t, "dec")
  /\ seen' = [seen EXCEPT ![t] = toAllocate[Target(t)]]
  /\ UNCHANGED <<objVars, dataVars, countVars, exited, maps, cmds, dead, made, job, arg, expect>>

Decrement(t) ==
  /\ At(t, "dec") /\ Go(t, "testCount")
  /\ toAllocate' = [toAllocate EXCEPT ![Target(t)] = (seen[t] + Modulus - 1) % Modulus]
  /\ counted' = [counted EXCEPT ![Target(t)] = @ \union {Dev(t)}]
  /\ UNCHANGED <<objVars, dataVars, hostCopy, exited, maps, cmds, dead, made, job, arg, seen,
                 expect>>

\* Mutant: the copy is freed when one device is left.
LastOneEarly(t) == toAllocate[Target(t)] <= 1 /\ ~Single /\ kind[Target(t)] = "copy"

\* The count is read again for the test.
LastOne(t) == toAllocate[Target(t)] = 0 /\ ~Single /\ kind[Target(t)] = "copy"

TestCount(t) ==
  /\ At(t, "testCount")
  /\ \/ /\ LastOne(t) /\ Go(t, "free")
        /\ UNCHANGED <<job, arg, seen, maps, cmds>>
     \/ ~LastOne(t) /\ NextArg(t)
  /\ UNCHANGED <<objVars, dataVars, countVars, exited, dead, made, expect>>

FreeCopy(t) ==
  /\ At(t, "free") /\ NextArg(t)
  /\ hostCopy' = [hostCopy EXCEPT ![Target(t)] = "freed"]
  /\ UNCHANGED <<objVars, dataVars, toAllocate, counted, exited, dead, made, expect>>

Construct(t) ==
  \/ Enqueue(t) \/ CheckAllocated(t) \/ TestData(t) \/ Malloc(t) \/ MallocFails(t)
  \/ CopyIn(t) \/ LoadCount(t) \/ Decrement(t) \/ TestCount(t) \/ FreeCopy(t)

-----------------------------------------------------------------------------
(* The worker of a device executes the commands in their order.            *)

PtrOf(d, b) == ptr[b][d]
Wild(p) == p.block = NullBlock
Next1(d) == Head(cmds[d])

\* memcpy of a command to or from the data of the buffer: its first cells,
\* for the offset of the command is not added.
Stored(d, b, data) ==
  LET p == PtrOf(d, b)
  IN  [mem EXCEPT ![p.block] =
         [k \in Cells |-> IF k - p.off \in DOMAIN data THEN data[k - p.off] ELSE @[k]]]

Fetched(d, b, n) == [k \in 0 .. n - 1 |-> mem[PtrOf(d, b).block][PtrOf(d, b).off + k]]

\* What the cells of b from off on should hold, seen from d; the cells should
\* be those of the command.
Wanted(d, b, off, n) == [k \in 0 .. n - 1 |-> expect[Root(b)][d][origin[b] + off + k]]

ShouldStore(d, b, off, data) ==
  LET put == [k \in Cells |-> LET j == k - origin[b] - off IN
                IF j \in DOMAIN data THEN data[j] ELSE expect[Root(b)][d][k]]
  IN  expect' = [expect EXCEPT ![Root(b)] =
                   [e \in Device |-> IF e = d \/ kind[Root(b)] = "host" THEN put ELSE @[e]]]

\* The worker takes the next command, unless it waits for the simulator.
Take(d, op) ==
  /\ ~exited /\ d \notin dead /\ cmds[d] # <<>> /\ Next1(d).op = op
  /\ cmds' = [cmds EXCEPT ![d] = Tail(@)]

Sound(d) == \A i \in DOMAIN Next1(d).args : ~Wild(PtrOf(d, Next1(d).args[i]))

Written(c) == [k \in 0 .. c.cb - 1 |-> c.id]

ExecRead(d) ==
  /\ Take(d, "Read") /\ Sound(d)
  /\ UNCHANGED <<objVars, dataVars, countVars, exited, maps, dead, made, threadVars, expect>>

ExecWrite(d) ==
  /\ Take(d, "Write") /\ Sound(d)
  /\ LET c == Next1(d) IN
       /\ mem' = Stored(d, c.args[1], Written(c))
       /\ ShouldStore(d, c.args[1], c.off, Written(c))
  /\ UNCHANGED <<objVars, ptr, countVars, exited, maps, dead, made, threadVars>>

ExecCopy(d) ==
  /\ Take(d, "Copy") /\ Sound(d)
  /\ LET c == Next1(d) IN
       /\ mem' = Stored(d, c.args[2], Fetched(d, c.args[1], c.cb))
       /\ ShouldStore(d, c.args[2], c.off, Wanted(d, c.args[1], c.off, c.cb))
  /\ UNCHANGED <<objVars, ptr, countVars, exited, maps, dead, made, threadVars>>

\* The kernel writes its whole buffer, which is read back.
ExecKernel(d) ==
  /\ Take(d, "Kernel") /\ Sound(d)
  /\ LET c == Next1(d) IN
       /\ mem' = Stored(d, c.args[1], Written(c))
       /\ ShouldStore(d, c.args[1], 0, Written(c))
  /\ UNCHANGED <<objVars, ptr, countVars, exited, maps, dead, made, threadVars>>

\* run finds no data and returns with the simulator locked.
KernelAbandoned(d) ==
  /\ Take(d, "Kernel") /\ PtrOf(d, Next1(d).args[1]) = NullPtr
  /\ dead' = dead \union {d}
  /\ UNCHANGED <<objVars, dataVars, countVars, exited, maps, made, threadVars, expect>>

\* The null pointer, plus an offset or not, is used.
BadPointer(d) ==
  /\ \E op \in Ops : Take(d, op)
  /\ ~Sound(d)
  /\ Next1(d).op = "Kernel" => PtrOf(d, Next1(d).args[1]) # NullPtr
  /\ exited' = TRUE
  /\ UNCHANGED <<objVars, dataVars, countVars, maps, dead, made, threadVars, expect>>

Execute(d) ==
  \/ ExecRead(d) \/ ExecWrite(d) \/ ExecCopy(d) \/ ExecKernel(d) \/ KernelAbandoned(d)
  \/ BadPointer(d)

Next ==
  \/ \E t \in Thread : Create(t) \/ Construct(t)
  \/ \E d \in Device : Execute(d)

Spec == Init /\ [][Next]_vars

-----------------------------------------------------------------------------
(* Properties.                                                             *)

Places == {"idle", "check", "test", "malloc", "copy", "load", "dec", "testCount", "free"}

\* Every variable has a value of its type; a thread has a command exactly when
\* it is constructing one.
TypeOK ==
  /\ ctx \in SUBSET Device
  /\ kind \in [Buffer -> Kinds \union {"none"}]
  /\ parent \in [Buffer -> Buffer] /\ origin \in [Buffer -> Cells]
  /\ ptr \in [Buffer -> [Device -> Pointers]]
  /\ mem \in [Blocks -> [Cells -> Int]]
  /\ toAllocate \in [Buffer -> 0 .. Modulus - 1]
  /\ hostCopy \in [Buffer -> {"none", "kept", "freed"}]
  /\ base \in [Device -> Nat] /\ exited \in BOOLEAN
  /\ maps \subseteq [buffer : Buffer, dev : Device, off : Cells, to : Pointers]
  /\ cmds \in [Device -> Seq(Jobs)]
  /\ dead \subseteq Device /\ made \in Nat
  /\ pc \in [Thread -> Places]
  /\ job \in [Thread -> Jobs \union {NoJob}]
  /\ \A t \in Thread : (pc[t] = "idle") = (job[t] = NoJob)
  /\ \A t \in Thread : pc[t] # "idle" => arg[t] \in DOMAIN job[t].args
  /\ arg \in [Thread -> Nat] /\ seen \in [Thread -> Nat]
  /\ counted \in [Buffer -> SUBSET Device]
  /\ expect \in [Buffer -> [Device -> [Cells -> Int]]]

\* "If it becomes 0, it means we don't need to keep a copied host_ptr and that
\* we can std::free() it" (memobject.cpp): the copy is there whenever a thread
\* is about to give it to a device.
CopyHasSource == \A t \in Thread :
  pc[t] = "copy" /\ kind[Target(t)] = "copy" => hostCopy[Target(t)] = "kept"

\* A pointer that was derived from a buffer's, for a sub-buffer when that was
\* created or for a mapping when it was enqueued, points to the buffer's memory
\* on the device for ever: LE1Buffer::allocate gives no second block.
AliasesHold ==
  /\ \A b \in Buffer, d \in ctx : kind[b] = "sub" /\ ~Wild(ptr[b][d]) =>
       ptr[b][d] = Plus(ptr[parent[b]][d], origin[b])
  /\ \A m \in maps : ~Wild(m.to) => m.to = Plus(ptr[m.buffer][m.dev], m.off)

\* A read gets what the last commands on the device left in the buffer, or what
\* the host gave it with: no initial copy comes after a write, and a sub-buffer
\* and its parent are the same memory.
ReadsLatest == [][\A d \in Device : ExecRead(d) =>
  LET c == Next1(d)
      got == Fetched(d, c.args[1], c.cb)
      want == Wanted(d, c.args[1], c.off, c.cb)
  IN  \A k \in DOMAIN want : want[k] # 0 => got[k] = want[k]]_vars
=============================================================================
