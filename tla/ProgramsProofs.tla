--------------------------- MODULE ProgramsProofs ---------------------------
(***************************************************************************)
(* For any number of threads, devices, programs, kernels and commands: a   *)
(* program that has kernels stays built from its own text, and a command   *)
(* runs the code and the arguments it was enqueued with, unless one of the *)
(* calls came between that the code cannot bear.                           *)
(***************************************************************************)
EXTENDS Programs, TLAPS

Building  == {"check", "expand"}
Compiling == {"source", "coarsen", "assembly", "transform"}

\* A build is a builder's; the program counts as failed meanwhile, and has its
\* source for the devices that are done.  A program that was built has it for
\* all of them, and only such programs have kernels.
BuildInv ==
  /\ \A t \in Thread : pc[t] \in Building =>
       /\ t \in Builder /\ state[job[t]] = "Failed"
       /\ builtFor[job[t]] # {}
       /\ \A d \in builtFor[job[t]] \ todo[t] : source[job[t]][d] = job[t]
  /\ \A t \in Thread : pc[t] = "expand" => tempFile = job[t]
  /\ \A p \in Program : state[p] = "Built" =>
       builtFor[p] # {} /\ \A d \in builtFor[p] : source[p][d] = p
  /\ \A k \in Kernel : home[k] # None => state[home[k]] = "Built"

\* A command is of a kernel that has arguments, on a device that its program
\* was built for.
CommandInv == \A c \in InFlight :
  /\ cmd[c].kernel \in Kernel /\ cmd[c].dev \in Device
  /\ home[cmd[c].kernel] \in Program
  /\ cmd[c].dev \in builtFor[home[cmd[c].kernel]]
  /\ args[cmd[c].kernel] \in Args

\* A command is with one thread, or once in the list of its device, or in the
\* hands of its worker.
PlaceInv ==
  /\ \A t \in Thread : pc[t] \in Compiling => stage[job[t]] = "compiling"
  /\ \A t, u \in Thread : pc[t] \in Compiling /\ pc[u] \in Compiling /\ job[t] = job[u] => t = u
  /\ \A d \in Device : \A i \in DOMAIN fifo[d] :
       stage[fifo[d][i]] = "queued" /\ cmd[fifo[d][i]].dev = d
  /\ \A d \in Device : \A i, j \in DOMAIN fifo[d] : fifo[d][i] = fifo[d][j] => i = j
  /\ \A d \in Device : hand[d] # None => stage[hand[d]] = "running" /\ cmd[hand[d]].dev = d
  /\ \A c \in Command : stage[c] = "running" => hand[cmd[c].dev] = c

\* Whoever shares its name with an undisturbed command goes to the same device,
\* and is compiled while that still needs the host's files only if it is over.
ApartInv == \A o \in InFlight \ disturbed : \A c \in InFlight \ {o} : NameOf(c) = NameOf(o) =>
  /\ cmd[c].dev = cmd[o].dev
  /\ Copied(o) \/ stage[c] # "compiling"

Enqueued(c) == [source |-> home[cmd[c].kernel], command |-> c,
                scalars |-> args[cmd[c].kernel], data |-> args[cmd[c].kernel]]
Made(c) == [source |-> home[cmd[c].kernel], command |-> c,
            scalars |-> args[cmd[c].kernel], data |-> None]

WantInv == \A c \in InFlight \ disturbed : want[c] = Enqueued(c)

\* What the host has made for an undisturbed command so far.
HostInv ==
  /\ \A t \in Thread : pc[t] \in Compiling /\ job[t] \notin disturbed =>
       /\ pc[t] = "coarsen" => clFile[NameOf(job[t])] = home[cmd[job[t]].kernel]
       /\ pc[t] = "assembly" => code[t] = Made(job[t])
       /\ pc[t] = "transform" => tempAsm[NameOf(job[t])] = Made(job[t])
  /\ \A c \in InFlight \ disturbed : stage[c] # "compiling" /\ ~Copied(c) =>
       kernelAsm[NameOf(c)] = Made(c)

\* What the worker has made of it.
RunInv == \A d \in Device : hand[d] # None /\ hand[d] \notin disturbed =>
  /\ wpc[d] = "append" => finalAsm[NameOf(hand[d])] = Made(hand[d])
  /\ wpc[d] = "assemble" => finalAsm[NameOf(hand[d])] = Enqueued(hand[d])
  /\ wpc[d] = "simulate" => binary[NameOf(hand[d])] = Enqueued(hand[d])
  /\ wpc[d] = "read" => ran[hand[d]] = Enqueued(hand[d])

FilesInv == /\ TypeOK /\ BuildInv /\ CommandInv /\ PlaceInv
            /\ ApartInv /\ WantInv /\ HostInv /\ RunInv

-----------------------------------------------------------------------------
(* Types.                                                                  *)

ProgramTypes ==
  /\ state \in [Program -> {"Empty", "Loaded", "Failed", "Built"}]
  /\ builtFor \in [Program -> SUBSET Device]
  /\ source \in [Program -> [Device -> Program \union {None}]]
  /\ tempFile \in Program \union {None}

KernelTypes ==
  /\ home \in [Kernel -> Program \union {None}] /\ name \in [Kernel -> Name]
  /\ args \in [Kernel -> Args \union {None}]
  /\ sets \in 0 .. MaxSets

ThreadTypes ==
  /\ pc \in [Thread -> {"idle"} \union Building \union Compiling]
  /\ job \in [Thread -> Program \union Command \union {None}]
  /\ todo \in [Thread -> SUBSET Device] /\ code \in [Thread -> Codes]
  /\ \A t \in Thread :
       /\ pc[t] = "idle" => job[t] = None
       /\ pc[t] \in Building => job[t] \in Program
       /\ pc[t] \in Compiling => job[t] \in Command

FileTypes ==
  /\ clFile \in [Name -> Program \union {None}]
  /\ tempAsm \in [Name -> Codes] /\ kernelAsm \in [Name -> Codes]
  /\ finalAsm \in [Name -> Codes] /\ binary \in [Name -> Codes]

CommandTypes ==
  /\ cmd \in [Command -> [kernel : Kernel \union {None}, dev : Device \union {None}]]
  /\ stage \in [Command ->
       {"new", "compiling", "queued", "running", "done", "failed", "rejected"}]
  /\ ran \in [Command -> Codes]
  /\ want \in [Command -> Codes] /\ disturbed \subseteq Command

WorkerTypes ==
  /\ fifo \in [Device -> Seq(Command)]
  /\ wpc \in [Device -> {"idle", "copy", "append", "assemble", "simulate", "read"}]
  /\ hand \in [Device -> Command \union {None}]
  /\ \A d \in Device : wpc[d] = "idle" <=> hand[d] = None

\* The type invariant by groups of variables.
LEMMA TypeGroups ==
  TypeOK <=> /\ ProgramTypes /\ KernelTypes /\ ThreadTypes
             /\ FileTypes /\ CommandTypes /\ WorkerTypes
<1>1. TypeOK => ProgramTypes /\ KernelTypes /\ WorkerTypes
  BY DEF TypeOK, ProgramTypes, KernelTypes, WorkerTypes
<1>2. TypeOK => CommandTypes /\ FileTypes
  BY DEF TypeOK, CommandTypes, FileTypes
<1>3. TypeOK => ThreadTypes
  BY DEF TypeOK, ThreadTypes, Building, Compiling
<1>4. ASSUME ProgramTypes, KernelTypes, ThreadTypes, FileTypes, CommandTypes, WorkerTypes
      PROVE  TypeOK
  <2>1. \A f \in {tempAsm, kernelAsm, finalAsm, binary} : f \in [Name -> Codes]
    BY <1>4 DEF FileTypes
  <2>2. pc \in [Thread -> {"idle", "check", "expand", "source", "coarsen", "assembly", "transform"}]
    BY <1>4 DEF ThreadTypes, Building, Compiling
  <2> QED BY <1>4, <2>1, <2>2 DEF TypeOK, ProgramTypes, KernelTypes, ThreadTypes, Building, Compiling,
             FileTypes, CommandTypes, WorkerTypes
<1> QED BY <1>1, <1>2, <1>3, <1>4

\* A thread that builds has a program, one that compiles a command.
LEMMA JobTypes ==
  ASSUME TypeOK, NEW t \in Thread
  PROVE  /\ pc[t] = "idle" => job[t] = None
         /\ pc[t] \in Building => job[t] \in Program
         /\ pc[t] \in Compiling => job[t] \in Command
  BY DEF TypeOK, Building, Compiling

\* A command in flight has a kernel with a name, and a device.
LEMMA CommandOf ==
  ASSUME TypeOK, CommandInv, NEW c \in InFlight
  PROVE  /\ c \in Command /\ cmd[c].kernel \in Kernel /\ cmd[c].dev \in Device
         /\ NameOf(c) \in Name
         /\ home[cmd[c].kernel] \in Program /\ args[cmd[c].kernel] \in Args
  BY DEF TypeOK, CommandInv, InFlight, NameOf

\* The command of a thread, and that of a worker, are in flight.
LEMMA JobInFlight ==
  ASSUME TypeOK, PlaceInv
  PROVE  /\ \A t \in Thread : pc[t] \in Compiling => job[t] \in InFlight
         /\ \A d \in Device : wpc[d] # "idle" => hand[d] \in InFlight /\ hand[d] # None
<1>1. ASSUME NEW t \in Thread, pc[t] \in Compiling
      PROVE  job[t] \in InFlight
  BY <1>1, JobTypes DEF PlaceInv, InFlight
<1>2. ASSUME NEW d \in Device, wpc[d] # "idle"
      PROVE  hand[d] \in InFlight /\ hand[d] # None
  <2>1. hand[d] \in Command /\ hand[d] # None
    BY <1>2 DEF TypeOK
  <2> QED BY <2>1 DEF PlaceInv, InFlight
<1> QED BY <1>1, <1>2

\* What is left of a command that is over.
LEMMA ForgetTypes ==
  ASSUME CommandTypes, NEW c, Forget(c)
  PROVE  /\ cmd' \in [Command -> [kernel : Kernel \union {None}, dev : Device \union {None}]]
         /\ ran' \in [Command -> Codes] /\ want' \in [Command -> Codes]
         /\ disturbed' \subseteq Command
<1>1. NoCode \in Codes
  BY DEF NoCode, Codes
<1> QED BY <1>1 DEF CommandTypes, Forget

\* Programs keep their types: builds write devices and sources.
LEMMA ProgramTypesNext ==
  ASSUME TypeOK, Next
  PROVE  ProgramTypes'
<1>1. ProgramTypes /\ ThreadTypes
  BY TypeGroups
<1>2. ASSUME NEW t \in Thread, Host(t)
      PROVE  ProgramTypes'
  <2>1. ASSUME NEW p \in Program, Load(t, p) \/ BuildStart(t, p)
        PROVE  ProgramTypes'
    BY <1>1, <2>1, ProgramsOK DEF Load, BuildStart, ProgramTypes
  <2>2. CASE BuildWrite(t) \/ BuildEnd(t) \/ BuildFails(t)
    BY <1>1, <2>2 DEF BuildWrite, BuildEnd, BuildFails, ProgramTypes, ThreadTypes, Building, programVars
  <2>3. ASSUME NEW d \in Device, BuildRead(t, d)
        PROVE  ProgramTypes'
    BY <1>1, <2>3 DEF BuildRead, ProgramTypes, ThreadTypes, Building
  <2>4. CASE UNCHANGED programVars
    BY <1>1, <2>4 DEF programVars, ProgramTypes
  <2> QED BY <1>2, <2>1, <2>2, <2>3, <2>4
          DEF Host, CreateKernel, SetArg, Enqueue, WriteSource, Launch, WriteAssembly,
              Transform, CompileFails
<1>3. ASSUME NEW d \in Device, Worker(d)
      PROVE  UNCHANGED programVars
  BY <1>3 DEF Worker, TakeUp, Copy, AppendDataArea, Assemble, Simulate, ReadBack, RunFails
<1> QED BY <1>1, <1>2, <1>3 DEF Next, programVars, ProgramTypes

\* Kernels keep their types.
LEMMA KernelTypesNext ==
  ASSUME TypeOK, Next
  PROVE  KernelTypes'
<1>1. KernelTypes
  BY TypeGroups
<1>2. ASSUME NEW t \in Thread, Host(t)
      PROVE  KernelTypes'
  <2>1. ASSUME NEW k \in Kernel, NEW p \in Program, CreateKernel(t, k, p)
        PROVE  KernelTypes'
    BY <1>1, <2>1 DEF CreateKernel, KernelTypes
  <2>2. ASSUME NEW k \in Kernel, NEW v \in Args, SetArg(t, k, v)
        PROVE  KernelTypes'
    <3>1. sets' \in 0 .. MaxSets
      BY <1>1, <2>2, ProgramsOK DEF SetArg, KernelTypes
    <3> QED BY <1>1, <2>2, <3>1 DEF SetArg, KernelTypes
  <2>3. CASE UNCHANGED kernelVars
    BY <1>1, <2>3 DEF kernelVars, KernelTypes
  <2> QED BY <1>2, <2>1, <2>2, <2>3
          DEF Host, Load, BuildStart, BuildWrite, BuildRead, BuildFails, BuildEnd, Enqueue,
              WriteSource, Launch, WriteAssembly, Transform, CompileFails
<1>3. ASSUME NEW d \in Device, Worker(d)
      PROVE  UNCHANGED kernelVars
  BY <1>3 DEF Worker, TakeUp, Copy, AppendDataArea, Assemble, Simulate, ReadBack, RunFails
<1> QED BY <1>1, <1>2, <1>3 DEF Next, kernelVars, KernelTypes

\* A thread is given programs to build and commands to compile.
LEMMA ThreadTypesNext ==
  ASSUME TypeOK, CommandInv, PlaceInv, Next
  PROVE  ThreadTypes'
<1>1. ThreadTypes /\ ProgramTypes /\ KernelTypes /\ FileTypes
  BY TypeGroups
<1>2. NoCode \in Codes
  BY DEF NoCode, Codes
<1>3. ASSUME NEW t \in Thread, Host(t)
      PROVE  ThreadTypes'
  <2> DEFINE Moved(l, j) ==
        pc' = [pc EXCEPT ![t] = l] /\ job' = [job EXCEPT ![t] = j]
  <2>1. ASSUME NEW l, NEW j, Moved(l, j),
               \/ l = "idle" /\ j = None
               \/ l \in Building /\ j \in Program
               \/ l \in Compiling /\ j \in Command,
               todo' \in [Thread -> SUBSET Device], code' \in [Thread -> Codes]
        PROVE  ThreadTypes'
    BY <1>1, <2>1 DEF ThreadTypes, Building, Compiling
  <2> HIDE DEF Moved
  <2>2. ASSUME NEW p \in Program, BuildStart(t, p)
        PROVE  ThreadTypes'
    <3>1. todo' \in [Thread -> SUBSET Device] /\ code' = code
      BY <1>1, <2>2, ProgramsOK DEF BuildStart, ThreadTypes, ProgramTypes
    <3>2. Moved("check", p)
      BY <2>2 DEF BuildStart, Goto, Moved
    <3> QED BY <1>1, <2>1, <3>1, <3>2 DEF ThreadTypes, Building
  <2>3. CASE BuildWrite(t)
    <3>1. Moved("expand", job[t]) /\ job[t] \in Program /\ UNCHANGED <<todo, code>>
      BY <1>1, <2>3 DEF BuildWrite, Goto, Moved, ThreadTypes, Building
    <3> QED BY <1>1, <2>1, <3>1 DEF ThreadTypes, Building
  <2>4. CASE BuildEnd(t) \/ BuildFails(t)
    <3>1. Moved("idle", None) /\ todo' \in [Thread -> SUBSET Device] /\ code' = code
      BY <1>1, <2>4 DEF BuildEnd, BuildFails, Goto, Moved, ThreadTypes
    <3> QED BY <1>1, <2>1, <3>1 DEF ThreadTypes
  <2>5. ASSUME NEW d \in Device, BuildRead(t, d)
        PROVE  ThreadTypes'
    <3>1. Moved("check", job[t]) /\ job[t] \in Program /\ code' = code
      BY <1>1, <2>5 DEF BuildRead, Goto, Moved, ThreadTypes, Building
    <3>2. todo' \in [Thread -> SUBSET Device]
      BY <1>1, <2>5 DEF BuildRead, ThreadTypes
    <3> QED BY <1>1, <2>1, <3>1, <3>2 DEF ThreadTypes, Building
  <2>6. ASSUME NEW c \in Command, NEW k \in Kernel, NEW d \in Device, Enqueue(t, c, k, d)
        PROVE  ThreadTypes'
    <3>1. Moved("source", c) /\ UNCHANGED <<todo, code>>
      BY <2>6 DEF Enqueue, Goto, Moved
    <3> QED BY <1>1, <2>1, <3>1 DEF ThreadTypes, Compiling
  <2>7. CASE WriteSource(t)
    <3>1. Moved("coarsen", job[t]) /\ job[t] \in Command /\ UNCHANGED <<todo, code>>
      BY <1>1, <2>7 DEF WriteSource, Goto, Moved, ThreadTypes, Compiling
    <3> QED BY <1>1, <2>1, <3>1 DEF ThreadTypes, Compiling
  <2>8. ASSUME NEW coarsened \in BOOLEAN, Launch(t, coarsened)
        PROVE  ThreadTypes'
    <3>1. pc[t] \in Compiling /\ job[t] \in Command /\ job[t] \in InFlight
      BY <1>1, <2>8, JobInFlight DEF Launch, Compiling, ThreadTypes
    <3>2. /\ cmd[job[t]].kernel \in Kernel /\ cmd[job[t]].dev \in Device
          /\ NameOf(job[t]) \in Name
          /\ home[cmd[job[t]].kernel] \in Program /\ args[cmd[job[t]].kernel] \in Args
      BY <3>1, CommandOf
    <3>3. Moved("assembly", job[t]) /\ todo' = todo
      BY <1>1, <2>8 DEF Launch, Goto, Moved, ThreadTypes
    <3>4. clFile[NameOf(job[t])] \in Program \union {None}
          /\ source[home[cmd[job[t]].kernel]][cmd[job[t]].dev] \in Program \union {None}
      BY <1>1, <3>2 DEF FileTypes, ProgramTypes
    <3> DEFINE s == IF coarsened THEN clFile[NameOf(job[t])]
                    ELSE source[home[cmd[job[t]].kernel]][cmd[job[t]].dev]
    <3>5. /\ s \in Program \union {None}
          /\ code' = [code EXCEPT ![t] = [source |-> s, command |-> job[t],
                       scalars |-> args[cmd[job[t]].kernel], data |-> None]]
      BY <2>8, <3>4 DEF Launch, NameOf
    <3> HIDE DEF s
    <3>6. code' \in [Thread -> Codes]
      BY <1>1, <3>1, <3>2, <3>5 DEF Codes, ThreadTypes
    <3> QED BY <1>1, <2>1, <3>1, <3>3, <3>6 DEF ThreadTypes, Compiling
  <2>9. CASE WriteAssembly(t)
    <3>1. Moved("transform", job[t]) /\ job[t] \in Command /\ todo' = todo
          /\ code' \in [Thread -> Codes]
      BY <1>1, <1>2, <2>9 DEF WriteAssembly, Goto, Moved, ThreadTypes, Compiling
    <3> QED BY <1>1, <2>1, <3>1 DEF ThreadTypes, Compiling
  <2>10. CASE Transform(t) \/ CompileFails(t)
    <3>1. Moved("idle", None) /\ todo' = todo /\ code' \in [Thread -> Codes]
      BY <1>1, <1>2, <2>10 DEF Transform, CompileFails, Goto, Moved, ThreadTypes
    <3> QED BY <1>1, <2>1, <3>1 DEF ThreadTypes
  <2>11. CASE UNCHANGED threadVars
    BY <1>1, <2>11 DEF threadVars, ThreadTypes
  <2> QED BY <1>3, <2>2, <2>3, <2>4, <2>5, <2>6, <2>7, <2>8, <2>9, <2>10, <2>11
          DEF Host, Load, CreateKernel, SetArg
<1>4. ASSUME NEW d \in Device, Worker(d)
      PROVE  UNCHANGED threadVars
  BY <1>4 DEF Worker, TakeUp, Copy, AppendDataArea, Assemble, Simulate, ReadBack, RunFails
<1> QED BY <1>1, <1>3, <1>4 DEF Next, threadVars, ThreadTypes

\* The worker's step in a case of its own, for a command in flight.
LEMMA WorkerHand ==
  ASSUME TypeOK, CommandInv, PlaceInv, NEW d \in Device, wpc[d] # "idle"
  PROVE  /\ hand[d] \in Command /\ hand[d] # None /\ hand[d] \in InFlight
         /\ NameOf(hand[d]) \in Name /\ cmd[hand[d]].kernel \in Kernel
         /\ home[cmd[hand[d]].kernel] \in Program /\ args[cmd[hand[d]].kernel] \in Args
  BY JobInFlight, CommandOf

\* Files hold sources and code.
LEMMA FileTypesNext ==
  ASSUME TypeOK, CommandInv, PlaceInv, Next
  PROVE  FileTypes'
<1>1. FileTypes /\ ThreadTypes /\ ProgramTypes
  BY TypeGroups
<1>2. ASSUME NEW t \in Thread, Host(t)
      PROVE  FileTypes'
  <2>1. CASE WriteSource(t)
    <3>1. job[t] \in InFlight
      BY <2>1, JobInFlight DEF WriteSource, Compiling
    <3>2. source[home[cmd[job[t]].kernel]][cmd[job[t]].dev] \in Program \union {None}
      BY <1>1, <3>1, CommandOf DEF ProgramTypes
    <3> QED BY <1>1, <2>1, <3>2 DEF WriteSource, FileTypes, runFiles
  <2>2. CASE WriteAssembly(t)
    BY <1>1, <2>2 DEF WriteAssembly, FileTypes, ThreadTypes, runFiles
  <2>3. CASE Transform(t)
    <3>1. job[t] \in InFlight
      BY <2>3, JobInFlight DEF Transform, Compiling
    <3>2. NameOf(job[t]) \in Name
      BY <3>1, CommandOf
    <3> QED BY <1>1, <2>3, <3>2 DEF Transform, FileTypes, runFiles
  <2>4. CASE UNCHANGED <<hostFiles, runFiles>>
    BY <1>1, <2>4 DEF hostFiles, runFiles, FileTypes
  <2> QED BY <1>2, <2>1, <2>2, <2>3, <2>4
          DEF Host, Load, BuildStart, BuildWrite, BuildRead, BuildFails, BuildEnd,
              CreateKernel, SetArg, Enqueue, Launch, CompileFails
<1>3. ASSUME NEW d \in Device, Worker(d)
      PROVE  FileTypes'
  <2>1. CASE Copy(d)
    <3>1. NameOf(hand[d]) \in Name
      BY <2>1, WorkerHand DEF Copy
    <3> QED BY <1>1, <2>1, <3>1 DEF Copy, FileTypes, hostFiles
  <2>2. CASE AppendDataArea(d)
    <3>1. NameOf(hand[d]) \in Name /\ args[cmd[hand[d]].kernel] \in Args
      BY <2>2, WorkerHand DEF AppendDataArea
    <3> DEFINE f == finalAsm[NameOf(hand[d])]
    <3>3. f \in Codes
      BY <1>1, <3>1 DEF FileTypes
    <3>4. [f EXCEPT !.data = args[cmd[hand[d]].kernel]] \in Codes
      BY <3>1, <3>3 DEF Codes
    <3>5. finalAsm' = [finalAsm EXCEPT ![NameOf(hand[d])] =
                         [f EXCEPT !.data = args[cmd[hand[d]].kernel]]]
      BY <2>2 DEF AppendDataArea, Destination
    <3>2. finalAsm' \in [Name -> Codes]
      BY <1>1, <3>1, <3>4, <3>5 DEF FileTypes
    <3> QED BY <1>1, <2>2, <3>2 DEF AppendDataArea, FileTypes, hostFiles
  <2>3. CASE Assemble(d)
    <3>1. NameOf(hand[d]) \in Name
      BY <2>3, WorkerHand DEF Assemble
    <3> QED BY <1>1, <2>3, <3>1 DEF Assemble, FileTypes, hostFiles
  <2>4. CASE UNCHANGED <<hostFiles, runFiles>>
    BY <1>1, <2>4 DEF hostFiles, runFiles, FileTypes
  <2> QED BY <1>3, <2>1, <2>2, <2>3, <2>4 DEF Worker, TakeUp, Simulate, ReadBack, RunFails
<1> QED BY <1>2, <1>3 DEF Next

\* Commands and what is recorded of them keep their types.
LEMMA CommandTypesNext ==
  ASSUME TypeOK, CommandInv, PlaceInv, Next
  PROVE  CommandTypes'
<1>1. /\ CommandTypes /\ ThreadTypes /\ KernelTypes /\ FileTypes /\ WorkerTypes
  BY TypeGroups
<1>2. ASSUME NEW t \in Thread, Host(t)
      PROVE  CommandTypes'
  <2>1. ASSUME NEW k \in Kernel, NEW v \in Args, SetArg(t, k, v)
        PROVE  CommandTypes'
    BY <1>1, <2>1 DEF SetArg, CommandTypes, InFlight
  <2>2. ASSUME NEW c \in Command, NEW k \in Kernel, NEW d \in Device, Enqueue(t, c, k, d)
        PROVE  CommandTypes'
    <3>1. cmd' \in [Command -> [kernel : Kernel \union {None}, dev : Device \union {None}]]
          /\ stage' \in [Command ->
                 {"new", "compiling", "queued", "running", "done", "failed", "rejected"}]
          /\ ran' = ran
      BY <1>1, <2>2 DEF Enqueue, CommandTypes
    <3>2. home[k] \in Program /\ args[k] \in Args
      BY <1>1, <2>2 DEF Enqueue, KernelTypes
    <3>3. want' \in [Command -> Codes]
      BY <1>1, <2>2, <3>2 DEF Enqueue, CommandTypes, Codes
    <3>4. disturbed' \subseteq Command
      BY <1>1, <2>2 DEF Enqueue, CommandTypes, InFlight
    <3> QED BY <1>1, <3>1, <3>3, <3>4 DEF CommandTypes
  <2>3. CASE Transform(t)
    BY <1>1, <2>3 DEF Transform, CommandTypes, history
  <2>4. CASE CompileFails(t)
    <3>1. Forget(job[t])
      BY <2>4 DEF CompileFails
    <3> QED BY <1>1, <2>4, <3>1, ForgetTypes DEF CompileFails, CommandTypes
  <2>5. CASE UNCHANGED <<cmd, stage, history>>
    BY <1>1, <2>5 DEF history, CommandTypes
  <2> QED BY <1>2, <2>1, <2>2, <2>3, <2>4, <2>5
          DEF Host, Load, BuildStart, BuildWrite, BuildRead, BuildFails, BuildEnd,
              CreateKernel, WriteSource, Launch, WriteAssembly
<1>3. ASSUME NEW d \in Device, Worker(d)
      PROVE  CommandTypes'
  <2>1. CASE TakeUp(d)
    BY <1>1, <2>1 DEF TakeUp, CommandTypes, history
  <2>2. CASE Simulate(d)
    <3>1. NameOf(hand[d]) \in Name
      BY <2>2, WorkerHand DEF Simulate
    <3> QED BY <1>1, <2>2, <3>1 DEF Simulate, CommandTypes, FileTypes
  <2>3. CASE ReadBack(d) \/ RunFails(d)
    <3>1. Forget(hand[d])
      BY <2>3 DEF ReadBack, RunFails
    <3> QED BY <1>1, <2>3, <3>1, ForgetTypes DEF ReadBack, RunFails, CommandTypes
  <2>4. CASE UNCHANGED <<cmd, stage, history>>
    BY <1>1, <2>4 DEF history, CommandTypes
  <2> QED BY <1>3, <2>1, <2>2, <2>3, <2>4 DEF Worker, Copy, AppendDataArea, Assemble
<1> QED BY <1>2, <1>3 DEF Next

\* The head of a list is its first element, and the tail has the others.
LEMMA HeadTail ==
  ASSUME NEW S, NEW s \in Seq(S), s # <<>>
  PROVE  /\ 1 \in DOMAIN s /\ Head(s) = s[1] /\ Head(s) \in S /\ Tail(s) \in Seq(S)
         /\ \A i \in DOMAIN Tail(s) : i + 1 \in DOMAIN s /\ Tail(s)[i] = s[i + 1]
         /\ \A i \in DOMAIN Tail(s) : i \in Nat
  OBVIOUS

\* The lists of the devices hold commands, and the workers have one or none.
LEMMA WorkerTypesNext ==
  ASSUME TypeOK, CommandInv, PlaceInv, Next
  PROVE  WorkerTypes'
<1>1. WorkerTypes /\ CommandTypes /\ ThreadTypes
  BY TypeGroups
<1>2. None \notin Command
  BY ProgramsOK
<1>3. ASSUME NEW t \in Thread, Host(t)
      PROVE  WorkerTypes'
  <2>1. CASE Transform(t)
    <3>1. job[t] \in InFlight
      BY <2>1, JobInFlight DEF Transform, Compiling
    <3>2. job[t] \in Command /\ cmd[job[t]].dev \in Device
      BY <3>1, CommandOf
    <3>3. Append(fifo[cmd[job[t]].dev], job[t]) \in Seq(Command)
      BY <1>1, <3>2 DEF WorkerTypes
    <3> QED BY <1>1, <2>1, <3>2, <3>3 DEF Transform, WorkerTypes
  <2>2. CASE UNCHANGED workerVars
    BY <1>1, <2>2 DEF workerVars, WorkerTypes
  <2> QED BY <1>3, <2>1, <2>2
          DEF Host, Load, BuildStart, BuildWrite, BuildRead, BuildFails, BuildEnd,
              CreateKernel, SetArg, Enqueue, WriteSource, Launch, WriteAssembly, CompileFails,
              workerVars
<1>4. ASSUME NEW d \in Device, Worker(d)
      PROVE  WorkerTypes'
  <2>1. CASE TakeUp(d)
    <3>1. Head(fifo[d]) \in Command /\ Tail(fifo[d]) \in Seq(Command)
      BY <1>1, <2>1, HeadTail DEF TakeUp, WorkerTypes
    <3>2. fifo' \in [Device -> Seq(Command)] /\ hand' \in [Device -> Command \union {None}]
      BY <1>1, <2>1, <3>1 DEF TakeUp, WorkerTypes
    <3> QED BY <1>1, <1>2, <2>1, <3>1, <3>2 DEF TakeUp, WorkerAt, WorkerTypes
  <2>2. CASE Copy(d) \/ AppendDataArea(d) \/ Assemble(d) \/ Simulate(d)
    BY <1>1, <2>2 DEF Copy, AppendDataArea, Assemble, Simulate, WorkerAt, WorkerTypes
  <2>3. CASE ReadBack(d) \/ RunFails(d)
    BY <1>1, <2>3 DEF ReadBack, RunFails, WorkerAt, WorkerTypes
  <2> QED BY <1>4, <2>1, <2>2, <2>3 DEF Worker
<1> QED BY <1>3, <1>4 DEF Next

-----------------------------------------------------------------------------
(* Programs.                                                               *)

\* A step of a thread that neither begins nor ends as a builder leaves builds
\* alone.
LEMMA BuildStays ==
  ASSUME TypeOK, BuildInv, UNCHANGED <<programVars, home>>,
         \A t \in Thread : pc'[t] \in Building =>
           pc'[t] = pc[t] /\ job'[t] = job[t] /\ todo'[t] = todo[t]
  PROVE  BuildInv'
<1>1. \A t \in Thread : pc'[t] \in Building =>
        /\ t \in Builder /\ state'[job'[t]] = "Failed"
        /\ builtFor'[job'[t]] # {}
        /\ \A d \in builtFor'[job'[t]] \ todo'[t] : source'[job'[t]][d] = job'[t]
  BY DEF BuildInv, programVars
<1>2. \A t \in Thread : pc'[t] = "expand" => tempFile' = job'[t]
  BY DEF BuildInv, programVars, Building
<1> QED BY <1>1, <1>2 DEF BuildInv, programVars

\* A build ends with a source of its own for every device, or leaves the program failed.
LEMMA BuildNext ==
  ASSUME TypeOK, BuildInv, Next
  PROVE  BuildInv'
<1>1. ThreadTypes /\ ProgramTypes /\ KernelTypes
  BY TypeGroups
<1>2. ASSUME NEW t \in Thread, Host(t)
      PROVE  BuildInv'
  <2>1. ASSUME NEW p \in Program, Load(t, p)
        PROVE  BuildInv'
    BY <1>1, <2>1 DEF Load, BuildInv, ProgramTypes, ThreadTypes, KernelTypes, Building,
       threadVars, kernelVars
  <2>2. ASSUME NEW p \in Program, BuildStart(t, p)
        PROVE  BuildInv'
    <3>1. /\ t \in Builder /\ state[p] = "Loaded" /\ For[p] # {}
          /\ \A u \in Thread : u # t => u \notin Builder
      BY <2>2, ProgramsOK DEF BuildStart
    <3>2. \A u \in Thread : u # t => pc'[u] \notin Building /\ pc'[u] = pc[u]
      BY <1>1, <2>2, <3>1 DEF BuildStart, Goto, BuildInv, ThreadTypes
    <3>3. /\ pc'[t] = "check" /\ job'[t] = p /\ todo'[t] = For[p] /\ builtFor'[p] = For[p]
          /\ state'[p] = "Failed"
      BY <1>1, <2>2, ProgramsOK DEF BuildStart, Goto, ThreadTypes, ProgramTypes
    <3>4. ASSUME NEW u \in Thread, pc'[u] \in Building
          PROVE  /\ u \in Builder /\ state'[job'[u]] = "Failed" /\ builtFor'[job'[u]] # {}
                 /\ \A d \in builtFor'[job'[u]] \ todo'[u] : source'[job'[u]][d] = job'[u]
      BY <3>1, <3>2, <3>3, <3>4
    <3>5. \A u \in Thread : pc'[u] = "expand" => tempFile' = job'[u]
      BY <3>2, <3>3 DEF Building
    <3>6. \A q \in Program : state'[q] = "Built" =>
            builtFor'[q] # {} /\ \A d \in builtFor'[q] : source'[q][d] = q
      BY <1>1, <2>2 DEF BuildStart, BuildInv, ProgramTypes
    <3>7. \A k \in Kernel : home'[k] # None => state'[home'[k]] = "Built"
      BY <1>1, <2>2, <3>1 DEF BuildStart, BuildInv, ProgramTypes, KernelTypes, kernelVars
    <3> QED BY <3>4, <3>5, <3>6, <3>7 DEF BuildInv
  <2>3. CASE BuildWrite(t)
    <3>1. t \in Builder /\ \A u \in Thread : pc[u] \in Building => u = t
      BY <2>3, ProgramsOK DEF BuildWrite, BuildInv, Building
    <3>2. \A u \in Thread : pc'[u] \in Building => u = t /\ pc[u] \in Building
      BY <1>1, <2>3, <3>1 DEF BuildWrite, Goto, ThreadTypes, Building
    <3>3. UNCHANGED <<state, builtFor, source, home, job, todo>> /\ tempFile' = job[t]
      BY <2>3 DEF BuildWrite, kernelVars
    <3>4. \A u \in Thread : pc'[u] = "expand" => tempFile' = job'[u]
      BY <3>2, <3>3 DEF Building
    <3> QED BY <3>2, <3>3, <3>4 DEF BuildInv
  <2>4. CASE BuildFails(t) \/ BuildEnd(t)
    <3>1. pc[t] \in Building /\ job[t] \in Program
      BY <1>1, <2>4 DEF BuildFails, BuildEnd, ThreadTypes, Building
    <3>2. \A u \in Thread : pc[u] \in Building => u = t
      BY <3>1, ProgramsOK DEF BuildInv
    <3>3. \A u \in Thread : pc'[u] \notin Building /\ pc'[u] # "expand"
      BY <1>1, <2>4, <3>2 DEF BuildFails, BuildEnd, Goto, ThreadTypes, Building
    <3>4. CASE BuildFails(t)
      BY <3>3, <3>4 DEF BuildFails, BuildInv, programVars, kernelVars
    <3>5. CASE BuildEnd(t)
      <4>1. todo[t] = {} /\ builtFor[job[t]] # {}
            /\ \A d \in builtFor[job[t]] : source[job[t]][d] = job[t]
        BY <3>1, <3>5 DEF BuildEnd, BuildInv
      <4>2. \A q \in Program : state'[q] = "Built" =>
              builtFor'[q] # {} /\ \A d \in builtFor'[q] : source'[q][d] = q
        BY <1>1, <3>1, <3>5, <4>1 DEF BuildEnd, BuildInv, ProgramTypes
      <4>3. \A k \in Kernel : home'[k] # None => state'[home'[k]] = "Built"
        BY <1>1, <3>5 DEF BuildEnd, BuildInv, ProgramTypes, KernelTypes, kernelVars
      <4> QED BY <3>3, <4>2, <4>3 DEF BuildInv
    <3> QED BY <2>4, <3>4, <3>5
  <2>5. ASSUME NEW d \in Device, BuildRead(t, d)
        PROVE  BuildInv'
    <3>1. pc[t] = "expand" /\ pc[t] \in Building /\ job[t] \in Program /\ tempFile = job[t]
      BY <1>1, <2>5 DEF BuildRead, ThreadTypes, BuildInv, Building
    <3>2. \A u \in Thread : pc[u] \in Building => u = t
      BY <3>1, ProgramsOK DEF BuildInv
    <3>3. /\ \A u \in Thread : pc'[u] \in Building => u = t
          /\ \A u \in Thread : pc'[u] # "expand"
          /\ job' = job /\ todo'[t] = todo[t] \ {d}
      BY <1>1, <2>5, <3>2 DEF BuildRead, Goto, ThreadTypes, Building
    <3>4. source'[job[t]][d] = job[t] /\
          \A q \in Program, e \in Device : q # job[t] \/ e # d => source'[q][e] = source[q][e]
      BY <1>1, <2>5, <3>1 DEF BuildRead, ProgramTypes
    <3>5. t \in Builder /\ state[job[t]] = "Failed" /\ builtFor[job[t]] # {}
          /\ builtFor[job[t]] \subseteq Device
          /\ \A e \in builtFor[job[t]] \ todo[t] : source[job[t]][e] = job[t]
      BY <1>1, <3>1 DEF BuildInv, ProgramTypes
    <3>6. UNCHANGED <<state, builtFor, tempFile, home>>
      BY <2>5 DEF BuildRead, kernelVars
    <3>7. \A e \in builtFor[job[t]] \ todo'[t] : source'[job[t]][e] = job[t]
      BY <3>1, <3>3, <3>4, <3>5
    <3>8. \A q \in Program : state[q] = "Built" =>
            builtFor[q] # {} /\ \A e \in builtFor[q] : source'[q][e] = q
      BY <1>1, <3>4, <3>5 DEF BuildInv, ProgramTypes
    <3> QED BY <3>3, <3>5, <3>6, <3>7, <3>8 DEF BuildInv
  <2>6. ASSUME NEW k \in Kernel, NEW p \in Program, CreateKernel(t, k, p)
        PROVE  BuildInv'
    BY <1>1, <2>6 DEF CreateKernel, BuildInv, KernelTypes, programVars, threadVars
  <2>7. ASSUME NEW c \in Command, NEW k \in Kernel, NEW d \in Device, Enqueue(t, c, k, d)
        PROVE  BuildInv'
    BY <1>1, <2>7, BuildStays DEF Enqueue, Goto, ThreadTypes, Building, kernelVars
  <2>8. ASSUME NEW k \in Kernel, NEW v \in Args, SetArg(t, k, v)
        PROVE  BuildInv'
    BY <2>8, BuildStays DEF SetArg, threadVars
  <2>9. CASE WriteSource(t) \/ WriteAssembly(t) \/ Transform(t) \/ CompileFails(t)
    BY <1>1, <2>9, BuildStays
       DEF WriteSource, WriteAssembly, Transform, CompileFails, Goto, ThreadTypes, Building,
           kernelVars
  <2>10. ASSUME NEW coarsened \in BOOLEAN, Launch(t, coarsened)
         PROVE  BuildInv'
    BY <1>1, <2>10, BuildStays DEF Launch, Goto, ThreadTypes, Building, kernelVars
  <2> QED BY <1>2, <2>1, <2>2, <2>3, <2>4, <2>5, <2>6, <2>7, <2>8, <2>9, <2>10 DEF Host
<1>3. ASSUME NEW d \in Device, Worker(d)
      PROVE  BuildInv'
  <2>1. UNCHANGED <<programVars, kernelVars, threadVars>>
    BY <1>3 DEF Worker, TakeUp, Copy, AppendDataArea, Assemble, Simulate, ReadBack, RunFails
  <2> QED BY <2>1, BuildStays DEF kernelVars, threadVars
<1> QED BY <1>2, <1>3 DEF Next

-----------------------------------------------------------------------------
(* Commands.                                                               *)

\* What a command's kernel is and has does not change as long as it is in
\* flight, but for the arguments, by clSetKernelArg.
LEMMA CommandStays ==
  ASSUME TypeOK, BuildInv, CommandInv, PlaceInv, Next, NEW c \in InFlight, c \in InFlight'
  PROVE  /\ cmd'[c] = cmd[c] /\ NameOf(c)' = NameOf(c)
         /\ home'[cmd[c].kernel] = home[cmd[c].kernel]
         /\ builtFor'[home[cmd[c].kernel]] = builtFor[home[cmd[c].kernel]]
         /\ args'[cmd[c].kernel] \in Args
         /\ c \notin disturbed' => c \notin disturbed /\ args'[cmd[c].kernel] = args[cmd[c].kernel]
<1> DEFINE k == cmd[c].kernel
<1>1. ThreadTypes /\ ProgramTypes /\ KernelTypes /\ CommandTypes
  BY TypeGroups
<1>2. /\ c \in Command /\ k \in Kernel /\ home[k] \in Program /\ home[k] # None
      /\ args[k] \in Args /\ args[k] # None /\ stage[c] # "new" /\ state[home[k]] = "Built"
  BY CommandOf, ProgramsOK DEF InFlight, BuildInv
<1>3. name' = name
  <2>1. ASSUME NEW t \in Thread, Host(t)
        PROVE  name' = name
    BY <2>1 DEF Host, kernelVars, Load, BuildStart, BuildWrite, BuildRead, BuildFails, BuildEnd,
       CreateKernel, SetArg, Enqueue, WriteSource, Launch, WriteAssembly, Transform, CompileFails
  <2>2. ASSUME NEW d \in Device, Worker(d)
        PROVE  name' = name
    BY <2>2 DEF Worker, kernelVars, TakeUp, Copy, AppendDataArea, Assemble, Simulate,
       ReadBack, RunFails
  <2> QED BY <2>1, <2>2 DEF Next
<1>4. ASSUME cmd'[c] = cmd[c], UNCHANGED <<home, builtFor, args>>,
             c \notin disturbed' => c \notin disturbed
      PROVE  /\ home'[k] = home[k] /\ builtFor'[home[k]] = builtFor[home[k]]
             /\ args'[k] \in Args
             /\ c \notin disturbed' => c \notin disturbed /\ args'[k] = args[k]
  BY <1>2, <1>4
<1> DEFINE Same == /\ cmd'[c] = cmd[c]
                   /\ home'[k] = home[k] /\ builtFor'[home[k]] = builtFor[home[k]]
                   /\ args'[k] \in Args
                   /\ c \notin disturbed' => c \notin disturbed /\ args'[k] = args[k]
<1>5. ASSUME NEW o, Forget(o), o \notin InFlight', UNCHANGED <<home, builtFor, args>>
      PROVE  Same
  <2>1. cmd'[c] = cmd[c] /\ (c \notin disturbed' => c \notin disturbed)
    BY <1>1, <1>2, <1>5 DEF Forget, CommandTypes
  <2> QED BY <1>4, <1>5, <2>1
<1>6. ASSUME NEW t \in Thread, Host(t)
      PROVE  Same
  <2>1. ASSUME NEW p \in Program, Load(t, p)
        PROVE  Same
    BY <1>4, <2>1 DEF Load, kernelVars, history
  <2>2. ASSUME NEW p \in Program, BuildStart(t, p)
        PROVE  Same
    <3>1. home[k] # p
      BY <1>2, <2>2 DEF BuildStart
    <3> QED BY <1>1, <1>2, <2>2, <3>1 DEF BuildStart, kernelVars, history, ProgramTypes
  <2>3. CASE BuildWrite(t) \/ BuildFails(t) \/ BuildEnd(t) \/ (\E d \in Device : BuildRead(t, d))
    BY <1>4, <2>3 DEF BuildWrite, BuildFails, BuildEnd, BuildRead, kernelVars, programVars, history
  <2>4. ASSUME NEW j \in Kernel, NEW p \in Program, CreateKernel(t, j, p)
        PROVE  Same
    <3>1. k # j
      BY <1>2, <2>4 DEF CreateKernel
    <3> QED BY <1>1, <1>2, <2>4, <3>1 DEF CreateKernel, programVars, history, KernelTypes
  <2>5. ASSUME NEW j \in Kernel, NEW v \in Args, SetArg(t, j, v)
        PROVE  Same
    <3>1. c \notin disturbed' => c \notin disturbed /\ k # j
      BY <2>5 DEF SetArg
    <3>2. args'[k] \in Args /\ (k # j => args'[k] = args[k])
      BY <1>1, <1>2, <2>5 DEF SetArg, KernelTypes
    <3> QED BY <2>5, <3>1, <3>2 DEF SetArg, programVars
  <2>6. ASSUME NEW o \in Command, NEW j \in Kernel, NEW d \in Device, Enqueue(t, o, j, d)
        PROVE  Same
    <3>1. c # o
      BY <1>2, <2>6 DEF Enqueue
    <3>2. cmd'[c] = cmd[c] /\ (c \notin disturbed' => c \notin disturbed)
      BY <1>1, <1>2, <2>6, <3>1 DEF Enqueue, CommandTypes
    <3> QED BY <1>4, <2>6, <3>2 DEF Enqueue, kernelVars, programVars
  <2>7. CASE WriteSource(t) \/ WriteAssembly(t) \/ Transform(t)
               \/ (\E coarsened \in BOOLEAN : Launch(t, coarsened))
    BY <1>4, <2>7 DEF WriteSource, WriteAssembly, Transform, Launch, kernelVars, programVars, history
  <2>8. CASE CompileFails(t)
    <3>1. job[t] \in Command /\ stage'[job[t]] = "rejected"
      BY <1>1, <2>8 DEF CompileFails, ThreadTypes, CommandTypes, Compiling
    <3> QED BY <1>5, <2>8, <3>1 DEF CompileFails, InFlight, kernelVars, programVars
  <2> QED BY <1>6, <2>1, <2>2, <2>3, <2>4, <2>5, <2>6, <2>7, <2>8 DEF Host
<1>7. ASSUME NEW d \in Device, Worker(d)
      PROVE  Same
  <2>1. CASE TakeUp(d) \/ Copy(d) \/ AppendDataArea(d) \/ Assemble(d) \/ Simulate(d)
    BY <1>4, <2>1 DEF TakeUp, Copy, AppendDataArea, Assemble, Simulate, kernelVars, programVars,
       history
  <2>2. CASE ReadBack(d) \/ RunFails(d)
    <3>1. hand[d] \in Command
      BY <2>2, WorkerHand DEF ReadBack, RunFails
    <3>2. hand[d] \notin InFlight'
      BY <1>1, <2>2, <3>1 DEF ReadBack, RunFails, CommandTypes, InFlight
    <3> QED BY <1>5, <2>2, <3>2 DEF ReadBack, RunFails, kernelVars, programVars
  <2> QED BY <1>7, <2>1, <2>2 DEF Worker
<1> QED BY <1>3, <1>6, <1>7 DEF Next, NameOf

\* Only an enqueue brings a command into flight.
LEMMA Entering ==
  ASSUME TypeOK, CommandInv, PlaceInv, Next, NEW c, c \in InFlight', c \notin InFlight
  PROVE  \E t \in Thread, k \in Kernel, d \in Device : Enqueue(t, c, k, d)
<1>1. ThreadTypes /\ CommandTypes /\ WorkerTypes
  BY TypeGroups
<1>2. c \in Command /\ stage[c] \in {"new", "done", "failed", "rejected"}
      /\ stage'[c] \in {"compiling", "queued", "running"}
  BY <1>1 DEF InFlight, CommandTypes
<1>3. ASSUME NEW o \in Command, stage'[o] = stage[o] \/ o # c \/ o \in InFlight,
             \A x \in Command \ {o} : stage'[x] = stage[x]
      PROVE  FALSE
  BY <1>2, <1>3
<1>4. ASSUME NEW t \in Thread, Host(t),
             ~ \E k \in Kernel, d \in Device : Enqueue(t, c, k, d)
      PROVE  FALSE
  <2>1. CASE stage' = stage
    BY <1>2, <2>1
  <2>2. ASSUME NEW o \in Command, NEW k \in Kernel, NEW d \in Device, Enqueue(t, o, k, d)
        PROVE  FALSE
    <3>1. o # c
      BY <1>4, <2>2
    <3> QED BY <1>1, <1>3, <2>2, <3>1 DEF Enqueue, CommandTypes
  <2>3. CASE Transform(t) \/ CompileFails(t)
    <3>1. job[t] \in InFlight /\ job[t] \in Command
      BY <2>3, JobInFlight DEF Transform, CompileFails, Compiling, InFlight
    <3> QED BY <1>1, <1>3, <2>3, <3>1 DEF Transform, CompileFails, CommandTypes
  <2> QED BY <1>4, <2>1, <2>2, <2>3
          DEF Host, Load, BuildStart, BuildWrite, BuildRead, BuildFails, BuildEnd, CreateKernel,
              SetArg, WriteSource, Launch, WriteAssembly
<1>5. ASSUME NEW d \in Device, Worker(d)
      PROVE  FALSE
  <2>1. CASE TakeUp(d)
    <3>1. Head(fifo[d]) \in Command /\ Head(fifo[d]) = fifo[d][1] /\ 1 \in DOMAIN fifo[d]
      BY <1>1, <2>1, HeadTail DEF TakeUp, WorkerTypes
    <3>2. Head(fifo[d]) \in InFlight
      BY <3>1 DEF PlaceInv, InFlight
    <3> QED BY <1>1, <1>3, <2>1, <3>1, <3>2 DEF TakeUp, CommandTypes
  <2>2. CASE ReadBack(d) \/ RunFails(d)
    <3>1. hand[d] \in Command /\ hand[d] \in InFlight
      BY <2>2, WorkerHand DEF ReadBack, RunFails
    <3> QED BY <1>1, <1>3, <2>2, <3>1 DEF ReadBack, RunFails, CommandTypes
  <2>3. CASE stage' = stage
    BY <1>2, <2>3
  <2> QED BY <1>5, <2>1, <2>2, <2>3 DEF Worker, Copy, AppendDataArea, Assemble, Simulate
<1> QED BY <1>4, <1>5 DEF Next

\* What an enqueue makes of its command.
LEMMA Entered ==
  ASSUME TypeOK, NEW t \in Thread, NEW c \in Command, NEW k \in Kernel, NEW d \in Device,
         Enqueue(t, c, k, d)
  PROVE  /\ cmd'[c] = [kernel |-> k, dev |-> d] /\ stage'[c] = "compiling"
         /\ pc'[t] = "source" /\ job'[t] = c
         /\ \A x \in Command \ {c} : stage'[x] = stage[x] /\ cmd'[x] = cmd[x]
         /\ \A u \in Thread \ {t} : pc'[u] = pc[u] /\ job'[u] = job[u]
         /\ home[k] \in Program /\ args[k] \in Args /\ d \in builtFor[home[k]]
         /\ stage[c] = "new" /\ pc[t] = "idle" /\ c \notin InFlight
         /\ UNCHANGED <<home, name, args, builtFor>>
<1>1. ThreadTypes /\ CommandTypes /\ KernelTypes
  BY TypeGroups
<1>2. pc' = [pc EXCEPT ![t] = "source"] /\ job' = [job EXCEPT ![t] = c]
      /\ stage' = [stage EXCEPT ![c] = "compiling"]
      /\ cmd' = [cmd EXCEPT ![c] = [kernel |-> k, dev |-> d]]
      /\ stage[c] = "new" /\ pc[t] = "idle" /\ d \in builtFor[home[k]]
      /\ home[k] # None /\ args[k] # None
  BY DEF Enqueue, Goto
<1>3. home[k] \in Program /\ args[k] \in Args /\ c \notin InFlight
  BY <1>1, <1>2 DEF KernelTypes, InFlight
<1>4. UNCHANGED <<home, name, args, builtFor>>
  BY DEF Enqueue, kernelVars, programVars
<1> QED BY <1>1, <1>2, <1>3, <1>4 DEF ThreadTypes, CommandTypes

\* A command in flight keeps its kernel, with arguments, and its device.
LEMMA CommandNext ==
  ASSUME TypeOK, BuildInv, CommandInv, PlaceInv, Next
  PROVE  CommandInv'
<1> SUFFICES ASSUME NEW c \in InFlight'
             PROVE  /\ cmd'[c].kernel \in Kernel /\ cmd'[c].dev \in Device
                    /\ home'[cmd'[c].kernel] \in Program
                    /\ cmd'[c].dev \in builtFor'[home'[cmd'[c].kernel]]
                    /\ args'[cmd'[c].kernel] \in Args
  BY DEF CommandInv
<1>1. CASE c \in InFlight
  <2>1. /\ cmd'[c] = cmd[c] /\ home'[cmd[c].kernel] = home[cmd[c].kernel]
        /\ builtFor'[home[cmd[c].kernel]] = builtFor[home[cmd[c].kernel]]
        /\ args'[cmd[c].kernel] \in Args
    BY <1>1, CommandStays
  <2> QED BY <1>1, <2>1 DEF CommandInv
<1>2. CASE c \notin InFlight
  <2>1. PICK t \in Thread, k \in Kernel, d \in Device : Enqueue(t, c, k, d)
    BY <1>2, Entering
  <2>2. c \in Command
    BY DEF InFlight
  <2>3. /\ cmd'[c] = [kernel |-> k, dev |-> d]
        /\ home[k] \in Program /\ args[k] \in Args /\ d \in builtFor[home[k]]
        /\ UNCHANGED <<home, args, builtFor>>
    BY <2>1, <2>2, Entered
  <2> QED BY <2>3
<1> QED BY <1>1, <1>2

\* Steps that move no command.
LEMMA PlaceStays ==
  ASSUME PlaceInv, UNCHANGED <<stage, cmd, fifo, hand>>,
         \A t \in Thread : pc'[t] \in Compiling => pc[t] \in Compiling /\ job'[t] = job[t]
  PROVE  PlaceInv'
  BY DEF PlaceInv

\* A command goes from a thread to a list to a worker, and is nowhere twice.
LEMMA PlaceNext ==
  ASSUME TypeOK, BuildInv, CommandInv, PlaceInv, Next
  PROVE  PlaceInv'
<1>1. ThreadTypes /\ CommandTypes /\ WorkerTypes
  BY TypeGroups
<1>2. ASSUME NEW t \in Thread, Host(t)
      PROVE  PlaceInv'
  <2>1. CASE \/ \E p \in Program : Load(t, p) \/ BuildStart(t, p)
             \/ \E d \in Device : BuildRead(t, d)
             \/ \E k \in Kernel, p \in Program : CreateKernel(t, k, p)
             \/ \E k \in Kernel, v \in Args : SetArg(t, k, v)
             \/ BuildWrite(t) \/ BuildFails(t) \/ BuildEnd(t)
    BY <1>1, <2>1, PlaceStays
       DEF Load, BuildStart, BuildRead, CreateKernel, SetArg, BuildWrite, BuildFails, BuildEnd,
           Goto, ThreadTypes, Compiling, threadVars, workerVars
  <2>2. CASE \/ WriteSource(t) \/ WriteAssembly(t)
             \/ \E coarsened \in BOOLEAN : Launch(t, coarsened)
    BY <1>1, <2>2, PlaceStays
       DEF WriteSource, WriteAssembly, Launch, Goto, ThreadTypes, Compiling, workerVars
  <2>3. ASSUME NEW c \in Command, NEW k \in Kernel, NEW d \in Device, Enqueue(t, c, k, d)
        PROVE  PlaceInv'
    <3>1. /\ stage'[c] = "compiling" /\ pc'[t] = "source" /\ job'[t] = c /\ stage[c] = "new"
          /\ \A x \in Command \ {c} : stage'[x] = stage[x] /\ cmd'[x] = cmd[x]
          /\ \A u \in Thread \ {t} : pc'[u] = pc[u] /\ job'[u] = job[u]
      BY <2>3, Entered
    <3>2. UNCHANGED <<fifo, hand>>
      BY <2>3 DEF Enqueue, workerVars
    <3>3. \A u \in Thread : pc[u] \in Compiling => job[u] \in Command /\ job[u] # c
      BY <1>1, <3>1 DEF PlaceInv, ThreadTypes
    <3>4. \A e \in Device : \A i \in DOMAIN fifo[e] : fifo[e][i] \in Command /\ fifo[e][i] # c
      BY <1>1, <3>1 DEF PlaceInv, WorkerTypes
    <3>5. \A e \in Device : hand[e] # None => hand[e] \in Command /\ hand[e] # c
      BY <1>1, <3>1 DEF PlaceInv, WorkerTypes
    <3>6. /\ \A u \in Thread : pc'[u] \in Compiling => stage'[job'[u]] = "compiling"
          /\ \A u, v \in Thread : pc'[u] \in Compiling /\ pc'[v] \in Compiling /\ job'[u] = job'[v]
               => u = v
      BY <3>1, <3>3 DEF PlaceInv
    <3>7. /\ \A e \in Device : \A i \in DOMAIN fifo[e] :
               stage'[fifo[e][i]] = "queued" /\ cmd'[fifo[e][i]].dev = e
          /\ \A e \in Device : hand[e] # None =>
               stage'[hand[e]] = "running" /\ cmd'[hand[e]].dev = e
          /\ \A x \in Command : stage'[x] = "running" => hand[cmd'[x].dev] = x
      BY <3>1, <3>4, <3>5 DEF PlaceInv
    <3> QED BY <3>2, <3>6, <3>7 DEF PlaceInv
  <2>4. CASE Transform(t) \/ CompileFails(t)
    <3> DEFINE c == job[t]
    <3>1. /\ pc[t] \in Compiling /\ c \in Command /\ stage[c] = "compiling" /\ c \in InFlight
          /\ cmd[c].dev \in Device
      BY <1>1, <2>4, JobInFlight, CommandOf
         DEF Transform, CompileFails, Compiling, ThreadTypes, PlaceInv
    <3>2. /\ pc'[t] = "idle" /\ hand' = hand
          /\ \A u \in Thread \ {t} : pc'[u] = pc[u] /\ job'[u] = job[u]
          /\ \A x \in Command \ {c} : stage'[x] = stage[x] /\ cmd'[x] = cmd[x]
      BY <1>1, <2>4 DEF Transform, CompileFails, Goto, Forget, ThreadTypes, CommandTypes, workerVars
    <3>3. \A u \in Thread : pc'[u] \in Compiling =>
            u # t /\ pc[u] \in Compiling /\ job[u] \in Command /\ job[u] # c
      BY <1>1, <3>1, <3>2 DEF PlaceInv, ThreadTypes, Compiling
    <3>4. /\ \A u \in Thread : pc'[u] \in Compiling => stage'[job'[u]] = "compiling"
          /\ \A u, v \in Thread : pc'[u] \in Compiling /\ pc'[v] \in Compiling /\ job'[u] = job'[v]
               => u = v
      BY <3>2, <3>3 DEF PlaceInv
    <3>5. \A e \in Device : hand[e] # None => hand[e] \in Command /\ hand[e] # c
      BY <1>1, <3>1 DEF PlaceInv, WorkerTypes
    <3>6. stage'[c] # "running"
      BY <1>1, <2>4, <3>1 DEF Transform, CompileFails, CommandTypes
    <3>7. /\ \A e \in Device : hand[e] # None =>
               stage'[hand[e]] = "running" /\ cmd'[hand[e]].dev = e
          /\ \A x \in Command : stage'[x] = "running" => hand[cmd'[x].dev] = x
      BY <3>1, <3>2, <3>5, <3>6 DEF PlaceInv
    <3>8. \A e \in Device : \A i \in DOMAIN fifo[e] : fifo[e][i] \in Command /\ fifo[e][i] # c
      BY <1>1, <3>1 DEF PlaceInv, WorkerTypes
    <3>9. \A e \in Device :
            /\ \A i \in DOMAIN fifo'[e] : stage'[fifo'[e][i]] = "queued" /\ cmd'[fifo'[e][i]].dev = e
            /\ \A i, j \in DOMAIN fifo'[e] : fifo'[e][i] = fifo'[e][j] => i = j
      <4>1. CASE CompileFails(t)
        BY <3>2, <3>8, <4>1 DEF CompileFails, PlaceInv, workerVars
      <4>2. CASE Transform(t)
        <5>1. stage'[c] = "queued" /\ cmd' = cmd
              /\ fifo' = [fifo EXCEPT ![cmd[c].dev] = Append(@, c)]
          BY <1>1, <3>1, <4>2 DEF Transform, CommandTypes
        <5> TAKE e \in Device
        <5>2. CASE e # cmd[c].dev
          BY <1>1, <3>2, <3>8, <5>1, <5>2 DEF PlaceInv, WorkerTypes
        <5>3. CASE e = cmd[c].dev
          <6> DEFINE f == fifo[e]
                     g == fifo'[e]
          <6>1. f \in Seq(Command) /\ g = Append(f, c)
            BY <1>1, <5>1, <5>3 DEF WorkerTypes
          <6>2. /\ DOMAIN g = DOMAIN f \union {Len(f) + 1} /\ g[Len(f) + 1] = c
                /\ \A i \in DOMAIN f : g[i] = f[i]
            BY <3>1, <6>1
          <6>3. \A i \in DOMAIN f : f[i] \in Command /\ f[i] # c
                  /\ stage[f[i]] = "queued" /\ cmd[f[i]].dev = e
            BY <3>8 DEF PlaceInv
          <6>4. \A i, j \in DOMAIN f : f[i] = f[j] => i = j
            BY DEF PlaceInv
          <6> HIDE DEF f, g
          <6>5. /\ \A i \in DOMAIN g : stage'[g[i]] = "queued" /\ cmd'[g[i]].dev = e
                /\ \A i, j \in DOMAIN g : g[i] = g[j] => i = j
            BY <3>2, <5>1, <5>3, <6>2, <6>3, <6>4
          <6> QED BY <6>5 DEF g
        <5> QED BY <5>2, <5>3
      <4> QED BY <2>4, <4>1, <4>2
    <3> QED BY <3>2, <3>4, <3>7, <3>9 DEF PlaceInv
  <2> QED BY <1>2, <2>1, <2>2, <2>3, <2>4 DEF Host
<1>3. ASSUME NEW d \in Device, Worker(d)
      PROVE  PlaceInv'
  <2>1. CASE TakeUp(d)
    <3> DEFINE c == Head(fifo[d])
    <3>1. /\ c \in Command /\ c = fifo[d][1] /\ 1 \in DOMAIN fifo[d]
          /\ stage[c] = "queued" /\ cmd[c].dev = d /\ hand[d] = None
          /\ Tail(fifo[d]) \in Seq(Command)
          /\ \A i \in DOMAIN Tail(fifo[d]) : i \in Nat /\ i + 1 \in DOMAIN fifo[d]
               /\ Tail(fifo[d])[i] = fifo[d][i + 1]
      BY <1>1, <2>1, HeadTail DEF TakeUp, WorkerTypes, PlaceInv
    <3>2. /\ hand' = [hand EXCEPT ![d] = c] /\ fifo' = [fifo EXCEPT ![d] = Tail(fifo[d])]
          /\ stage' = [stage EXCEPT ![c] = "running"] /\ UNCHANGED <<pc, job, cmd>>
      BY <2>1 DEF TakeUp, threadVars
    <3>3. \A u \in Thread : pc[u] \in Compiling => job[u] \in Command /\ job[u] # c
      BY <1>1, <3>1 DEF PlaceInv, ThreadTypes
    <3>4. /\ \A u \in Thread : pc'[u] \in Compiling => stage'[job'[u]] = "compiling"
          /\ \A u, v \in Thread : pc'[u] \in Compiling /\ pc'[v] \in Compiling /\ job'[u] = job'[v]
               => u = v
      BY <1>1, <3>2, <3>3 DEF PlaceInv, CommandTypes
    <3>5. ASSUME NEW e \in Device
          PROVE  /\ \A i \in DOMAIN fifo'[e] : fifo'[e][i] \in Command /\ fifo'[e][i] # c
                      /\ stage[fifo'[e][i]] = "queued" /\ cmd[fifo'[e][i]].dev = e
                 /\ \A i, j \in DOMAIN fifo'[e] : fifo'[e][i] = fifo'[e][j] => i = j
      <4>1. CASE e # d
        <5>1. fifo'[e] = fifo[e]
          BY <1>1, <3>2, <4>1 DEF WorkerTypes
        <5> QED BY <1>1, <3>1, <4>1, <5>1 DEF PlaceInv, WorkerTypes
      <4>2. CASE e = d
        <5>1. fifo'[e] = Tail(fifo[d])
          BY <1>1, <3>2, <4>2 DEF WorkerTypes
        <5>2. \A i \in DOMAIN fifo[d] : fifo[d][i] \in Command
                /\ stage[fifo[d][i]] = "queued" /\ cmd[fifo[d][i]].dev = d
          BY <1>1 DEF PlaceInv, WorkerTypes
        <5>3. \A i, j \in DOMAIN fifo[d] : fifo[d][i] = fifo[d][j] => i = j
          BY DEF PlaceInv
        <5>4. ASSUME NEW i \in DOMAIN Tail(fifo[d])
              PROVE  /\ Tail(fifo[d])[i] \in Command /\ Tail(fifo[d])[i] # c
                     /\ stage[Tail(fifo[d])[i]] = "queued" /\ cmd[Tail(fifo[d])[i]].dev = d
          <6>1. i \in Nat /\ i + 1 \in DOMAIN fifo[d] /\ Tail(fifo[d])[i] = fifo[d][i + 1]
            BY <3>1
          <6>2. i + 1 # 1 \/ i = 0
            BY <6>1
          <6>3. i # 0
            BY <3>1
          <6> QED BY <3>1, <5>2, <5>3, <6>1, <6>2, <6>3
        <5>5. ASSUME NEW i \in DOMAIN Tail(fifo[d]), NEW j \in DOMAIN Tail(fifo[d]),
                     Tail(fifo[d])[i] = Tail(fifo[d])[j]
              PROVE  i = j
          <6>1. i + 1 = j + 1 /\ i \in Nat /\ j \in Nat
            BY <3>1, <5>3, <5>5
          <6> QED BY <6>1
        <5> QED BY <4>2, <5>1, <5>4, <5>5
      <4> QED BY <4>1, <4>2
    <3>6. \A e \in Device : \A i \in DOMAIN fifo'[e] :
            stage'[fifo'[e][i]] = "queued" /\ cmd'[fifo'[e][i]].dev = e
      BY <1>1, <3>2, <3>5 DEF CommandTypes
    <3>7. \A e \in Device : hand'[e] # None => stage'[hand'[e]] = "running" /\ cmd'[hand'[e]].dev = e
      BY <1>1, <3>1, <3>2 DEF PlaceInv, WorkerTypes, CommandTypes
    <3>8. \A x \in Command : stage'[x] = "running" => hand'[cmd'[x].dev] = x
      <4> SUFFICES ASSUME NEW x \in Command, stage'[x] = "running"
                   PROVE  hand'[cmd'[x].dev] = x
        OBVIOUS
      <4>1. CASE x = c
        BY <1>1, <3>1, <3>2, <4>1 DEF WorkerTypes
      <4>2. CASE x # c
        <5>1. stage[x] = "running" /\ hand[cmd[x].dev] = x
          BY <1>1, <3>2, <4>2 DEF CommandTypes, PlaceInv
        <5>2. cmd[x].dev # d
          BY <3>1, <5>1, ProgramsOK
        <5> QED BY <1>1, <3>2, <5>1, <5>2 DEF WorkerTypes
      <4> QED BY <4>1, <4>2
    <3>9. \A e \in Device : \A i, j \in DOMAIN fifo'[e] : fifo'[e][i] = fifo'[e][j] => i = j
      BY <3>5
    <3> QED BY <3>4, <3>6, <3>7, <3>8, <3>9 DEF PlaceInv
  <2>2. CASE ReadBack(d) \/ RunFails(d)
    <3> DEFINE c == hand[d]
    <3>1. c \in Command /\ c # None /\ stage[c] = "running" /\ cmd[c].dev = d
      BY <2>2, WorkerHand DEF ReadBack, RunFails, PlaceInv
    <3>2. /\ UNCHANGED <<pc, job, fifo>> /\ hand' = [hand EXCEPT ![d] = None]
          /\ \A x \in Command \ {c} : stage'[x] = stage[x] /\ cmd'[x] = cmd[x]
          /\ stage'[c] \in {"done", "failed"}
      BY <1>1, <2>2, <3>1 DEF ReadBack, RunFails, Forget, CommandTypes, threadVars
    <3>3. \A u \in Thread : pc[u] \in Compiling => job[u] \in Command /\ job[u] # c
      BY <1>1, <3>1 DEF PlaceInv, ThreadTypes
    <3>4. \A e \in Device : \A i \in DOMAIN fifo[e] : fifo[e][i] \in Command /\ fifo[e][i] # c
      BY <1>1, <3>1 DEF PlaceInv, WorkerTypes
    <3>5. \A e \in Device \ {d} : hand'[e] = hand[e] /\ (hand[e] # None =>
            hand[e] \in Command /\ hand[e] # c)
      BY <1>1, <3>1, <3>2 DEF PlaceInv, WorkerTypes
    <3>6. hand'[d] = None
      BY <1>1, <3>2 DEF WorkerTypes
    <3>7. \A e \in Device : hand'[e] # None => stage'[hand'[e]] = "running" /\ cmd'[hand'[e]].dev = e
      BY <3>2, <3>5, <3>6 DEF PlaceInv
    <3>8. \A x \in Command : stage'[x] = "running" => hand'[cmd'[x].dev] = x
      <4> SUFFICES ASSUME NEW x \in Command, stage'[x] = "running"
                   PROVE  hand'[cmd'[x].dev] = x
        OBVIOUS
      <4>1. x # c /\ stage[x] = "running" /\ cmd'[x] = cmd[x] /\ hand[cmd[x].dev] = x
        BY <3>2 DEF PlaceInv
      <4>2. cmd[x].dev # d
        BY <4>1
      <4> QED BY <1>1, <3>2, <4>1, <4>2 DEF WorkerTypes
    <3>9. \A e \in Device : \A i \in DOMAIN fifo'[e] :
            stage'[fifo'[e][i]] = "queued" /\ cmd'[fifo'[e][i]].dev = e
      BY <3>2, <3>4 DEF PlaceInv
    <3>10. /\ \A u \in Thread : pc'[u] \in Compiling => stage'[job'[u]] = "compiling"
           /\ \A u, v \in Thread : pc'[u] \in Compiling /\ pc'[v] \in Compiling /\ job'[u] = job'[v]
                => u = v
           /\ \A e \in Device : \A i, j \in DOMAIN fifo'[e] : fifo'[e][i] = fifo'[e][j] => i = j
      BY <3>2, <3>3 DEF PlaceInv
    <3> QED BY <3>7, <3>8, <3>9, <3>10 DEF PlaceInv
  <2>3. CASE Copy(d) \/ AppendDataArea(d) \/ Assemble(d) \/ Simulate(d)
    BY <2>3, PlaceStays DEF Copy, AppendDataArea, Assemble, Simulate, threadVars
  <2> QED BY <1>3, <2>1, <2>2, <2>3 DEF Worker
<1> QED BY <1>2, <1>3 DEF Next

-----------------------------------------------------------------------------
(* Files.                                                                  *)

\* A command in flight goes forward: it is compiled once, and what the worker
\* has copied stays copied until the command is over.
LEMMA Forward ==
  ASSUME TypeOK, CommandInv, PlaceInv, Next, NEW c \in InFlight, c \in InFlight'
  PROVE  /\ stage'[c] = "compiling" => stage[c] = "compiling"
         /\ stage[c] = "running" => stage'[c] = "running"
         /\ Copied(c) /\ cmd'[c] = cmd[c] => Copied(c)'
         /\ want'[c] = want[c]
         /\ ran'[c] = ran[c] \/ \E d \in Device : Simulate(d) /\ hand[d] = c
<1>1. ThreadTypes /\ CommandTypes /\ WorkerTypes
  BY TypeGroups
<1>2. c \in Command /\ stage[c] \in {"compiling", "queued", "running"} /\ cmd[c].dev \in Device
  BY CommandOf DEF InFlight
<1> DEFINE Result ==
      /\ stage'[c] = "compiling" => stage[c] = "compiling"
      /\ stage[c] = "running" => stage'[c] = "running"
      /\ Copied(c) /\ cmd'[c] = cmd[c] => Copied(c)'
      /\ want'[c] = want[c]
      /\ ran'[c] = ran[c] \/ \E d \in Device : Simulate(d) /\ hand[d] = c
<1>3. ASSUME stage'[c] = stage[c], UNCHANGED wpc, want'[c] = want[c], ran'[c] = ran[c]
      PROVE  Result
  BY <1>3 DEF Copied
<1>4. ASSUME NEW t \in Thread, Host(t)
      PROVE  Result
  <2>1. CASE UNCHANGED <<stage, wpc, want, ran>>
    BY <1>3, <2>1
  <2>2. ASSUME NEW o \in Command, NEW k \in Kernel, NEW d \in Device, Enqueue(t, o, k, d)
        PROVE  Result
    <3>0. o \notin InFlight
      BY <2>2, Entered
    <3>1. o # c
      BY <3>0
    <3> QED BY <1>1, <1>2, <1>3, <2>2, <3>1 DEF Enqueue, CommandTypes, workerVars
  <2>3. CASE Transform(t)
    <3>1. job[t] \in Command /\ stage[job[t]] = "compiling"
      BY <1>1, <2>3 DEF Transform, ThreadTypes, PlaceInv, Compiling
    <3>2. /\ stage' = [stage EXCEPT ![job[t]] = "queued"]
          /\ UNCHANGED <<wpc, want, ran>>
      BY <2>3 DEF Transform, history
    <3>3. CASE c = job[t]
      BY <1>1, <3>1, <3>2, <3>3 DEF CommandTypes, Copied
    <3>4. CASE c # job[t]
      BY <1>1, <1>2, <1>3, <3>1, <3>2, <3>4 DEF CommandTypes
    <3> QED BY <3>3, <3>4
  <2>4. CASE CompileFails(t)
    <3>1. job[t] \in Command /\ stage'[job[t]] = "rejected"
      BY <1>1, <2>4 DEF CompileFails, ThreadTypes, Compiling, CommandTypes
    <3>2. c # job[t]
      BY <3>1 DEF InFlight
    <3> QED BY <1>1, <1>2, <1>3, <2>4, <3>1, <3>2 DEF CompileFails, Forget, CommandTypes, workerVars
  <2> QED BY <1>4, <2>1, <2>2, <2>3, <2>4
          DEF Host, Load, BuildStart, BuildWrite, BuildRead, BuildFails, BuildEnd, CreateKernel,
              SetArg, WriteSource, Launch, WriteAssembly, history, workerVars
<1>5. ASSUME NEW d \in Device, Worker(d)
      PROVE  Result
  <2>1. CASE TakeUp(d)
    <3> DEFINE o == Head(fifo[d])
    <3>1. o \in Command /\ o = fifo[d][1] /\ 1 \in DOMAIN fifo[d] /\ stage[o] = "queued"
          /\ hand[d] = None
      BY <1>1, <2>1, HeadTail DEF TakeUp, WorkerTypes, PlaceInv
    <3>2. /\ stage' = [stage EXCEPT ![o] = "running"] /\ wpc' = [wpc EXCEPT ![d] = "copy"]
          /\ UNCHANGED <<want, ran, cmd>>
      BY <2>1 DEF TakeUp, WorkerAt, history
    <3>3. stage[c] = "running" => cmd[c].dev # d /\ c # o
      BY <1>2, <3>1, ProgramsOK DEF PlaceInv
    <3>4. stage'[c] \in {stage[c], "running"}
      BY <1>1, <1>2, <3>1, <3>2 DEF CommandTypes
    <3>5. Copied(c) => Copied(c)'
      <4>1. cmd[c].dev # d => wpc'[cmd[c].dev] = wpc[cmd[c].dev]
        BY <1>1, <1>2, <3>2 DEF WorkerTypes
      <4> QED BY <3>2, <3>3, <3>4, <4>1 DEF Copied
    <3> QED BY <3>2, <3>4, <3>5
  <2>2. CASE Copy(d) \/ AppendDataArea(d) \/ Assemble(d)
    <3>1. UNCHANGED <<stage, want, ran, cmd>>
      BY <2>2 DEF Copy, AppendDataArea, Assemble, history
    <3>2. \A e \in Device : wpc'[e] = "copy" => wpc[e] = "copy"
      BY <1>1, <2>2 DEF Copy, AppendDataArea, Assemble, WorkerAt, WorkerTypes
    <3> QED BY <1>2, <3>1, <3>2 DEF Copied
  <2>3. CASE Simulate(d)
    <3>1. UNCHANGED <<stage, want, cmd>> /\ hand[d] \in Command
          /\ (c # hand[d] => ran'[c] = ran[c])
      BY <1>1, <1>2, <2>3, WorkerHand DEF Simulate, CommandTypes
    <3>2. \A e \in Device : wpc'[e] = "copy" => wpc[e] = "copy"
      BY <1>1, <2>3 DEF Simulate, WorkerAt, WorkerTypes
    <3> QED BY <1>2, <2>3, <3>1, <3>2 DEF Copied
  <2>4. CASE ReadBack(d) \/ RunFails(d)
    <3>1. hand[d] \in Command /\ stage'[hand[d]] \in {"done", "failed"}
      BY <1>1, <2>4, WorkerHand DEF ReadBack, RunFails, CommandTypes
    <3>2. c # hand[d]
      BY <3>1 DEF InFlight
    <3>3. stage'[c] = stage[c] /\ want'[c] = want[c] /\ ran'[c] = ran[c]
      BY <1>1, <1>2, <2>4, <3>1, <3>2 DEF ReadBack, RunFails, Forget, CommandTypes
    <3>4. \A e \in Device : wpc'[e] = "copy" => wpc[e] = "copy"
      BY <1>1, <2>4 DEF ReadBack, RunFails, WorkerAt, WorkerTypes
    <3> QED BY <1>2, <3>3, <3>4 DEF Copied
  <2> QED BY <1>5, <2>1, <2>2, <2>3, <2>4 DEF Worker
<1> QED BY <1>4, <1>5 DEF Next

\* An enqueue disturbs all those whose files it takes.
LEMMA ApartNext ==
  ASSUME TypeOK, BuildInv, CommandInv, PlaceInv, ApartInv, Next
  PROVE  ApartInv'
<1> SUFFICES ASSUME NEW o \in InFlight', o \notin disturbed', NEW c \in InFlight', c # o,
                    NameOf(c)' = NameOf(o)'
             PROVE  cmd'[c].dev = cmd'[o].dev /\ (Copied(o)' \/ stage'[c] # "compiling")
  BY DEF ApartInv
<1>1. CASE c \in InFlight /\ o \in InFlight
  <2>1. /\ cmd'[c] = cmd[c] /\ cmd'[o] = cmd[o] /\ NameOf(c) = NameOf(o) /\ o \notin disturbed
    BY <1>1, CommandStays
  <2>2. cmd[c].dev = cmd[o].dev /\ (Copied(o) \/ stage[c] # "compiling")
    BY <1>1, <2>1 DEF ApartInv
  <2>3. (Copied(o) => Copied(o)') /\ (stage'[c] = "compiling" => stage[c] = "compiling")
    BY <1>1, <2>1, Forward
  <2> QED BY <2>1, <2>2, <2>3
<1>2. ASSUME NEW x \in Command, x \notin InFlight, x \in {c, o}, x \in InFlight'
      PROVE  cmd'[c].dev = cmd'[o].dev /\ (Copied(o)' \/ stage'[c] # "compiling")
  <2>1. PICK t \in Thread, k \in Kernel, d \in Device : Enqueue(t, x, k, d)
    BY <1>2, Entering
  <2>2. /\ cmd'[x] = [kernel |-> k, dev |-> d] /\ name' = name
        /\ \A y \in Command \ {x} : stage'[y] = stage[y] /\ cmd'[y] = cmd[y]
    BY <2>1, <1>2, Entered
  <2>3. wpc' = wpc
    BY <2>1 DEF Enqueue, workerVars
  <2> DEFINE same == {y \in InFlight : NameOf(y) = name[k]}
  <2>4. disturbed' = disturbed \union {y \in same : cmd[y].dev # d \/ ~Copied(y)}
           \union {y \in {x} : \E z \in same : stage[z] = "compiling" \/ cmd[z].dev # d}
    BY <2>1 DEF Enqueue
  <2>5. NameOf(x)' = name[k]
    BY <2>2 DEF NameOf
  <2>6. c \in Command /\ o \in Command
    BY DEF InFlight
  <2>7. CASE x = c
    <3>1. o \in InFlight /\ NameOf(o) = name[k] /\ stage'[o] = stage[o] /\ cmd'[o] = cmd[o]
      BY <2>2, <2>5, <2>6, <2>7 DEF InFlight, NameOf
    <3>2. cmd[o].dev = d /\ Copied(o)
      BY <2>4, <3>1
    <3> QED BY <2>2, <2>3, <2>7, <3>1, <3>2 DEF Copied
  <2>8. CASE x = o
    <3>1. c \in InFlight /\ NameOf(c) = name[k] /\ stage'[c] = stage[c] /\ cmd'[c] = cmd[c]
      BY <2>2, <2>5, <2>6, <2>8 DEF InFlight, NameOf
    <3>2. cmd[c].dev = d /\ stage[c] # "compiling"
      BY <2>4, <2>8, <3>1
    <3> QED BY <2>2, <2>8, <3>1, <3>2
  <2> QED BY <1>2, <2>7, <2>8
<1> QED BY <1>1, <1>2 DEF InFlight

\* What is made for an undisturbed command does not change.
LEMMA MadeStays ==
  ASSUME TypeOK, BuildInv, CommandInv, PlaceInv, Next,
         NEW c \in InFlight, c \in InFlight', c \notin disturbed'
  PROVE  /\ c \notin disturbed /\ NameOf(c)' = NameOf(c)
         /\ Made(c)' = Made(c) /\ Enqueued(c)' = Enqueued(c)
         /\ home'[cmd'[c].kernel] = home[cmd[c].kernel]
  BY CommandStays DEF Made, Enqueued

\* What a command was enqueued as is what its kernel has, until it is disturbed.
LEMMA WantNext ==
  ASSUME TypeOK, BuildInv, CommandInv, PlaceInv, WantInv, Next
  PROVE  WantInv'
<1> SUFFICES ASSUME NEW c \in InFlight', c \notin disturbed'
             PROVE  want'[c] = Enqueued(c)'
  BY DEF WantInv
<1>1. CASE c \in InFlight
  <2>1. c \notin disturbed /\ Enqueued(c)' = Enqueued(c) /\ want'[c] = want[c]
    BY <1>1, MadeStays, Forward
  <2> QED BY <1>1, <2>1 DEF WantInv
<1>2. CASE c \notin InFlight
  <2>1. PICK t \in Thread, k \in Kernel, d \in Device : Enqueue(t, c, k, d)
    BY <1>2, Entering
  <2>2. c \in Command
    BY DEF InFlight
  <2>3. cmd'[c] = [kernel |-> k, dev |-> d] /\ UNCHANGED <<home, args>>
    BY <2>1, <2>2, Entered
  <2>4. want'[c] = [source |-> home[k], command |-> c, scalars |-> args[k], data |-> args[k]]
    BY <2>1, <2>2 DEF Enqueue, TypeOK
  <2> QED BY <2>3, <2>4 DEF Enqueued
<1> QED BY <1>1, <1>2

\* The source of a command's program for its device is its own.
LEMMA OwnSource ==
  ASSUME TypeOK, BuildInv, CommandInv, NEW c \in InFlight
  PROVE  source[home[cmd[c].kernel]][cmd[c].dev] = home[cmd[c].kernel]
<1>1. home[cmd[c].kernel] \in Program /\ home[cmd[c].kernel] # None
      /\ cmd[c].kernel \in Kernel /\ cmd[c].dev \in builtFor[home[cmd[c].kernel]]
  BY ProgramsOK DEF CommandInv
<1> QED BY <1>1 DEF BuildInv

\* A command that is being compiled shares its name with no undisturbed one
\* that still needs the host's files.
LEMMA NamesApart ==
  ASSUME TypeOK, PlaceInv, ApartInv, NEW t \in Thread, pc[t] \in Compiling,
         NEW c \in InFlight \ disturbed, ~Copied(c), c # job[t]
  PROVE  NameOf(c) # NameOf(job[t])
<1>1. job[t] \in InFlight /\ stage[job[t]] = "compiling"
  BY JobInFlight DEF PlaceInv
<1> QED BY <1>1 DEF ApartInv

\* What is on its way for the command of thread u.
HostMade(u) ==
  /\ pc[u] = "coarsen" => clFile[NameOf(job[u])] = home[cmd[job[u]].kernel]
  /\ pc[u] = "assembly" => code[u] = Made(job[u])
  /\ pc[u] = "transform" => tempAsm[NameOf(job[u])] = Made(job[u])

\* The files of an undisturbed command are made by its own thread only.
LEMMA HostMadeNext ==
  ASSUME TypeOK, BuildInv, CommandInv, PlaceInv, ApartInv, HostInv, Next, TypeOK', PlaceInv',
         NEW u \in Thread, pc'[u] \in Compiling, job'[u] \notin disturbed'
  PROVE  HostMade(u)'
<1>0. ThreadTypes /\ CommandTypes /\ FileTypes /\ KernelTypes
  BY TypeGroups
<1>1. ThreadTypes /\ CommandTypes /\ FileTypes /\ KernelTypes /\ ThreadTypes'
  BY <1>0 DEF TypeOK, ThreadTypes, Building, Compiling
<1>2. job'[u] \in InFlight'
  BY <1>1 DEF PlaceInv, ThreadTypes, InFlight
<1> DEFINE c == job[u]
           n == NameOf(job[u])
\* Threads that stay where they are.
<1>3. ASSUME pc'[u] = pc[u], job'[u] = job[u], code'[u] = code[u],
             pc[u] = "coarsen" /\ c \notin disturbed => clFile'[n] = clFile[n],
             pc[u] = "transform" /\ c \notin disturbed => tempAsm'[n] = tempAsm[n]
      PROVE  HostMade(u)'
  <2>1. c \in InFlight /\ pc[u] \in Compiling
    BY <1>3, JobInFlight
  <2>2. /\ c \notin disturbed /\ NameOf(c)' = NameOf(c) /\ Made(c)' = Made(c)
        /\ home'[cmd'[c].kernel] = home[cmd[c].kernel]
    BY <1>2, <1>3, <2>1, MadeStays
  <2> QED BY <1>3, <2>1, <2>2 DEF HostInv, HostMade
\* The thread that takes a step for its command.
<1>4. ASSUME pc[u] \in Compiling, job'[u] = job[u]
      PROVE  /\ c \in InFlight /\ c \notin disturbed /\ c \in Command /\ n \in Name
             /\ NameOf(job[u])' = n /\ Made(job[u])' = Made(c)
             /\ home'[cmd'[c].kernel] = home[cmd[c].kernel]
  <2>1. c \in InFlight
    BY <1>4, JobInFlight
  <2>2. /\ c \notin disturbed /\ NameOf(c)' = NameOf(c) /\ Made(c)' = Made(c)
        /\ home'[cmd'[c].kernel] = home[cmd[c].kernel]
    BY <1>2, <1>4, <2>1, MadeStays
  <2>3. c \in Command /\ n \in Name
    BY <2>1, CommandOf
  <2> HIDE DEF c
  <2>4. NameOf(job[u])' = NameOf(c)' /\ Made(job[u])' = Made(c)'
    BY <1>4 DEF c, NameOf, Made
  <2> QED BY <2>1, <2>2, <2>3, <2>4 DEF c
\* Two threads at the same place have different names to write to.
<1>5. ASSUME NEW t \in Thread, t # u, pc[t] \in Compiling, pc[u] \in Compiling, c \notin disturbed
      PROVE  NameOf(job[t]) # n /\ n \in Name
  <2>1. c \in InFlight /\ stage[c] = "compiling" /\ c # job[t]
    BY <1>5, JobInFlight DEF PlaceInv
  <2>2. ~Copied(c)
    BY <2>1 DEF Copied
  <2> QED BY <1>5, <2>1, <2>2, NamesApart, CommandOf
<1>6. ASSUME NEW t \in Thread, Host(t)
      PROVE  HostMade(u)'
  <2>1. CASE WriteSource(t)
    <3>0. /\ pc[t] \in Compiling /\ pc' = [pc EXCEPT ![t] = "coarsen"]
          /\ UNCHANGED <<job, code, tempAsm>>
          /\ clFile' = [clFile EXCEPT ![NameOf(job[t])] =
                          source[home[cmd[job[t]].kernel]][cmd[job[t]].dev]]
      BY <2>1 DEF WriteSource, Goto, Compiling
    <3>1. CASE u = t
      <4>1. source[home[cmd[c].kernel]][cmd[c].dev] = home[cmd[c].kernel]
        BY <1>4, <3>0, <3>1, OwnSource
      <4>2. pc'[u] = "coarsen" /\ clFile'[n] = home[cmd[c].kernel]
        BY <1>1, <1>4, <3>0, <3>1, <4>1 DEF ThreadTypes, FileTypes
      <4> QED BY <1>4, <3>0, <3>1, <4>2 DEF HostMade
    <3>2. CASE u # t
      <4>1. pc'[u] = pc[u]
        BY <1>1, <3>0, <3>2 DEF ThreadTypes
      <4>2. pc[u] = "coarsen" /\ c \notin disturbed => clFile'[n] = clFile[n]
        BY <1>1, <1>5, <3>0, <3>2 DEF FileTypes, Compiling
      <4> QED BY <1>3, <3>0, <4>1, <4>2
    <3> QED BY <3>1, <3>2
  <2>2. ASSUME NEW coarsened \in BOOLEAN, Launch(t, coarsened)
        PROVE  HostMade(u)'
    <3>0. /\ pc[t] = "coarsen" /\ pc[t] \in Compiling /\ pc' = [pc EXCEPT ![t] = "assembly"]
          /\ UNCHANGED <<job, clFile, tempAsm>>
      BY <2>2 DEF Launch, Goto, Compiling, hostFiles
    <3>1. CASE u = t
      <4> DEFINE s == IF coarsened THEN clFile[NameOf(job[t])]
                      ELSE source[home[cmd[job[t]].kernel]][cmd[job[t]].dev]
      <4>1. code' = [code EXCEPT ![t] = [source |-> s, command |-> job[t],
                       scalars |-> args[cmd[job[t]].kernel], data |-> None]]
        BY <2>2 DEF Launch, NameOf
      <4>2. source[home[cmd[c].kernel]][cmd[c].dev] = home[cmd[c].kernel]
        BY <1>4, <3>0, <3>1, OwnSource
      <4>3. clFile[n] = home[cmd[c].kernel]
        BY <1>4, <3>0, <3>1 DEF HostInv
      <4>4. s = home[cmd[c].kernel]
        BY <3>1, <4>2, <4>3
      <4> HIDE DEF s
      <4>5. pc'[u] = "assembly" /\ code'[u] = Made(c)
        BY <1>1, <3>0, <3>1, <4>1, <4>4 DEF ThreadTypes, Made
      <4> QED BY <1>4, <3>0, <3>1, <4>5 DEF HostMade
    <3>2. CASE u # t
      <4>1. pc'[u] = pc[u] /\ code'[u] = code[u]
        BY <1>1, <2>2, <3>0, <3>2 DEF Launch, ThreadTypes
      <4> QED BY <1>3, <3>0, <4>1
    <3> QED BY <3>1, <3>2
  <2>3. CASE WriteAssembly(t)
    <3>0. /\ pc[t] = "assembly" /\ pc[t] \in Compiling /\ pc' = [pc EXCEPT ![t] = "transform"]
          /\ UNCHANGED <<job, clFile>>
          /\ tempAsm' = [tempAsm EXCEPT ![NameOf(job[t])] = code[t]]
          /\ code' = [code EXCEPT ![t] = NoCode]
      BY <2>3 DEF WriteAssembly, Goto, Compiling
    <3>1. CASE u = t
      <4>1. code[u] = Made(c)
        BY <1>4, <3>0, <3>1 DEF HostInv
      <4>2. pc'[u] = "transform" /\ tempAsm'[n] = Made(c)
        BY <1>1, <1>4, <3>0, <3>1, <4>1 DEF ThreadTypes, FileTypes
      <4> QED BY <1>4, <3>0, <3>1, <4>2 DEF HostMade
    <3>2. CASE u # t
      <4>1. pc'[u] = pc[u] /\ code'[u] = code[u]
        BY <1>1, <3>0, <3>2 DEF ThreadTypes
      <4>2. pc[u] = "transform" /\ c \notin disturbed => tempAsm'[n] = tempAsm[n]
        BY <1>1, <1>5, <3>0, <3>2 DEF FileTypes, Compiling
      <4> QED BY <1>3, <3>0, <4>1, <4>2
    <3> QED BY <3>1, <3>2
  <2>4. CASE Transform(t) \/ CompileFails(t)
    <3>1. pc' = [pc EXCEPT ![t] = "idle"] /\ UNCHANGED <<clFile, tempAsm>>
          /\ job' = [job EXCEPT ![t] = None]
          /\ (code' = code \/ code' = [code EXCEPT ![t] = NoCode])
      BY <2>4 DEF Transform, CompileFails, Goto, hostFiles
    <3>2. u # t
      BY <1>1, <3>1 DEF ThreadTypes, Compiling
    <3>3. pc'[u] = pc[u] /\ job'[u] = job[u] /\ code'[u] = code[u]
      BY <1>1, <3>1, <3>2 DEF ThreadTypes
    <3> QED BY <1>3, <3>1, <3>3
  <2>5. ASSUME NEW o \in Command, NEW k \in Kernel, NEW d \in Device, Enqueue(t, o, k, d)
        PROVE  HostMade(u)'
    <3>0. /\ pc'[t] = "source"
          /\ \A v \in Thread \ {t} : pc'[v] = pc[v] /\ job'[v] = job[v]
      BY <2>5, Entered
    <3>1. /\ pc'[t] = "source"
          /\ \A v \in Thread \ {t} : pc'[v] = pc[v] /\ job'[v] = job[v]
          /\ UNCHANGED <<clFile, tempAsm, code>>
      BY <2>5, <3>0 DEF Enqueue, hostFiles
    <3>2. CASE u = t
      BY <3>1, <3>2 DEF HostMade
    <3>3. CASE u # t
      BY <1>3, <3>1, <3>3
    <3> QED BY <3>2, <3>3
  <2>6. CASE \/ \E p \in Program : Load(t, p) \/ BuildStart(t, p)
             \/ \E d \in Device : BuildRead(t, d)
             \/ \E k \in Kernel, p \in Program : CreateKernel(t, k, p)
             \/ \E k \in Kernel, v \in Args : SetArg(t, k, v)
             \/ BuildWrite(t) \/ BuildFails(t) \/ BuildEnd(t)
    <3>1. UNCHANGED <<clFile, tempAsm, code>>
      BY <2>6 DEF Load, BuildStart, BuildRead, CreateKernel, SetArg, BuildWrite, BuildFails,
         BuildEnd, threadVars, hostFiles
    <3>2. pc'[u] = pc[u] /\ job'[u] = job[u]
      BY <1>1, <2>6 DEF Load, BuildStart, BuildRead, CreateKernel, SetArg, BuildWrite, BuildFails,
         BuildEnd, Goto, ThreadTypes, Compiling, threadVars
    <3> QED BY <1>3, <3>1, <3>2
  <2> QED BY <1>6, <2>1, <2>2, <2>3, <2>4, <2>5, <2>6 DEF Host
<1>7. ASSUME NEW d \in Device, Worker(d)
      PROVE  HostMade(u)'
  <2>1. UNCHANGED <<pc, job, code, clFile, tempAsm>>
    BY <1>7 DEF Worker, TakeUp, Copy, AppendDataArea, Assemble, Simulate, ReadBack, RunFails,
       threadVars, hostFiles
  <2> QED BY <1>3, <2>1
<1> QED BY <1>6, <1>7 DEF Next

\* The assembly that is left for the worker is the command's own.
LEMMA HostNext ==
  ASSUME TypeOK, BuildInv, CommandInv, PlaceInv, ApartInv, HostInv, Next, TypeOK', PlaceInv'
  PROVE  HostInv'
<1>1. CommandTypes /\ FileTypes /\ ThreadTypes /\ WorkerTypes
  BY TypeGroups
<1>2. \A u \in Thread : pc'[u] \in Compiling /\ job'[u] \notin disturbed' => HostMade(u)'
  BY HostMadeNext
<1>3. ASSUME NEW c \in InFlight', c \notin disturbed', stage'[c] # "compiling", ~Copied(c)'
      PROVE  kernelAsm'[NameOf(c)'] = Made(c)'
  <2>1. c \in InFlight
    <3>1. ASSUME c \notin InFlight
          PROVE  FALSE
      <4>1. PICK t \in Thread, k \in Kernel, d \in Device : Enqueue(t, c, k, d)
        BY <3>1, Entering
      <4>2. c \in Command
        BY DEF InFlight
      <4>3. stage'[c] = "compiling"
        <5>1. stage' = [stage EXCEPT ![c] = "compiling"]
          BY <4>1 DEF Enqueue
        <5> QED BY <1>1, <4>2, <5>1 DEF CommandTypes
      <4> QED BY <1>3, <4>3
    <3> QED BY <3>1
  <2>2. /\ c \notin disturbed /\ NameOf(c)' = NameOf(c) /\ Made(c)' = Made(c)
        /\ cmd'[c] = cmd[c] /\ ~Copied(c) /\ c \in Command /\ NameOf(c) \in Name
    BY <1>3, <2>1, MadeStays, CommandStays, Forward, CommandOf
  <2>3. ASSUME NEW t \in Thread, Transform(t)
        PROVE  kernelAsm'[NameOf(c)] = Made(c)
    <3>1. /\ pc[t] = "transform" /\ pc[t] \in Compiling /\ job[t] \in Command
          /\ stage' = [stage EXCEPT ![job[t]] = "queued"]
          /\ kernelAsm' = [kernelAsm EXCEPT ![NameOf(job[t])] = tempAsm[NameOf(job[t])]]
      BY <1>1, <2>3 DEF Transform, Compiling, ThreadTypes
    <3>2. CASE c = job[t]
      BY <1>1, <2>2, <3>1, <3>2 DEF HostInv, FileTypes
    <3>3. CASE c # job[t]
      <4>1. NameOf(c) # NameOf(job[t])
        BY <2>1, <2>2, <3>1, <3>3, NamesApart
      <4>2. stage[c] # "compiling"
        BY <1>1, <1>3, <2>2, <3>1, <3>3 DEF CommandTypes
      <4>3. kernelAsm[NameOf(c)] = Made(c)
        BY <2>1, <2>2, <4>2 DEF HostInv
      <4> QED BY <1>1, <2>2, <3>1, <4>1, <4>3 DEF FileTypes
    <3> QED BY <3>2, <3>3
  <2>4. ASSUME kernelAsm' = kernelAsm, stage[c] # "compiling"
        PROVE  kernelAsm'[NameOf(c)] = Made(c)
    BY <2>1, <2>2, <2>4 DEF HostInv
  <2>5. ASSUME NEW t \in Thread, Host(t), ~Transform(t)
        PROVE  kernelAsm'[NameOf(c)] = Made(c)
    <3>1. kernelAsm' = kernelAsm
      BY <2>5 DEF Host, Load, BuildStart, BuildWrite, BuildRead, BuildFails, BuildEnd,
         CreateKernel, SetArg, Enqueue, WriteSource, Launch, WriteAssembly, CompileFails, hostFiles
    <3>2. stage[c] # "compiling"
      <4>1. CASE CompileFails(t)
        <5>1. stage' = [stage EXCEPT ![job[t]] = "rejected"]
          BY <4>1 DEF CompileFails
        <5>2. stage'[c] # "rejected"
          BY DEF InFlight
        <5> QED BY <1>1, <1>3, <2>2, <5>1, <5>2 DEF CommandTypes
      <4>2. ASSUME NEW o \in Command, NEW k \in Kernel, NEW d \in Device, Enqueue(t, o, k, d)
            PROVE  stage[c] # "compiling"
        <5>1. \A y \in Command \ {o} : stage'[y] = stage[y] /\ cmd'[y] = cmd[y]
          <6>1. stage' = [stage EXCEPT ![o] = "compiling"]
                /\ cmd' = [cmd EXCEPT ![o] = [kernel |-> k, dev |-> d]]
            BY <4>2 DEF Enqueue
          <6> QED BY <1>1, <6>1 DEF CommandTypes
        <5>2. o \notin InFlight
          BY <4>2 DEF Enqueue, InFlight
        <5> QED BY <1>3, <2>1, <2>2, <5>1, <5>2
      <4>3. CASE stage' = stage
        BY <1>3, <4>3
      <4> QED BY <2>5, <4>1, <4>2, <4>3
              DEF Host, Load, BuildStart, BuildWrite, BuildRead, BuildFails, BuildEnd,
                  CreateKernel, SetArg, WriteSource, Launch, WriteAssembly
    <3> QED BY <2>4, <3>1, <3>2
  <2>6. ASSUME NEW d \in Device, Worker(d)
        PROVE  kernelAsm'[NameOf(c)] = Made(c)
    <3>1. kernelAsm' = kernelAsm
      BY <2>6 DEF Worker, TakeUp, Copy, AppendDataArea, Assemble, Simulate, ReadBack, RunFails,
         hostFiles
    <3>2. stage[c] # "compiling"
      <4>1. CASE TakeUp(d)
        <5>1. Head(fifo[d]) \in Command /\ stage[Head(fifo[d])] = "queued"
          <6>1. fifo[d] \in Seq(Command) /\ fifo[d] # <<>>
            BY <1>1, <4>1 DEF TakeUp, WorkerTypes
          <6>2. 1 \in DOMAIN fifo[d] /\ Head(fifo[d]) = fifo[d][1] /\ Head(fifo[d]) \in Command
            BY <6>1, HeadTail
          <6> QED BY <6>2 DEF PlaceInv
        <5>2. stage' = [stage EXCEPT ![Head(fifo[d])] = "running"]
          BY <4>1 DEF TakeUp
        <5> QED BY <1>1, <1>3, <2>2, <5>1, <5>2 DEF CommandTypes
      <4>2. CASE ReadBack(d) \/ RunFails(d)
        <5>1. hand[d] \in Command /\ stage[hand[d]] = "running"
          BY <4>2, WorkerHand DEF ReadBack, RunFails, PlaceInv
        <5> QED BY <1>1, <1>3, <2>2, <4>2, <5>1 DEF ReadBack, RunFails, CommandTypes
      <4>3. CASE stage' = stage
        BY <1>3, <4>3
      <4> QED BY <2>6, <4>1, <4>2, <4>3 DEF Worker, Copy, AppendDataArea, Assemble, Simulate
    <3> QED BY <2>4, <3>1, <3>2
  <2> QED BY <2>2, <2>3, <2>5, <2>6 DEF Next
<1> QED BY <1>2, <1>3 DEF HostInv, HostMade

\* What the worker of device e has of its command.
RunMade(e) ==
  /\ wpc[e] = "append" => finalAsm[NameOf(hand[e])] = Made(hand[e])
  /\ wpc[e] = "assemble" => finalAsm[NameOf(hand[e])] = Enqueued(hand[e])
  /\ wpc[e] = "simulate" => binary[NameOf(hand[e])] = Enqueued(hand[e])
  /\ wpc[e] = "read" => ran[hand[e]] = Enqueued(hand[e])

\* What the worker copied, appended, assembled and simulated is its command's own.
LEMMA RunNext ==
  ASSUME TypeOK, BuildInv, CommandInv, PlaceInv, ApartInv, HostInv, RunInv, Next,
         TypeOK', PlaceInv'
  PROVE  RunInv'
<1>1. FileTypes /\ WorkerTypes /\ CommandTypes
  BY TypeGroups
<1> SUFFICES ASSUME NEW e \in Device, hand'[e] # None, hand'[e] \notin disturbed'
             PROVE  RunMade(e)'
  BY DEF RunInv, RunMade
<1>2. hand'[e] \in Command /\ hand'[e] \in InFlight'
  BY DEF TypeOK, PlaceInv, InFlight
<1> DEFINE c == hand[e]
           n == NameOf(hand[e])
\* A worker that keeps its command.
<1>3. ASSUME hand'[e] = hand[e]
      PROVE  /\ wpc[e] # "idle" /\ c \in InFlight /\ c \notin disturbed /\ c # None
             /\ c \in Command /\ n \in Name
             /\ NameOf(hand[e])' = n /\ Made(hand[e])' = Made(c) /\ Enqueued(hand[e])' = Enqueued(c)
             /\ cmd[c].dev = e /\ stage[c] = "running" /\ c \in InFlight'
  <2>1. wpc[e] # "idle" /\ c # None
    BY <1>1, <1>3 DEF WorkerTypes
  <2>2. c \in InFlight /\ c \in Command /\ n \in Name
    BY <2>1, WorkerHand
  <2>3. c \in InFlight' /\ c \notin disturbed'
    BY <1>2, <1>3
  <2>4. PICK x : x = hand[e]
    OBVIOUS
  <2>5. x \notin disturbed /\ NameOf(x)' = NameOf(x) /\ Made(x)' = Made(x)
        /\ Enqueued(x)' = Enqueued(x)
    BY <2>2, <2>3, <2>4, MadeStays
  <2>6. /\ NameOf(hand[e])' = NameOf(x)' /\ Made(hand[e])' = Made(x)'
        /\ Enqueued(hand[e])' = Enqueued(x)'
    BY <1>3, <2>4 DEF NameOf, Made, Enqueued
  <2>7. cmd[c].dev = e /\ stage[c] = "running"
    BY <2>1 DEF PlaceInv
  <2> QED BY <2>1, <2>2, <2>3, <2>4, <2>5, <2>6, <2>7
\* Nothing that it needs is written.
<1>4. ASSUME hand'[e] = hand[e], wpc'[e] = wpc[e],
             n \in Name => finalAsm'[n] = finalAsm[n] /\ binary'[n] = binary[n],
             \A d \in Device : Simulate(d) => hand[d] # c
      PROVE  RunMade(e)'
  <2>1. /\ c # None /\ c \in InFlight /\ c \in InFlight' /\ c \notin disturbed /\ n \in Name
        /\ NameOf(hand[e])' = n /\ Made(hand[e])' = Made(c) /\ Enqueued(hand[e])' = Enqueued(c)
    BY <1>3, <1>4
  <2>2. ran'[c] = ran[c]
    BY <1>4, <2>1, Forward
  <2>3. RunMade(e)
    BY <2>1 DEF RunInv, RunMade
  <2> QED BY <1>4, <2>1, <2>2, <2>3 DEF RunMade
<1>5. ASSUME NEW t \in Thread, Host(t)
      PROVE  RunMade(e)'
  <2>1. UNCHANGED <<wpc, hand, finalAsm, binary>>
    BY <1>5 DEF Host, Load, BuildStart, BuildWrite, BuildRead, BuildFails, BuildEnd,
       CreateKernel, SetArg, Enqueue, WriteSource, Launch, WriteAssembly, Transform, CompileFails,
       workerVars, runFiles
  <2>2. CASE \E d \in Device : Simulate(d)
    <3>1. PICK d \in Device : Simulate(d)
      BY <2>2
    <3>2. wpc' # wpc
      BY <1>1, <3>1 DEF Simulate, WorkerAt, WorkerTypes
    <3> QED BY <2>1, <3>2
  <2> QED BY <1>4, <2>1, <2>2
<1>6. ASSUME NEW d \in Device, Worker(d), d # e
      PROVE  RunMade(e)'
  <2>1. hand'[e] = hand[e] /\ wpc'[e] = wpc[e]
    BY <1>1, <1>6 DEF Worker, TakeUp, Copy, AppendDataArea, Assemble, Simulate, ReadBack,
       RunFails, WorkerAt, WorkerTypes
  <2>2. /\ c # None /\ c \in InFlight \ disturbed /\ cmd[c].dev = e
    BY <1>3, <2>1
  <2>3. ASSUME wpc[d] # "idle"
        PROVE  NameOf(hand[d]) # n /\ hand[d] # c
    <3>1. hand[d] \in InFlight /\ cmd[hand[d]].dev = d
      BY <2>3, WorkerHand DEF PlaceInv
    <3> QED BY <1>6, <2>2, <3>1 DEF ApartInv
  <2>4. n \in Name => finalAsm'[n] = finalAsm[n] /\ binary'[n] = binary[n]
    <3>1. CASE Copy(d) \/ AppendDataArea(d)
      BY <1>1, <2>3, <3>1 DEF Copy, AppendDataArea, FileTypes
    <3>2. CASE Assemble(d)
      BY <1>1, <2>3, <3>2 DEF Assemble, FileTypes
    <3>3. CASE UNCHANGED runFiles
      BY <3>3 DEF runFiles
    <3> QED BY <1>6, <3>1, <3>2, <3>3 DEF Worker, TakeUp, Simulate, ReadBack, RunFails
  <2>5. \A x \in Device : Simulate(x) => hand[x] # c
    <3> SUFFICES ASSUME NEW x \in Device, Simulate(x), hand[x] = c
                 PROVE  FALSE
      OBVIOUS
    <3>1. x = e
      BY <2>2 DEF PlaceInv
    <3>2. wpc'[x] # wpc[x]
      BY <1>1 DEF Simulate, WorkerAt, WorkerTypes
    <3> QED BY <2>1, <3>1, <3>2
  <2> QED BY <1>4, <2>1, <2>4, <2>5
<1>7. CASE Worker(e)
  <2>1. CASE TakeUp(e)
    BY <1>1, <2>1 DEF TakeUp, WorkerAt, WorkerTypes, RunMade
  <2>2. CASE Copy(e)
    <3>1. /\ wpc[e] = "copy" /\ wpc'[e] = "append" /\ hand' = hand
          /\ finalAsm' = [finalAsm EXCEPT ![n] = kernelAsm[n]]
      BY <1>1, <2>2 DEF Copy, WorkerAt, WorkerTypes
    <3>2. /\ c \in InFlight \ disturbed /\ stage[c] = "running" /\ cmd[c].dev = e /\ n \in Name
          /\ NameOf(hand[e])' = n /\ Made(hand[e])' = Made(c)
      BY <1>3, <3>1
    <3>3. kernelAsm[n] = Made(c)
      BY <3>1, <3>2 DEF HostInv, Copied
    <3> QED BY <1>1, <3>1, <3>2, <3>3 DEF RunMade, FileTypes
  <2>3. CASE AppendDataArea(e)
    <3>1. /\ wpc[e] = "append" /\ wpc'[e] = "assemble" /\ hand' = hand
          /\ finalAsm' = [finalAsm EXCEPT ![n] = [finalAsm[n] EXCEPT !.data = args[cmd[c].kernel]]]
      BY <1>1, <2>3 DEF AppendDataArea, Destination, WorkerAt, WorkerTypes
    <3>2. /\ c \notin disturbed /\ c # None /\ n \in Name
          /\ NameOf(hand[e])' = n /\ Enqueued(hand[e])' = Enqueued(c)
      BY <1>3, <3>1
    <3>3. finalAsm[n] = Made(c)
      BY <3>1, <3>2 DEF RunInv
    <3>4. finalAsm'[n] = Enqueued(c)
      BY <1>1, <3>1, <3>2, <3>3 DEF FileTypes, Made, Enqueued
    <3> QED BY <3>1, <3>2, <3>4 DEF RunMade
  <2>4. CASE Assemble(e)
    <3>1. /\ wpc[e] = "assemble" /\ wpc'[e] = "simulate" /\ hand' = hand
          /\ binary' = [binary EXCEPT ![n] = finalAsm[n]]
      BY <1>1, <2>4 DEF Assemble, WorkerAt, WorkerTypes
    <3>2. /\ c \notin disturbed /\ c # None /\ n \in Name
          /\ NameOf(hand[e])' = n /\ Enqueued(hand[e])' = Enqueued(c)
      BY <1>3, <3>1
    <3>3. finalAsm[n] = Enqueued(c)
      BY <3>1, <3>2 DEF RunInv
    <3> QED BY <1>1, <3>1, <3>2, <3>3 DEF RunMade, FileTypes
  <2>5. CASE Simulate(e)
    <3>1. /\ wpc[e] = "simulate" /\ wpc'[e] = "read" /\ hand' = hand
          /\ ran' = [ran EXCEPT ![c] = binary[n]]
      BY <1>1, <2>5 DEF Simulate, WorkerAt, WorkerTypes
    <3>2. /\ c \notin disturbed /\ c # None /\ c \in Command
          /\ Enqueued(hand[e])' = Enqueued(c)
      BY <1>3, <3>1
    <3>3. binary[n] = Enqueued(c)
      BY <3>1, <3>2 DEF RunInv
    <3> QED BY <1>1, <3>1, <3>2, <3>3 DEF RunMade, CommandTypes
  <2>6. CASE ReadBack(e) \/ RunFails(e)
    BY <1>1, <2>6 DEF ReadBack, RunFails, WorkerTypes
  <2> QED BY <1>7, <2>1, <2>2, <2>3, <2>4, <2>5, <2>6 DEF Worker
<1> QED BY <1>5, <1>6, <1>7 DEF Next

-----------------------------------------------------------------------------
(* The theorems.                                                           *)

\* Nothing is built and nothing enqueued at first.
LEMMA FilesInit == Init => FilesInv
<1> SUFFICES ASSUME Init
             PROVE  FilesInv
  OBVIOUS
<1> USE DEF Init
<1>1. NoCode \in Codes
  BY DEF NoCode, Codes
<1>2. ProgramTypes /\ KernelTypes /\ ThreadTypes
  BY <1>1, ProgramsOK DEF ProgramTypes, KernelTypes, ThreadTypes, Building, Compiling
<1>3. FileTypes /\ CommandTypes /\ WorkerTypes
  BY <1>1, ProgramsOK DEF FileTypes, CommandTypes, WorkerTypes
<1>4. TypeOK
  BY <1>2, <1>3, TypeGroups
<1>5. InFlight = {}
  BY DEF InFlight
<1>6. BuildInv /\ CommandInv /\ ApartInv /\ WantInv
  BY <1>5 DEF BuildInv, CommandInv, ApartInv, WantInv, Building
<1>7. PlaceInv
  BY DEF PlaceInv, Compiling
<1>8. HostInv /\ RunInv
  BY <1>5 DEF HostInv, RunInv, Compiling
<1> QED BY <1>4, <1>6, <1>7, <1>8 DEF FilesInv

\* Every step keeps the invariant.
LEMMA FilesNext == FilesInv /\ [Next]_vars => FilesInv'
<1> SUFFICES ASSUME FilesInv, [Next]_vars
             PROVE  FilesInv'
  OBVIOUS
<1> USE DEF FilesInv
<1>1. CASE Next
  <2>1. ProgramTypes' /\ KernelTypes' /\ ThreadTypes'
    BY <1>1, ProgramTypesNext, KernelTypesNext, ThreadTypesNext
  <2>2. FileTypes' /\ CommandTypes' /\ WorkerTypes'
    BY <1>1, FileTypesNext, CommandTypesNext, WorkerTypesNext
  <2>3. TypeOK'
    BY <2>1, <2>2, TypeGroups, PTL
  <2>4. BuildInv' /\ CommandInv' /\ PlaceInv'
    BY <1>1, BuildNext, CommandNext, PlaceNext
  <2>5. ApartInv' /\ WantInv'
    BY <1>1, ApartNext, WantNext
  <2>6. HostInv' /\ RunInv'
    BY <1>1, <2>3, <2>4, HostNext, RunNext
  <2> QED BY <2>3, <2>4, <2>5, <2>6
<1>2. CASE UNCHANGED vars
  <2>1. UNCHANGED <<state, builtFor, source, tempFile, home, name, args, sets, pc, job, todo, code,
                    clFile, tempAsm, kernelAsm, finalAsm, binary, cmd, stage, fifo, wpc, hand,
                    ran, want, disturbed>>
    BY <1>2 DEF vars, programVars, kernelVars, threadVars, hostFiles, runFiles, workerVars, history
  <2>2. TypeOK' /\ BuildInv' /\ CommandInv' /\ PlaceInv'
    BY <2>1 DEF TypeOK, BuildInv, CommandInv, PlaceInv, InFlight
  <2>3. ApartInv' /\ WantInv'
    BY <2>1 DEF ApartInv, WantInv, InFlight, NameOf, Copied, Enqueued
  <2>4. HostInv' /\ RunInv'
    BY <2>1 DEF HostInv, RunInv, InFlight, NameOf, Copied, Enqueued, Made
  <2> QED BY <2>2, <2>3, <2>4
<1> QED BY <1>1, <1>2

\* The builds, the threads, the workers and the files they share are
\* consistent in every reachable state.
THEOREM FilesConsistent == Spec => []FilesInv
<1>1. Init => FilesInv
  BY FilesInit
<1>2. FilesInv /\ [Next]_vars => FilesInv'
  BY FilesNext
<1> QED BY <1>1, <1>2, PTL DEF Spec

\* Every variable keeps its type, for any number of programs, kernels, commands
\* and devices (build, run).
THEOREM Types == Spec => []TypeOK
<1>1. FilesInv => TypeOK
  BY DEF FilesInv
<1> QED BY <1>1, FilesConsistent, PTL

\* A program that has kernels is built, and from its own text for each of its
\* devices, whatever other builds did with the file they share.
THEOREM Kernels_Of_Built == Spec => []KernelsOfBuilt
<1>1. FilesInv => KernelsOfBuilt
  <2> SUFFICES ASSUME FilesInv, NEW k \in Kernel, home[k] # None
               PROVE  /\ state[home[k]] = "Built" /\ builtFor[home[k]] # {}
                      /\ \A d \in builtFor[home[k]] : source[home[k]][d] = home[k]
    BY DEF KernelsOfBuilt
  <2>1. home[k] \in Program
    BY DEF FilesInv, TypeOK
  <2> QED BY <2>1 DEF FilesInv, BuildInv
<1> QED BY <1>1, FilesConsistent, PTL

\* What a command executes, and where its results go, is what it was enqueued
\* with, as long as none of the calls that the code cannot bear came between.
THEOREM Runs_As_Enqueued == Spec => RunsAsEnqueued
<1>1. ASSUME FilesInv, Next, NEW c \in Command, c \notin disturbed,
             stage[c] = "running", stage'[c] = "done"
      PROVE  ran[c] = want[c] /\ Destination(c) = want[c].data
  <2>1. CommandTypes /\ ThreadTypes /\ WorkerTypes
    BY <1>1, TypeGroups DEF FilesInv
  <2>2. ASSUME NEW t \in Thread, Host(t)
        PROVE  FALSE
    <3>1. CASE stage' = stage
      BY <1>1, <3>1
    <3>2. ASSUME NEW o \in Command, NEW k \in Kernel, NEW d \in Device, Enqueue(t, o, k, d)
          PROVE  FALSE
      BY <1>1, <2>1, <3>2 DEF Enqueue, CommandTypes
    <3>3. CASE Transform(t) \/ CompileFails(t)
      BY <1>1, <2>1, <3>3 DEF Transform, CompileFails, CommandTypes
    <3> QED BY <2>2, <3>1, <3>2, <3>3
            DEF Host, Load, BuildStart, BuildWrite, BuildRead, BuildFails, BuildEnd,
                CreateKernel, SetArg, WriteSource, Launch, WriteAssembly
  <2>3. PICK d \in Device : Worker(d)
    BY <1>1, <2>2 DEF Next
  <2>4. ReadBack(d) /\ c = hand[d]
    <3>1. CASE stage' = stage
      BY <1>1, <3>1
    <3>2. CASE TakeUp(d) \/ RunFails(d)
      BY <1>1, <2>1, <3>2 DEF TakeUp, RunFails, CommandTypes
    <3>3. CASE ReadBack(d)
      BY <1>1, <2>1, <3>3 DEF ReadBack, CommandTypes
    <3> QED BY <2>3, <3>1, <3>2, <3>3 DEF Worker, Copy, AppendDataArea, Assemble, Simulate
  <2>5. c \in InFlight /\ c # None /\ wpc[d] = "read"
    BY <1>1, <2>4, ProgramsOK DEF ReadBack, InFlight
  <2>6. ran[c] = Enqueued(c) /\ want[c] = Enqueued(c)
    BY <1>1, <2>4, <2>5 DEF FilesInv, RunInv, WantInv
  <2> QED BY <2>6 DEF Enqueued, Destination
<1>2. FilesInv /\ [Next]_vars =>
        [\A c \in Command \ disturbed : stage[c] = "running" /\ stage'[c] = "done" =>
           ran[c] = want[c] /\ Destination(c) = want[c].data]_vars
  BY <1>1
<1> QED BY <1>2, FilesConsistent, PTL DEF Spec, RunsAsEnqueued
=============================================================================
