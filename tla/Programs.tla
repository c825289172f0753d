------------------------------ MODULE Programs ------------------------------
(***************************************************************************)
(* From the source of a program to the run of a kernel.  clBuildProgram    *)
(* checks a program's source for each device and keeps it after passing it *)
(* through a file whose name is fixed.  A kernel is compiled when a        *)
(* command is enqueued, in the host's thread, with the sizes and the       *)
(* scalar arguments of that command in its launcher, through files that    *)
(* are named after the kernel; the worker of the device later copies the   *)
(* last of them, appends the buffers that the kernel's arguments name by   *)
(* then, assembles it and simulates it.  Programs made of binaries are     *)
(* left out: their kernels have no source to compile.                      *)
(***************************************************************************)
EXTENDS Integers, Sequences, FiniteSets

CONSTANTS
  Thread,      \* threads of the host program
  Builder,     \* those that call clBuildProgram
  Device,
  Program,
  For,         \* For[p]: the devices that program p is built for
  Kernel,
  Name,        \* of kernel functions
  Has,         \* Has[p]: the kernels in the source of program p
  Args,        \* values that the arguments of a kernel can have together
  Command,     \* kernel commands that are enqueued
  None,
  MaxSets      \* bound: calls of clSetKernelArg for arguments that have values

\* clBuildProgram from two threads at once is outside this model: all builds
\* share the file esdg_src.cl, and the state of a program is tested and set
\* without a lock.
ASSUME ProgramsOK ==
  /\ Builder \subseteq Thread
  /\ \A t, u \in Builder : t = u
  /\ For \in [Program -> (SUBSET Device) \ {{}}]
  /\ Has \in [Program -> SUBSET Name]
  /\ None \notin Program \union Args \union Command \union Device \union Kernel
  /\ MaxSets \in Nat

VARIABLES
  state,      \* p_state of a program
  builtFor,   \* the devices of p_device_dependent
  source,     \* LE1Program's source, for each device: the program it is of
  tempFile,   \* whose source is in esdg_src.cl
  home,       \* the program of a kernel; None until it is created
  name,       \* p_name
  args,       \* p_args of a kernel: scalars and buffers
  sets,       \* calls of clSetKernelArg that changed arguments so far
  pc,         \* where a thread is in a build or an enqueue
  job,        \* the program that it builds, or the command
  todo,       \* the devices it has still to build for
  code,       \* what CompileSource has made so far, in memory
  clFile, tempAsm, kernelAsm,  \* <name>.cl, temp_<name>.s, kernel_<name>.s
  finalAsm, binary,            \* final_<name>.s and its binaries
  cmd,        \* of a command: its kernel and device
  stage,      \* how far it is
  fifo,       \* commands that the device has still to take up
  wpc, hand,  \* where the worker of a device is, and with which command
  ran,        \* history: what a command's simulation executed
  want,       \* history: what a command was enqueued as, until it is over
  disturbed   \* history: commands that another call may have changed

programVars == <<state, builtFor, source, tempFile>>
kernelVars  == <<home, name, args, sets>>
threadVars  == <<pc, job, todo, code>>
hostFiles   == <<clFile, tempAsm, kernelAsm>>
runFiles    == <<finalAsm, binary>>
workerVars  == <<fifo, wpc, hand>>
history     == <<ran, want, disturbed>>
vars == <<programVars, kernelVars, threadVars, hostFiles, runFiles, cmd, stage,
          workerVars, history>>

\* Whose source, launched for which command, with the scalars and the buffers
\* of which arguments: in a file, or in a program being made.
NoCode == [source |-> None, command |-> None, scalars |-> None, data |-> None]
Codes == [source : Program \union {None}, command : Command \union {None},
          scalars : Args \union {None}, data : Args \union {None}]

NameOf(c) == name[cmd[c].kernel]
InFlight == {c \in Command : stage[c] \in {"compiling", "queued", "running"}}

\* The files that the host made for a command have been copied by the worker.
Copied(c) == stage[c] = "running" /\ wpc[cmd[c].dev] # "copy"

Init ==
  /\ state = [p \in Program |-> "Empty"]
  /\ builtFor = [p \in Program |-> {}]
  /\ source = [p \in Program |-> [d \in Device |-> None]]
  /\ tempFile = None
  /\ home = [k \in Kernel |-> None]
  /\ name \in [Kernel -> Name]
  /\ args = [k \in Kernel |-> None]
  /\ sets = 0
  /\ pc = [t \in Thread |-> "idle"]
  /\ job = [t \in Thread |-> None]
  /\ todo = [t \in Thread |-> {}]
  /\ code = [t \in Thread |-> NoCode]
  /\ clFile = [n \in Name |-> None]
  /\ tempAsm = [n \in Name |-> NoCode]
  /\ kernelAsm = [n \in Name |-> NoCode]
  /\ finalAsm = [n \in Name |-> NoCode]
  /\ binary = [n \in Name |-> NoCode]
  /\ cmd = [c \in Command |-> [kernel |-> None, dev |-> None]]
  /\ stage = [c \in Command |-> "new"]
  /\ fifo = [d \in Device |-> <<>>]
  /\ wpc = [d \in Device |-> "idle"]
  /\ hand = [d \in Device |-> None]
  /\ ran = [c \in Command |-> NoCode]
  /\ want = [c \in Command |-> NoCode]
  /\ disturbed = {}

Goto(t, l) == pc' = [pc EXCEPT ![t] = l]

-----------------------------------------------------------------------------
(* Programs.                                                               *)

\* clCreateProgramWithSource.
Load(t, p) ==
  /\ pc[t] = "idle" /\ state[p] = "Empty"
  /\ state' = [state EXCEPT ![p] = "Loaded"]
  /\ UNCHANGED <<builtFor, source, tempFile, kernelVars, threadVars, hostFiles, runFiles,
                 cmd, stage, workerVars, history>>

\* Mutant: the test of the state is gone.
BuildAgain(t, p) ==
  /\ t \in Builder /\ pc[t] = "idle" /\ state[p] # "Empty"
  /\ state' = [state EXCEPT ![p] = "Failed"]
  /\ builtFor' = [builtFor EXCEPT ![p] = For[p]]
  /\ todo' = [todo EXCEPT ![t] = builtFor'[p]]
  /\ job' = [job EXCEPT ![t] = p]
  /\ Goto(t, "check")
  /\ UNCHANGED <<source, tempFile, kernelVars, code, hostFiles, runFiles,
                 cmd, stage, workerVars, history>>

\* clBuildProgram takes a program that is loaded, and neither built nor
\* failed; build calls it failed until it has succeeded.
BuildStart(t, p) ==
  /\ t \in Builder /\ pc[t] = "idle" /\ state[p] = "Loaded"
  /\ state' = [state EXCEPT ![p] = "Failed"]
  /\ builtFor' = [builtFor EXCEPT ![p] = For[p]]
  /\ todo' = [todo EXCEPT ![t] = builtFor'[p]]
  /\ job' = [job EXCEPT ![t] = p]
  /\ Goto(t, "check")
  /\ UNCHANGED <<source, tempFile, kernelVars, code, hostFiles, runFiles,
                 cmd, stage, workerVars, history>>

\* The compilation that checks the source, then the file.
BuildWrite(t) ==
  /\ pc[t] = "check" /\ todo[t] # {}
  /\ tempFile' = job[t]
  /\ Goto(t, "expand")
  /\ UNCHANGED <<state, builtFor, source, kernelVars, job, todo, code, hostFiles, runFiles,
                 cmd, stage, workerVars, history>>

\* ExpandMacros and InlineSource read the file and write it again; what they
\* leave is the device's source.
BuildRead(t, d) ==
  /\ pc[t] = "expand" /\ d \in todo[t]
  /\ source' = [source EXCEPT ![job[t]][d] = tempFile]
  /\ todo' = [todo EXCEPT ![t] = @ \ {d}]
  /\ Goto(t, "check")
  /\ UNCHANGED <<state, builtFor, tempFile, kernelVars, job, code, hostFiles, runFiles,
                 cmd, stage, workerVars, history>>

\* Each of the three can fail; the program stays as it is.
BuildFails(t) ==
  /\ pc[t] \in {"check", "expand"} /\ todo[t] # {}
  /\ job' = [job EXCEPT ![t] = None]
  /\ todo' = [todo EXCEPT ![t] = {}]
  /\ Goto(t, "idle")
  /\ UNCHANGED <<programVars, kernelVars, code, hostFiles, runFiles, cmd, stage,
                 workerVars, history>>

BuildEnd(t) ==
  /\ pc[t] = "check" /\ todo[t] = {}
  /\ state' = [state EXCEPT ![job[t]] = "Built"]
  /\ job' = [job EXCEPT ![t] = None]
  /\ Goto(t, "idle")
  /\ UNCHANGED <<builtFor, source, tempFile, kernelVars, todo, code, hostFiles, runFiles,
                 cmd, stage, workerVars, history>>

-----------------------------------------------------------------------------
(* Kernels and the commands that run them.                                 *)

CreateKernel(t, k, p) ==
  /\ pc[t] = "idle" /\ home[k] = None
  /\ state[p] = "Built" /\ name[k] \in Has[p]
  /\ home' = [home EXCEPT ![k] = p]
  /\ UNCHANGED <<programVars, name, args, sets, threadVars, hostFiles, runFiles,
                 cmd, stage, workerVars, history>>

\* The values are copied into the kernel, which its commands share.
SetArg(t, k, v) ==
  /\ pc[t] = "idle" /\ home[k] # None /\ args[k] # v
  /\ args[k] # None => sets < MaxSets
  /\ sets' = IF args[k] = None THEN sets ELSE sets + 1
  /\ args' = [args EXCEPT ![k] = v]
  /\ disturbed' = disturbed \union {c \in InFlight : cmd[c].kernel = k}
  /\ UNCHANGED <<programVars, home, name, threadVars, hostFiles, runFiles,
                 cmd, stage, workerVars, ran, want>>

\* The constructor of the command: every argument is given, the program was
\* built for the device.  History: commands of the same name that are on their
\* way lose their files to this one, unless the worker that will run it has
\* already copied them, and it loses its own if one of them is being compiled
\* or goes to another device.
Enqueue(t, c, k, d) ==
  LET same == {o \in InFlight : NameOf(o) = name[k]}
  IN  /\ pc[t] = "idle" /\ stage[c] = "new"
      /\ home[k] # None /\ d \in builtFor[home[k]]
      /\ args[k] # None
      /\ cmd' = [cmd EXCEPT ![c] = [kernel |-> k, dev |-> d]]
      /\ stage' = [stage EXCEPT ![c] = "compiling"]
      /\ job' = [job EXCEPT ![t] = c]
      /\ Goto(t, "source")
      /\ want' = [want EXCEPT ![c] =
           [source |-> home[k], command |-> c, scalars |-> args[k], data |-> args[k]]]
      /\ disturbed' = disturbed \union {o \in same : cmd[o].dev # d \/ ~Copied(o)}
           \union {x \in {c} : \E o \in same : stage[o] = "compiling" \/ cmd[o].dev # d}
      /\ UNCHANGED <<programVars, kernelVars, todo, code, hostFiles, runFiles,
                     workerVars, ran>>

\* createFinalSource and CompileSource, from file to file.
WriteSource(t) ==
  /\ pc[t] = "source"
  /\ clFile' = [clFile EXCEPT ![NameOf(job[t])] =
       source[home[cmd[job[t]].kernel]][cmd[job[t]].dev]]
  /\ Goto(t, "coarsen")
  /\ UNCHANGED <<programVars, kernelVars, job, todo, code, tempAsm, kernelAsm, runFiles,
                 cmd, stage, workerVars, history>>

\* The coarsener reads the file, unless a work-group is one work-item; then
\* the launcher takes the scalars from the kernel.
Launch(t, coarsened) ==
  LET k == cmd[job[t]].kernel
  IN  /\ pc[t] = "coarsen"
      /\ code' = [code EXCEPT ![t] =
           [source  |-> IF coarsened THEN clFile[name[k]] ELSE source[home[k]][cmd[job[t]].dev],
            command |-> job[t], scalars |-> args[k], data |-> None]]
      /\ Goto(t, "assembly")
      /\ UNCHANGED <<programVars, kernelVars, job, todo, hostFiles, runFiles,
                     cmd, stage, workerVars, history>>

WriteAssembly(t) ==
  /\ pc[t] = "assembly"
  /\ tempAsm' = [tempAsm EXCEPT ![NameOf(job[t])] = code[t]]
  /\ code' = [code EXCEPT ![t] = NoCode]
  /\ Goto(t, "transform")
  /\ UNCHANGED <<programVars, kernelVars, job, todo, clFile, kernelAsm, runFiles,
                 cmd, stage, workerVars, history>>

\* Mutant: the files are not named after the kernel.
TransformInto(t) ==
  LET n == NameOf(job[t])
  IN  /\ pc[t] = "transform"
      /\ kernelAsm' = [m \in Name |-> tempAsm[n]]
      /\ stage' = [stage EXCEPT ![job[t]] = "queued"]
      /\ fifo' = [fifo EXCEPT ![cmd[job[t]].dev] = Append(@, job[t])]
      /\ job' = [job EXCEPT ![t] = None]
      /\ Goto(t, "idle")
      /\ UNCHANGED <<programVars, kernelVars, todo, code, clFile, tempAsm, runFiles,
                     cmd, wpc, hand, history>>

\* llvmTransform.pl; the command can go to the device.
Transform(t) ==
  LET n == NameOf(job[t])
  IN  /\ pc[t] = "transform"
      /\ kernelAsm' = [kernelAsm EXCEPT ![n] = tempAsm[n]]
      /\ stage' = [stage EXCEPT ![job[t]] = "queued"]
      /\ fifo' = [fifo EXCEPT ![cmd[job[t]].dev] = Append(@, job[t])]
      /\ job' = [job EXCEPT ![t] = None]
      /\ Goto(t, "idle")
      /\ UNCHANGED <<programVars, kernelVars, todo, code, clFile, tempAsm, runFiles,
                     cmd, wpc, hand, history>>

\* A command that is over leaves its stage behind.
Forget(c) ==
  /\ cmd' = [cmd EXCEPT ![c] = [kernel |-> None, dev |-> None]]
  /\ ran' = [ran EXCEPT ![c] = NoCode]
  /\ want' = [want EXCEPT ![c] = NoCode]
  /\ disturbed' = disturbed \ {c}

CompileFails(t) ==
  /\ pc[t] \in {"coarsen", "assembly", "transform"}
  /\ stage' = [stage EXCEPT ![job[t]] = "rejected"]
  /\ Forget(job[t])
  /\ code' = [code EXCEPT ![t] = NoCode]
  /\ job' = [job EXCEPT ![t] = None]
  /\ Goto(t, "idle")
  /\ UNCHANGED <<programVars, kernelVars, todo, hostFiles, runFiles, workerVars>>

-----------------------------------------------------------------------------
(* LE1KernelEvent::run in the worker of a device.                          *)

\* The buffers that the arguments of a command's kernel name now.
Destination(c) == args[cmd[c].kernel]

WorkerAt(d, l) == wpc' = [wpc EXCEPT ![d] = l]

TakeUp(d) ==
  /\ wpc[d] = "idle" /\ fifo[d] # <<>>
  /\ hand' = [hand EXCEPT ![d] = Head(fifo[d])]
  /\ fifo' = [fifo EXCEPT ![d] = Tail(@)]
  /\ stage' = [stage EXCEPT ![Head(fifo[d])] = "running"]
  /\ WorkerAt(d, "copy")
  /\ UNCHANGED <<programVars, kernelVars, threadVars, hostFiles, runFiles, cmd, history>>

Copy(d) ==
  /\ wpc[d] = "copy"
  /\ finalAsm' = [finalAsm EXCEPT ![NameOf(hand[d])] = kernelAsm[NameOf(hand[d])]]
  /\ WorkerAt(d, "append")
  /\ UNCHANGED <<programVars, kernelVars, threadVars, hostFiles, binary, cmd, stage,
                 fifo, hand, history>>

AppendDataArea(d) ==
  /\ wpc[d] = "append"
  /\ finalAsm' = [finalAsm EXCEPT ![NameOf(hand[d])].data = Destination(hand[d])]
  /\ WorkerAt(d, "assemble")
  /\ UNCHANGED <<programVars, kernelVars, threadVars, hostFiles, binary, cmd, stage,
                 fifo, hand, history>>

Assemble(d) ==
  /\ wpc[d] = "assemble"
  /\ binary' = [binary EXCEPT ![NameOf(hand[d])] = finalAsm[NameOf(hand[d])]]
  /\ WorkerAt(d, "simulate")
  /\ UNCHANGED <<programVars, kernelVars, threadVars, hostFiles, finalAsm, cmd, stage,
                 fifo, hand, history>>

Simulate(d) ==
  /\ wpc[d] = "simulate"
  /\ ran' = [ran EXCEPT ![hand[d]] = binary[NameOf(hand[d])]]
  /\ WorkerAt(d, "read")
  /\ UNCHANGED <<programVars, kernelVars, threadVars, hostFiles, runFiles, cmd, stage,
                 fifo, hand, want, disturbed>>

\* The results go to Destination(hand[d]).
ReadBack(d) ==
  /\ wpc[d] = "read"
  /\ stage' = [stage EXCEPT ![hand[d]] = "done"]
  /\ hand' = [hand EXCEPT ![d] = None]
  /\ WorkerAt(d, "idle")
  /\ Forget(hand[d])
  /\ UNCHANGED <<programVars, kernelVars, threadVars, hostFiles, runFiles, fifo>>

\* Mutant: the worker keeps the event that failed.
RunFailsHolding(d) ==
  /\ wpc[d] \in {"copy", "append", "assemble", "simulate", "read"}
  /\ stage' = [stage EXCEPT ![hand[d]] = "failed"]
  /\ WorkerAt(d, "idle")
  /\ Forget(hand[d])
  /\ UNCHANGED <<programVars, kernelVars, threadVars, hostFiles, runFiles, fifo, hand>>

\* A step fails: the event is failed, and the files stay.
RunFails(d) ==
  /\ wpc[d] \in {"copy", "append", "assemble", "simulate", "read"}
  /\ stage' = [stage EXCEPT ![hand[d]] = "failed"]
  /\ hand' = [hand EXCEPT ![d] = None]
  /\ WorkerAt(d, "idle")
  /\ Forget(hand[d])
  /\ UNCHANGED <<programVars, kernelVars, threadVars, hostFiles, runFiles, fifo>>

Host(t) ==
  \/ \E p \in Program : Load(t, p) \/ BuildStart(t, p)
  \/ BuildWrite(t) \/ BuildFails(t) \/ BuildEnd(t)
  \/ \E d \in Device : BuildRead(t, d)
  \/ \E k \in Kernel, p \in Program : CreateKernel(t, k, p)
  \/ \E k \in Kernel, v \in Args : SetArg(t, k, v)
  \/ \E c \in Command, k \in Kernel, d \in Device : Enqueue(t, c, k, d)
  \/ \E coarsened \in BOOLEAN : Launch(t, coarsened)
  \/ WriteSource(t) \/ WriteAssembly(t) \/ Transform(t) \/ CompileFails(t)

Worker(d) ==
  \/ TakeUp(d) \/ Copy(d) \/ AppendDataArea(d) \/ Assemble(d)
  \/ Simulate(d) \/ ReadBack(d) \/ RunFails(d)

Next == (\E t \in Thread : Host(t)) \/ (\E d \in Device : Worker(d))

Spec == Init /\ [][Next]_vars

-----------------------------------------------------------------------------
(* Properties.                                                             *)

\* Every variable keeps its type; a thread has a program or a command in hand
\* when and as its place says, and a worker when it is not idle (build, run).
TypeOK ==
  /\ state \in [Program -> {"Empty", "Loaded", "Failed", "Built"}]
  /\ builtFor \in [Program -> SUBSET Device]
  /\ source \in [Program -> [Device -> Program \union {None}]]
  /\ tempFile \in Program \union {None}
  /\ home \in [Kernel -> Program \union {None}] /\ name \in [Kernel -> Name]
  /\ args \in [Kernel -> Args \union {None}]
  /\ sets \in 0 .. MaxSets
  /\ pc \in [Thread -> {"idle", "check", "expand", "source", "coarsen", "assembly", "transform"}]
  /\ job \in [Thread -> Program \union Command \union {None}]
  /\ todo \in [Thread -> SUBSET Device] /\ code \in [Thread -> Codes]
  /\ clFile \in [Name -> Program \union {None}]
  /\ \A f \in {tempAsm, kernelAsm, finalAsm, binary} : f \in [Name -> Codes]
  /\ cmd \in [Command -> [kernel : Kernel \union {None}, dev : Device \union {None}]]
  /\ stage \in [Command ->
       {"new", "compiling", "queued", "running", "done", "failed", "rejected"}]
  /\ fifo \in [Device -> Seq(Command)]
  /\ wpc \in [Device -> {"idle", "copy", "append", "assemble", "simulate", "read"}]
  /\ hand \in [Device -> Command \union {None}]
  /\ \A t \in Thread : job[t] \in CASE pc[t] = "idle" -> {None}
                                    [] pc[t] \in {"check", "expand"} -> Program
                                    [] OTHER -> Command
  /\ \A d \in Device : wpc[d] = "idle" <=> hand[d] = None
  /\ ran \in [Command -> Codes]
  /\ want \in [Command -> Codes] /\ disturbed \subseteq Command

\* A program that has kernels stays built, with a source of its own for each
\* of its devices: no other build's text is in it, and none is under way that
\* would change it beneath the kernels (Program::build, which shares
\* esdg_src.cl, clBuildProgram's test of the state, clCreateKernel's).
KernelsOfBuilt ==
  \A k \in Kernel : LET p == home[k] IN p # None =>
    /\ state[p] = "Built"
    /\ builtFor[p] # {}
    /\ \A d \in builtFor[p] : source[p][d] = p

\* A command runs the code of its program with the launcher that was made for
\* it, the scalars and the buffers its kernel had when it was enqueued, and its
\* results go to those buffers, if in the meantime nobody set an argument of
\* the kernel or enqueued a kernel of the same name (createFinalSource, run).
RunsAsEnqueued ==
  [][\A c \in Command \ disturbed : stage[c] = "running" /\ stage'[c] = "done" =>
       ran[c] = want[c] /\ Destination(c) = want[c].data]_vars
=============================================================================
