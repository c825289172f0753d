# Formal models of the LE1 OpenCL driver

The repository is an OpenCL 1.1 implementation, derived from Clover, for the
LE1, a multi-core VLIW processor that runs in a simulator (Insizzle).  A host
program links with the driver (`src/clover/src`), which compiles kernels with
LLVM, prints the data of their arguments as assembly, assembles both, loads
them into the simulator and reads the results back.

This directory holds TLA+ modules of the driver's core - queues, device,
launcher, memory, object lifetimes, compilation - the TLC configurations that
check them, and proofs for the TLA+ proof system.  Paths
below are relative to `src/clover/src` unless they begin with `src/`.

Contents: [1 the system](#1-the-system), [2 what is hard about
it](#2-what-is-hard-about-it), [3 the modules](#3-the-modules), [4 the
runs](#4-the-runs), [5 fairness](#5-fairness), [6 the proofs](#6-the-proofs),
[7 what the code does otherwise than it says](#7-what-the-code-does-otherwise-than-it-says),
[8 what is not modelled](#8-what-is-not-modelled), [9 the plan](#9-the-plan).

## 1 The system

### Threads and shared state

Any number of host threads call the API.  A device has one worker thread, made
when the first command queue on the device is created.  They share:

| state | where | guarded by |
|---|---|---|
| a queue's list of events, its flag `p_flushed` | `CommandQueue::p_events` | `p_event_list_mutex`, condition `p_event_list_cond` |
| a queue's `errcode` | `CommandQueue` | written under the mutex and outside it, read outside it |
| an event's status and callbacks | `Event` | `p_state_mutex` of the event, with `p_state_change_cond` |
| the queues that a user event wakes | `UserEvent::p_dependent_queues` | nothing |
| the device's list of events, `p_stop` | `LE1Device` | `p_events_mutex`, condition `p_events_cond` |
| `p_initialized`, the pointer to the simulator | `LE1Device` | nothing |
| the simulated machine | globals of Insizzle | `p_simulator_mutex` of each `LE1Simulator` |
| the results of a kernel | `LE1KernelEvent` | its `p_mutex` |
| reference counts | `Object` | nothing |
| `p_devices_to_allocate`, the pointer to a buffer's memory | `MemObject`, `LE1Buffer` | nothing |
| the state of a program and its sources | `Program`, `LE1Program` | nothing |
| the values of a kernel's arguments | `Kernel::p_args` | nothing |
| `esdg_src.cl`, `<name>.cl`, `temp_`, `kernel_`, `final_<name>.s` and the binaries | files in the working directory | nothing |

A command goes this way.  `clEnqueue*` constructs an `Event` and gives it to
`CommandQueue::queueEvent`, which has the device prepare it
(`initEventDeviceData`), appends it to the queue's list under the mutex, and
calls `pushEventsOnDevice`.  That function walks the list and hands the events
whose turn it is to `LE1Device::pushEvent`.  The worker takes an event in
`getEvent`, executes it in `worker`, and calls `Event::setStatus`, which calls
`pushEventsOnDevice` again for the queue of the event; the worker then calls
`cleanEvents`, which erases finished events from the list and wakes the threads
in `finish`.  Markers, barriers and `WaitForEvents` never reach the device:
`pushEventsOnDevice` completes them itself.

### Components

**Command queues and events** (`core/commandqueue.*`, `core/events.*`,
`api/api_event.cpp`, `api_enqueue.cpp`, `api_flush.cpp`, `api_command.cpp`).
State: the list, `p_flushed`, `errcode`, and of each event its status, type,
wait list and, for a user event, its dependent queues.  Operations:
`queueEvent`, `pushEventsOnDevice`, `cleanEvents`, `flush`, `finish`,
`setStatus`, `clWaitForEvents`, `clSetUserEventStatus` with `flushQueues`.
Correct when: commands execute in the order the queue and the wait lists
impose, each once, none is lost, flush and finish keep their promises, and
nobody waits for ever.

**LE1 device and worker** (`core/devices/LE1/LE1device.*`, `LE1worker.*`).
State: the list of events, `p_initialized`, `p_stop`, the simulator.
Operations: `init`, `pushEvent`, `getEvent`, the loop of `worker`, the
destructor; allocation of addresses for buffers.  Correct when every event
pushed is taken up once and in order, the worker holds each mutex exactly where
it should, and no failure of one command prevents the next.

**LE1 kernel events** (`LE1kernel.*`).  State: the number of work-groups, the
launcher's source and the files named after the kernel.  Operations:
`guessWorkGroupSize`, `CompileSource`, `CreateLauncher`, `reserve`, `run`,
`finished`, `takeInstance`.  Correct when each work-group of the NDRange is
executed once.

**LE1 simulator wrapper** (`LE1Simulator.*`).  Loads the data and instruction
memories, starts one context on each core, steps them to their end, reads and
writes the data memory.  It has one mutex, which its callers lock.

**Memory objects and device buffers** (`core/memobject.*`, `LE1buffer.*`,
`api_memory.cpp`).  A `MemObject` has one `DeviceBuffer` for each device,
allocated on first use when the context has several devices;
`p_devices_to_allocate` counts down, and the copy of the host's data is freed at
zero.  A sub-buffer's pointer is its parent's plus an offset, taken when it is
created; a mapping's is taken when it is enqueued.  Correct when a copy is there
for every device that needs it, no pointer goes stale and a read gets what was
last written.

**Reference-counted objects** (`core/object.*`).  `reference`, `dereference`
and the release of parents; a list of all known objects backs the API's checks
of its handles.  Correct when the count of an object is the number of those that
would miss it and nothing is entered that was deleted.

**Contexts** (`core/context.*`, `api_context.cpp`) are constant after their
construction, apart from their reference count.

**Programs and compilation** (`core/program.*`, `compiler.*`, `LE1program.*`).
States: empty, loaded, built, failed.  A build checks the source for each device
and passes it through the file `esdg_src.cl`; what comes out is kept for the
device, and compiled for each command.  Correct when a built program has its own
text for each of its devices.

**Kernels and arguments** (`core/kernel.*`, `api_kernel.cpp`).  The arguments
belong to the kernel, not to a command: the scalars are compiled into the
launcher when the command is queued, the buffers are looked up when it runs.
Correct when a command runs as it was queued.

**Callbacks and profiling** (`Event::setStatus`, `setCallback`,
`updateTiming`, `api_profiling.cpp`).

**Data printer** (`LE1DataPrinter.*`, `core/embedded_data.*`).  Three passes over
the data of a kernel: addresses, lines of words, and after the simulation the
copy back.  Correct when they agree on where each byte is.

**Coarsener and reduction** (`LE1/coarsener`, `LE1/creduce`).  Rewriting of
kernel source into a loop over work-items.

**Samplers, platform, GL, device queries** answer from constants.  **CPU
device** (`core/devices/cpu`) is not built.  **Run-time library**
(`runtime/stdlib.c`), **Insizzle** (`src/tools/insizzle`), **scripts, tools
and tests**, and the vendored **LLVM and libclc** surround the driver.

## 2 What is hard about it

* The worker completes events without the mutex of the queue, while a host
  thread walks the list.  What the walk found out about an earlier event may be
  stale when it comes to a later one.
* `pushEventsOnDevice` releases the mutex in the middle of its walk to complete
  a dummy event, and starts again on a list that has changed.
* `cleanEvents` erases from the middle of the list whose first element is what
  in-order execution goes by.
* A failed command takes another path through everything: the worker does not
  push, nothing is woken, `finish` gives up, dependent events stay.
* `errcode` is read and written with and without the mutex by several threads.
* An event that waits for an event of another queue depends on somebody pushing
  its own queue.
* Wake-ups: `flush`, `finish` and `getEvent` sleep on conditions that a few
  places signal.
* `run` has many returns and two mutexes to release at each.
* `init` publishes a device before anything guards it, and the destructor takes
  it away under the worker's feet.
* The first use of a buffer on a device allocates it in the thread that enqueues
  the command, without a lock, with a count whose decrement is a load and a
  store.
* Reference counts are spread over `Event`, `CommandQueue` and the API, with a
  release that is commented out, another that deletes nothing, and deletions by
  the worker in the middle of the host's calls.
* Files are named after kernels, and compiled in one thread while another may
  compile a kernel of the same name, and a worker reads them later.
* A kernel's arguments are read at three times: enqueue, run, copy back.
* The place of each byte of a kernel's data is worked out three times, by code
  that shares nothing but one address for each buffer.
* Every core finds its own work-groups by arithmetic alone, with quotients, with
  a byte for the id, and with a guessed size that need not divide.

PROJECT.json lists each hazard at its line with the properties that cover it.
Crashes and restarts do not arise: nothing is persistent.

## 3 The modules

| module | what |
|---|---|
| `CommandQueue` | the queues, their events, the host threads and the worker |
| `EventOrder` | the order of execution as promised, in terms of statuses alone |
| `DeviceService` | what the queues rely on from a device |
| `LE1Device` | the device: `init`, list, worker, mutexes of a kernel, destructor |
| `WorkGroups` | numbers of work-groups and the generated launcher on the cores |
| `DataArea` | the layout, the assembled memory and the copy back of a launch |
| `MemObjects` | memory objects, their allocation on first use, sub-buffers, mappings and the commands that use them |
| `Objects` | reference counts, deletion and the lists of queues |
| `Programs` | builds, kernels, and commands compiled and run from file to file |
| `CommandQueueInv` | the inductive invariants of `CommandQueue` |
| `CommandQueueSteps`, `CommandQueueProofs` | its proofs: what each step preserves, and the theorems |
| `LE1DeviceProofs`, `WorkGroupsProofs`, `DataAreaProofs`, `MemObjectsProofs`, `ProgramsProofs`, `ObjectsProofs` | the proofs about those modules |
| `MC*` | the modules the runs instantiate |

`CommandQueue` implements `EventOrder` (property `ImplementsOrder`) and uses
its picture of the device as `DeviceService` says (`ImplementsDevice`);
`LE1Device` implements `DeviceService` (`ImplementsService`).  So the two
detailed modules meet in `DeviceService`, and neither has to carry the state of
the other: the queues submit a command once, and what is taken up is what was
submitted, in order, one at a time.  The other modules look at the same calls
from another side: `Objects` at the references that an enqueue takes,
`MemObjects` at the buffers it allocates, `Programs` at the files it writes, and
each lets the worker take its steps at any time, which is more than the queues
allow.

### CommandQueue

A step is a run of code between two points at which another thread can
interfere.

* `lock[q]` is `p_event_list_mutex`.  It is a variable because the two loops
  over the list read the statuses of many events, one after another, while the
  worker changes them.  One iteration is one step.  The other critical sections
  read or write one thing and are single steps whose guard is that the mutex is
  free.
* `p_state_mutex` guards single accesses to a status and is implicit.
* The status `Running` exists in the enumeration and is set nowhere; it is left
  out.
* `pc[t]` is the place of a thread, `after[t]` where `pushEventsOnDevice` or
  `flush` returns to (its caller), `at[t]` the queue, `ev[t]` the event in hand.

| code | actions |
|---|---|
| `clEnqueue*`, `queueEvent` | `Enqueue`, `InitFails`, `QueueEvent`, then `PushLock` |
| `pushEventsOnDevice` | `PushLock`, `ScanEnd`, `ScanLook`, `ScanDone`, `ScanBehind`, `ScanBusy`, `ScanSkip`, `ScanWaitForEvents`, `ScanSubmit`, `ScanDummy`, `Settle` |
| `cleanEvents` | `CleanLock`, `EraseFinished`, `EraseSkip`, `EraseEnd`, `Cleaned` |
| `flush`, `finish` | `FlushCall`, `FlushTest`, `FlushWait`; `FinishCall`, `FinishStore`, `FinishFails`, `FinishCode`, `FinishWait` |
| `clWaitForEvents`, blocking calls | `WaitCall`, `WaitCheck`, `WaitSpin` |
| user events | `CreateUserEvent`, `SetUserCall`, `SetUser`, `FlushQueues` |
| the worker | `WorkerGet`, `WorkerCompletes`, `WorkerFails`, then `PushLock` ... and `CleanLock` ... |

`ScanLook` is there for one race: a walk reads the status of a dummy event
twice, and another thread may complete the event in between.  Kernels may fail;
`Copy` stands for the commands that do not.  The variables `issued`, `pred` and
`owed` are history: what was ever appended, what was appended before it, and
what the list held when a flush or finish began.  Actions marked as mutants are
plausible mistakes in the action they precede; no specification uses them.

### EventOrder, DeviceService

`EventOrder` has six variables, no threads and no lists.  Its `Ready` is the
list of push conditions that the comment of `pushEventsOnDevice` gives, in the
form in which the code has them: a failed event counts as over in an in-order
queue (section 7).  `DeviceService` is a list, a command in hand, and the set of
commands ever submitted.

### LE1Device

`mutex` is `p_events_mutex`.  Between two steps it is held only while a kernel
is reserved, since `getEvent` calls `reserve`, which takes the kernel's mutex
(`kmutex`) with the list's mutex in hand.  `simLock[t]` is the mutex of the
simulator that thread t created in `init`, which may happen more than once when
two threads create queues at the same time.  The places of `run` are
`prepare` (files and assembler), `simulate` and `results` (reading back); each
return of `run` is an action with the mutexes it leaves locked: `PrepareFails`
(the simulator's is released, the kernel's perhaps not), `SimulateFails`,
`ResultsUnhandled`, `ResultsAbandoned` (neither is released).  `StopWorkers`
and `Destroy` are the destructor.  After `Destroy` nothing happens: the mutexes
no longer exist, what the worker does is undefined, and the process ends.
The worker pushes events too, when a completion makes another event ready.

### WorkGroups

`Enqueue` has the checks of the event's constructor: sizes are not zero and the
local sizes divide the global ones, or `guessWorkGroupSize` is used.  `Compile`
computes the numbers of work-groups as `CompileSource` does; a dimension of size
one counts no work-group at all and is left out of the product.  `Start` is the
simulator, which starts the launcher on every core with the core's number, and
`Select...`, `RunGroup`, `Leave` are the generated loop.  The kernel reads its
id from two bytes, so ids are taken modulo `Byte` when stored.  The launcher
divides by the first dimension's number of groups; when that is zero the result
is undefined in C and any pair of results from a set of two is possible
(`SelectUndefined`).  `RunGroup` executes a whole work-group: the cores share
nothing but the memory that holds the kernel's data.

### DataArea

One launch is followed from the constructor of `LE1DataPrinter` to the copy back.
A kernel's data is a sequence of regions: variables, structs, then arguments.
`label` is the address that the code is linked with, `bufAddr` the one that the
`LE1Buffer` keeps, `image` the memory as the assembler makes it of the printed
lines, one cell for each byte, which tells whose byte it is; `host` is what the
host's buffers got back.  `PlaceVar`, `PlaceStruct`, `EndVars`, `EndStructs`,
`PlaceArg` are the constructor; `TooLarge`, `Mismatch`, `PrintAttributes`,
`PrintRegion`, `Unhandled` are `AppendDataArea`; `Simulate` lets the kernel write
all its buffers; `ReadArg` is the copy back of `LE1KernelEvent::run` with
`readByteData`, `readHalfData`, `readWordData` and the loop over structs, each
with the addresses and lengths it really uses.  Bytes written outside the host's
buffer are recorded in `spill`.  Addresses are unsigned: `wrapped` records that
one went past `Modulus`.  The errors of the printer (section 7) are in `Extent`,
`PrintData`, `PrintElements` and `Read`, so that the properties hold where they say,
and not elsewhere.  `Lines` is a set, because the length of some lines depends on
values that the model leaves out.

Structs are printed by `PrintSingleElement`, a field at a time (`PrintElements`).
`hex` is the state of its static stream: numbers are printed in decimal until some
struct has a word where a line begins.  The stream outlives a launch, and the
devices share it, so that a launch may find it either way.  `Regular` names the
regions whose bytes come out right: chars, halves and words that fill whole words
and do not start with a negative element; of structs, those of words, and those of
halves with one of words before them.  Everything else is printed as the code
prints it, and neither `ImageMatches` nor the theorems say anything of the image
of a launch that has some of it.

### MemObjects

`CreateBuffer`, `CreateSubBuffer` and `OutOfSpace` are `clCreateBuffer` and
`clCreateSubBuffer` down to `createDeviceBuffer`.  `Enqueue` begins the
construction of a command, whose buffers are then allocated one after another:
`CheckAllocated`, `TestData`, `Malloc` or `MallocFails`, `CopyIn`, `LoadCount`,
`Decrement`, `TestCount`, `FreeCopy` are `MemObject::allocate`,
`LE1Buffer::allocate` and `MemObject::deviceAllocated`, cut where another thread
can come between.  The actions `Exec...` are the cases of `worker`, which read
and write through `ptr`; what memory there is is in `mem`.  `expect` is history:
what the commands executed so far should have left.  A kernel that finds no data
leaves the simulator locked (`KernelAbandoned`); a null pointer plus an offset
ends the process (`BadPointer`).

### Objects

The objects are one context, queues and events.  The host thread is in at most
one call; `pc` is where it is in an enqueue (`Enqueue` or `GrabEvents` and
`MakeMarker` for a marker, then `Append` or `Reject`, then `GiveHandle`), and the
worker can act at each of these places (`Execute`, `WorkerCleans`, with `hand`
the event it has finished), as can `pushEventsOnDevice` (`Push`).  `Destroy` is a
destructor, one object at a time: `doomed` are those whose `delete` was called.
`refs` is `p_references` as the calls leave it; the property `Accounting` says
what it should be, from the pointers that are there.

### Programs

A build is `BuildStart`, then for each device `BuildWrite` and `BuildRead` of
`esdg_src.cl`, or `BuildFails`, and `BuildEnd`.  An enqueue is `Enqueue`, which
checks, then `WriteSource` (`createFinalSource` writes `<name>.cl`), `Launch` (the
coarsener reads that file, if it is called, and the launcher takes the scalars
from the kernel), `WriteAssembly`, `Transform` (`llvmTransform.pl` makes
`kernel_<name>.s`, and the command goes to the device), or `CompileFails`.
`TakeUp`, `Copy`, `AppendDataArea`, `Assemble`, `Simulate`, `ReadBack` and
`RunFails` are `LE1KernelEvent::run` in the worker of a device.  What is in a
file is a record: of which program the source is, for which command it was
launched, with which scalars and buffers.  `want` is what a command should run,
and `disturbed` the commands for which one of these calls came between:
`clSetKernelArg` of its kernel before it was over; the enqueue of a kernel of the
same name, while the worker has not yet copied the command's file, or while the
other is being compiled, or on another device.

## 4 The runs

In every run `CHECK_DEADLOCK FALSE` is set, because the systems may stop: the
number of calls is bounded, the process ends in `LE1Device`, the launcher ends
in `WorkGroups`.  That nobody is stuck before that is what the liveness
properties say.

| run | bounds | shows |
|---|---|---|
| `cq_inorder` | 2 host threads, 3 events (copies, kernels that may fail, markers, a user event), 2 calls each, wait lists of one; in-order queue | nothing starts before what was queued earlier is over; no command goes to the device twice; none is dropped from the list early |
| `cq_outoforder` | 1 host thread, 4 events, 5 calls, wait lists of up to two; kernels that may fail, barriers, `WaitForEvents`, user events; out-of-order queue | barriers, wait lists, both refinements, and the inductive invariant of the proofs in every reachable state |
| `cq_live_inorder` | 2 host threads, 2 kernels that may fail, flush and finish, 2 calls each; in-order queue | `clFlush` and `clFinish` keep their promises and everything ends as long as nothing fails; a finish that saw the empty list had everything over, failures or not |
| `cq_live_barriers` | 1 host thread, 3 events (copies, blocking or not, barriers), 4 calls with flush, finish, wait | every wait returns |
| `le1_device` | 2 pushing threads, one of which initialises, 4 events of all three kinds, every failure, the destructor, 2 identities for workers | mutexes, `StopIsFinal`, `ImplementsService`, and that the device goes on after every failure but the abandoned one |
| `wg_launch` | 2 cores, 1 to 3 dimensions, sizes up to 5, every local size that divides and the guessed ones, ids of 4 values | each work-group once, all of them, and an end |
| `data_area` | 2 cores, kernels of at most one variable, one struct of words and three arguments, or structs of every type and one argument, the static stream in decimal or not, two buffers, every element type, sizes at which lines and words differ, 256 unsigned values | the regions are disjoint, the cores' parts too; the copy back uses the code's addresses; image and host hold the right bytes where the printer's types are right |
| `mem_objects` | 2 devices with a thread each, contexts of one or both, 2 buffers of every kind, 3 commands, counts modulo 4, a device with room or without | copies, aliases and reads are right |
| `objects` | 1 context, 2 queues, 3 events, at most 2 references held to an event | counts are exact, nothing dangles, user events find their queues |
| `programs` | 2 threads, one of which builds, 2 devices, 2 programs that share a kernel name (the second built for one device only), 2 kernels, 2 commands, 2 values of arguments, one change of them | kernels belong to built programs; commands run as enqueued |
| `finish_marker_stuck`, `mem_first_use` | as small as the behaviour allows | the disagreements of section 7 |

**Why the bounds are enough.**  The races in `CommandQueue` are between two
threads: one that walks the list and one that completes, appends or erases.  Two
host threads and the worker make three actors, and a thread is in the walk, in
the erasing loop or between the two.  Three events are the least for an event
with one before and one behind it; four let a barrier stand between two commands
with a user event besides.  Two calls of each thread are enough for an enqueue
that is overtaken by another thread's flush or finish.  Wait lists of
two let one element complete and the other stay; elsewhere one is enough, since
each element is looked at by itself.  In `LE1Device` four events let every kind follow a kernel that failed, with another
still to come.  In `WorkGroups` sizes up to five give one to five groups with two
cores: fewer groups than cores, as many, a multiple, and neither; with
`Byte = 4` a count of five does not fit its byte, which the real 256 would need
too many states for.  In `DataArea` three arguments are one before, one bound to
the same buffer and one behind; sizes of 2, 4, 5, 6 and 8 bytes give lines that
are empty, full, over-full and partial, and a local region of half the unsigned
values makes the addresses wrap.  In `MemObjects` two devices are the least for
which the copy is kept, two buffers the least for a sub-buffer or a copy between
two, and three commands let one allocate, one write and one read.  In `Objects`
three events are a user event, one that waits for it and one that waits for that
or marks it; two queues let an event of one wait in another.  In `Programs` two
commands are one that is disturbed and one that disturbs.  The bounds `MaxHeld`,
`MaxSets`, `MaxCommands`, `MaxCalls` end runs of calls that repeat what was there
before.  For most of the safety properties the bounds are not the last word,
since section 6 proves them for all values.

**Mutants.**  Each property of a passing run has a mutant in PROJECT.json, a
plausible mistake in the code with which TLC finds the property violated:
for instance the walk ignores that an event is not first (`BehindBarrierOnly`),
a walk passes an unfinished `WaitForEvents`, a finished worker forgets to push,
a signal is left out, every core starts at work-group zero, a copy is freed one
device early, a sub-buffer forgets its offset, a marker keeps the references it
took, a program is built again.

## 5 Fairness

`CommandQueue`: `WF(Work)` and `WF(Continue(t))` for every host thread: a thread
that can go on does.  What the program does next (`Start`) is not fair, nor is a
spurious wake-up, though both may happen.  Weak fairness is enough for a mutex
because calls are finite in number: no mutex is contended for ever, so a thread
that waits for one finds it free and stays able to take it.  `WF(Work)` includes
that the execution of a command returns; that is `EventsServed` of `LE1Device`,
which has the one case in which it does not, the kernel that is abandoned with
the simulator locked.

`LE1Device`: weak fairness of the steps of `init` once begun, and of each
worker, until the process ends.  The pushing threads have none.  A simulation
ends because the launcher does (`LauncherEnds`) provided that the kernel does.

`WorkGroups`: weak fairness of `Start` and of each core; the simulator steps all
cores in turn.

The other modules have safety properties only, and no fairness.

## 6 The proofs

The theorems hold for every value of the constants that the named assumptions
allow: any number of threads, queues, events, calls, cores, sizes.

### CommandQueue, from `ConstantsOK`

`IInv` (module `CommandQueueInv`) is a conjunction:

* `LockInv`: the mutex is held by exactly the thread inside one of the loops.
* `FrameInv`, `LoopInv`, `AppendInv`: what the local variables are at each
  place, and that no two threads enqueue the same event.
* `EventInv`, `DeviceInv`, `ListInv`: how an event's status, its kind, the
  device's list and the queue's list agree; each unfinished event is in the list
  of its queue, behind the unfinished events that were queued before it.
* `ScanInv`: what a walk may rely on of the events it has passed.  With `first`
  still true, all of them are complete; and a barrier or `WaitForEvents` among
  them is complete.  It is stable because statuses only go forward and the list
  does not change while the mutex is held.
* `SettleInv`: a dummy event whose completion was decided under the mutex and
  happens after its release may be completed still, even by two threads.
* `StartInv`: whatever was taken up satisfies `CanStart`.

The properties say of a *started* event that its predecessors are over.
They are not inductive: the step that starts an event knows only what the walk
saw, hence `ScanInv`, and what the list says of the predecessors, hence
`ListInv`.  `CanStart` is stable once true, which carries it over the release of
the mutex.

Proved from it: `TypeCorrect`, `Invariance`, `InOrder_Holds`, `Barriers_Hold`,
`WaitLists_Hold`, `Device_Once`, `None_Dropped`, `Refinement` (every step is a
step of `EventOrder` or changes nothing of it), `ServiceRefinement` (the same
for `DeviceService`).

The promises of `finish` and `flush` relate the return to the list at the time of
the call.  `OwedInv` follows it: while a thread is inside, all it is owed was
queued in the queue it is at.  With `ListInv`, an empty list then means that all
of it is over: `Finish_Empties`, for every kind of event and failures included.
`flush` looks at `p_flushed` instead, and `PushedInv` says what that is worth: an
event of the list that is still to be pushed is one that the walk of some thread
has yet to reach.  So with the mutex free there is none.  This is the point at
which a dummy event breaks the promise, since it makes the walk release the mutex
halfway (section 7), hence the form `NoDummyEvents => (Spec => FlushPushes)` of
`Flush_Pushes`; user events and wait lists are allowed.  `ErrorInv` excludes the
two other exits, through `errcode`, until something has failed.

### LE1Device, from `DeviceConstants` and `OneCreator`

The theorems have the form `OneCreator => (Spec => ...)`: one thread creates
command queues.  Without that, `init` may run twice (section 8).  `IInv` says
that there is at most one worker and when it exists (`InitInv`), who holds the
list's mutex (`MutexInv`), how results, the list and the event in hand agree
(`EventsInv`), and what the worker holds at each place of `run` (`RunInv`).
Proved from it: `Invariance`, `KernelMutex_Free`, `Stop_Final`, `Refinement`.
`KernelMutex_Free` is the interesting one: some failures leave the kernel's own
mutex locked, and it does no harm because an event is reserved once and asked
for its result only after a run that released it.

### WorkGroups, from `SizesOK`

`GroupsOnce` and `AllGroupsRun` are stated for launches that satisfy `Fits`.
Its conditions are the launcher's own: the first dimension has more than one
work-item, the third no more than one group, local sizes divide, and the numbers
of groups fit their bytes.  In the invariant, core c has
done the numbers congruent to c modulo `Cores` that are below its `id`
(`CoresInv`, `RanInv`), and the pair that the kernel reads is the quotient and
remainder of that number.  The rest is arithmetic of quotients and remainders:
two cores never have the same number, no number of a core lies between two
consecutive ids of it, different numbers name different groups, and every group
of the grid has a number below the total.  Proved: `Invariance`, `Groups_Once`,
`All_Groups_Run`.

### DataArea, from `DataOK`

`PlacementInv` says that the regions placed so far lie one behind another below
`cursor`, each with room for what the code uses of it (`LayoutInv`), that each has
one label (`LabelInv`), that the buffers' addresses were compared with the labels
before anything is printed, and that nothing moves afterwards.  It is needed
because `RegionsDisjoint` says nothing of where the next region will go.  The
arithmetic lemmas are about rounding up, remainders and multiples; where an
address went past the unsigned nothing is claimed, as in the property.
Proved: `Placement`, `Regions_Disjoint`, `Cores_Apart`, `CopyBack_Agrees`, for any
kernels, any number of cores and any size of the memory.

`DataInv` adds the bytes.  A pass has been through every region when the next
pass begins (`PassInv`); regular regions follow one another without a gap
(`DenseInv`), and the static stream is in hexadecimal once a struct of words was
printed (`HexInv`), so that an image printed line by line ends exactly where the next
region starts and has the bytes of those before it at their addresses
(`PrintedInv`).  The kernel leaves its bytes in the buffers (`LeftInv`), the
buffers that the copy back has passed have them too (`CopiedInv`), and only the
conversions of halves and of mixed structs write elsewhere (`SpillInv`).
Proved: `Bytes`, `TypeCorrect`, `Image_Matches`, `CopyBack_Exact`.

### MemObjects, from `MemObjectsOK`

`TypeCorrect` holds whatever the threads share: its invariant says that a
sub-buffer is one cell of its parent, that a parent is no sub-buffer, and that a
mapping or a copy stays in the cells of a block (`RangeInv`, `RootsInv`, `JobInv`).

The other theorems have the form `OwnDevices => (Spec => ...)`: no two threads
enqueue to the same device.  Without it the run `mem_first_use` shows what happens.  With
it there is still a race, because the threads decrement one count: a decrement
may overwrite another.  `MemInv` says why that does not free the copy early: the
count is never *below* the number of devices that have not counted
(`CountInv`), nor is a value that a thread has loaded and not yet stored
(`AllocInv`), since a device is not counted before its thread stores.
`PointerInv` says that a root's pointer changes once, from null, so that only null
pointers can have been derived before.  Proved: `FirstUse`, `Copy_Has_Source`,
`Aliases_Hold`, for any number of threads, devices, buffers and commands.

`Reads_Latest` needs `NoOffsets` besides: the workers read and write at the
beginning of the buffer whatever the offset of the command is (section 7), so the
property is about commands without one, as in the runs.  `ReadInv` relates every
cell of the memory to `expect`, which the commands on a device make of a buffer.
A queued command has memory for all its buffers (`QueuedInv`); the block of a
buffer on a device is that of no other, or the host program's own (`BlockInv`,
`HostInv`); and a root's block holds what is expected, except between its
allocation and its initial copy, when nothing but the initial contents is
expected (`MatchInv`).  What could break it is a command that the worker executes
in that gap: `FillInv` says that those which the device has on the buffer then
were enqueued with a pointer derived from null, which points nowhere
(section 7), so they leave the block alone.

### Programs, from `ProgramsOK`

The assumption includes that one thread builds and that a build is for some
device.  `FilesInv` is a conjunction: a build has its own text in the devices it
is done with, and kernels only belong to built programs (`BuildInv`); a command
in flight has a kernel with arguments, on a device of its program (`CommandInv`),
and is with one thread, once in one list, or with one worker (`PlaceInv`);
whoever shares its name with an *undisturbed* command is for the same device, and
is compiled only when that one's file was copied (`ApartInv`); and each file is
what the undisturbed command that is about to use it needs (`WantInv`, `HostInv`,
`RunInv`).  `ApartInv` carries the argument: with it the only writer of an
undisturbed command's files is the thread or the worker that has the command.
Proved: `FilesConsistent`, `Types`, `Kernels_Of_Built`, `Runs_As_Enqueued`.

### Objects, from `ObjectsOK`

`ObjInv`: every count is exactly the number of the host's handles, children,
waiting commands, temporary grabs of `clEnqueueMarker` and references that the
constructor took and nobody has dropped yet (`Accounting`, itself inductive with
the rest).  What is held, and what a live object owns, is alive (`ReachInv`); the
lists, the worker and `clEnqueueMarker` only have events whose own reference is
kept (`KeptInv`); what is about to be destroyed has no handle, child or waiter
(`DoomInv`), which is where `Accounting` is needed: a sum of cardinalities is zero
only if each is.  `HostInv` is about the steps of an enqueue, and `DepsInv` about
the queues a user event will enter: each is the parent of a live command that
waits for the event, or the event was cut off from a command that was given up.
Proved: `Lifetimes`, `Types`, `Counts_Exact`, `Nothing_Dangles`,
`Dependents_There`.

### Only model-checked

The liveness properties (`EveryEventEnds`, `FlushEnds`, `FinishEnds`, `WaitEnds`,
`EventsServed`, `LauncherEnds`), since the prover has no rules for fairness and
ENABLED.  Every other property of a passing run is a theorem, some of them under
the hypotheses named above.

## 7 What the code does otherwise than it says

These have a run in which TLC finds the behaviour.

| run | what |
|---|---|
| `finish_marker_stuck` | a marker at the end of the queue is completed by a walk, which cleans nothing; a `finish` asleep by then is woken by nobody |
| `mem_first_use` | two threads that use a buffer for the first time on one device both allocate it and both count it; the host's copy is freed with another device still to take it, and its `memcpy` reads freed memory |

Met while modelling, modelled as the code has it, without a run of their own.

Queues and events:

* `pushEventsOnDevice` sets `p_flushed` when it begins and releases the mutex to
  complete a dummy event (`commandqueue.cpp:492`); a flush that gets the mutex
  then returns with commands not pushed, where `commandqueue.h:158` says that it
  pushes all events.  The run of `FlushPushes` has a queue of kernels only.
* After a failure `finish` returns `errcode` read after the release of the mutex
  (`commandqueue.cpp:256`); another thread's `cleanEvents` may have made a success
  of it, with commands still queued.
* An event that waits for an event of another queue is not pushed when that
  completes: `setStatus` pushes the event's own queue (`commandqueue.cpp:706`).
  Only a user event knows the queues that depend on it.
* A failed event counts as over in an in-order queue, so that the next one
  starts; `commandqueue.h:118` asks that the previous ones be "completed with
  success".  The events that list a failed event in their wait list are never
  terminated (a TODO in `setStatus`) and stay in the list.
* `commandqueue.h:166` says that finish waits for the events; after a failure it
  does not.  After a failure the worker does not push, so a flush may wait for
  ever.
* Two threads may complete the same dummy event; it does no harm.
* `clWaitForEvents` spins until every event is complete; an event that fails
  after its check keeps it spinning.  For a user event it asks for a queue that is
  null.
* A marker on an empty queue is rejected.

Device and launcher:

* A kernel whose results cannot be read back returns with the simulator locked
  (`LE1kernel.cpp:873`), and the worker waits for ever at the next command; this
  is `Abandoned` in `EventsServed`.
* `guessWorkGroupSize` divides by the number of cores, with a FIXME that it "will
  break code" (`LE1kernel.cpp:143`): the size may be zero, at which
  `CompileSource` divides, and need not divide the global size.  `Fits` excludes
  the second; `Compile` is not enabled for the first.
* A third dimension with several groups: the launcher's test is `>` where the
  last row is excluded by `>=`, and the third id is never set.  `Fits` excludes
  it.

Data area:

* `secondpass.pl` ignores the address that is printed before a line; the words
  follow one another.  `getSize` of a variable adds the remainder to itself
  (`embedded_data.h:44`), and `PrintData` prints as many bytes as that says, more
  than there are.
* A negative char is printed as an int, with eight hexadecimal digits; the last,
  partial line of chars begins again at the first one, that of halves has the
  first one twice, and ints have none.
* Chars within structs are printed as characters (`LE1DataPrinter.cpp:729`), and
  one of them may end the line.  Halves within structs, and ints after a char, are
  printed in decimal (`LE1DataPrinter.cpp:740`, `798`) until an int that begins a
  line has set `std::hex` (`LE1DataPrinter.cpp:781`), and may then have more digits
  than the line.  `Regular` excludes all of these, and `ImageMatches` is stated for
  what is left.
* `InitialiseLocal` is called with `ArgAddrs[i]`, where `i` counts other things
  than `ArgAddrs` (`LE1DataPrinter.cpp:414`); it prints zeros, so that only the
  unused address is wrong.
* `readHalfData` uses the device address as an index into the host's buffer, and
  the loop over a struct adds it to the pointer; a struct with no int and no float
  keeps that loop from ending (`LE1kernel.cpp:941`).
* One buffer bound to two arguments always fails, in the check of the labels.
* The size of local memory times the number of cores may wrap.

Memory objects:

* The worker ignores the offset of a read, write or copy (`events.h:98`,
  `LE1worker.cpp:113`).
* A sub-buffer made before its parent is allocated has a null pointer plus its
  offset for ever.  A kernel bound to one at offset zero returns with its locks
  held; another pointer is used.
* `global_base_addr` is not initialised and never given back, and the process
  ends when it has no room (`LE1device.cpp:240`).
* Nothing keeps the buffers of several devices the same, and a sub-buffer holds
  no reference to its parent.

Object lifetimes:

* Every event that was queued, its queue and the context live for ever: the
  release in `cleanEvents` is commented out (`commandqueue.cpp:347`), so the
  deletion of the queue there is not reached.
* The constructor of an event, and of a marker on a queue with a failed event,
  gives up at a failed event of the wait list with a count and no list, and the
  destructor reads that list.
* A command that is rejected leaves its queue in the dependent queues of the user
  events it waited for.  `DependentsThere` excepts it (`cut`).

Programs and kernels:

* Two builds at once would write one file, `esdg_src.cl`, and nothing locks a
  program; `ProgramsOK` has one builder.
* The host's notification is called before the program is built
  (`program.cpp:540`).  A program that knows more devices than the call lists
  reads beyond the list (`program.cpp:393`).
* Kernels of the same name share their files, and arguments are read when the
  command runs and again when the results are copied: the exceptions of
  `RunsAsEnqueued`.
* `setArg` accepts the index one past the end (`kernel.cpp:269`), and refuses a
  null buffer for want of a `break` (`kernel.cpp:337`).

## 8 What is not modelled

* **Two threads in `init`.**  `LE1Device` has the actions for it (`Creator` with
  two elements), and with them `IInv` fails as the comment of `OneCreator` says.
  The runs use one creator, since what follows a mutex initialised while in use
  is undefined.
* **Reference counts changed by several host threads.**  They are not atomic; with
  a lost update no property of `Objects` holds.
* **Two builds at once**, which nothing in the code expects.
* **Callbacks and time stamps.**  What a callback does is known only in the host
  program, and it runs with the mutex of the event held.
* **The release of memory objects, programs and kernels**: counted as in
  `Objects`, but with no children that a worker ends.  **Images**: the worker does
  nothing for their commands.  **Programs made of binaries**: their kernels have no
  source that could be compiled.
* **Argument checks** of the constructors of events, beyond those that leave
  something behind: an event that they reject never reaches a queue.
* **The contents of files, the assembler and the simulator**: their outcome is a
  choice between success and each kind of failure.  Only the data area has bytes.
* **Some types of data.**  Structs whose fields are not of one type, other than a
  char and an int, and structs with room at their end: what `PrintSingleElement`
  has begun of a line waits there for the next struct.  Buffers of structs whose
  fields have one type: printed like such constant structs, read back like chars,
  halves or words.  Variables of 64 bits, which `AddVariable` keeps as bytes.
* **The coarsener** is a source-to-source transformation of C; a bounded state
  space says nothing of its correctness.  The **CPU device** and the second half
  of `LE1kernel.cpp`, which comes from it, are dead code.
* **Samplers, platform, GL, queries** have no state.  **Insizzle** is another
  project; the models take from it that every core is stepped until it halts and
  how a word is read, and from the LE1 back end that an id is a byte.
* **LLVM, Clang and libclc**, vendored, are nearly all of the repository's lines.
  What is modelled is a small part of the tree for that reason, and most of the
  driver's own code that keeps state.

PROJECT.json, under "components", gives the status of every part.

## 9 The plan

Done: `CommandQueue` with `EventOrder` and `DeviceService`; `LE1Device`;
`WorkGroups`; `Programs`; `MemObjects`; `DataArea`; `Objects`; the proofs of
section 6, of every safety property that a passing run checks.

Left, in order of importance:

1. Callbacks: registration against completion, for callbacks that call nothing;
   each one registered before its status is reached is called once.
2. `Flush_Pushes` with dummy events: which commands a walk that was interrupted
   for one still has to push, and that its thread pushes them before it returns.
3. `Reads_Latest` for threads that share a device but use no buffer for the first
   time together, which is weaker than `OwnDevices`.
