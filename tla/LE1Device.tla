----------------------------- MODULE LE1Device ------------------------------
(***************************************************************************)
(* One LE1 device (core/devices/LE1/LE1device.cpp): its initialisation by  *)
(* the threads that create command queues, its list of events, the loop of *)
(* its worker (LE1worker.cpp), the two mutexes the worker takes to execute *)
(* a kernel (LE1kernel.cpp, LE1Simulator.cpp) and its destruction at the   *)
(* end of the process.                                                     *)
(*                                                                         *)
(* A command queue hands the device an event once (CommandQueue proves     *)
(* it), and what becomes of the event is the result recorded here.  The    *)
(* simulation, the files it works on and the data of the buffers are left  *)
(* out: each may fail, and the model keeps which mutexes each failure      *)
(* leaves locked.                                                          *)
(***************************************************************************)
EXTENDS Naturals, Sequences

CONSTANTS
  Host,     \* threads that push events
  Creator,  \* those of them that also create command queues
  Worker,   \* identities for the threads init() may create
  Event,    \* the events pushed on the device
  None      \* no thread, no event, no simulator

Thread == Host \union Worker

ASSUME DeviceConstants ==
  /\ Creator \subseteq Host
  /\ Host \cap Worker = {}
  /\ None \notin Thread \union Event
  /\ Event \subseteq Nat

\* Transfer: read and write, under the simulator's mutex.  Other: copies, maps,
\* native kernels and the commands the worker passes over.
Kinds == {"Kernel", "Transfer", "Other"}

VARIABLES
  initialized,  \* p_initialized
  stop,         \* p_stop
  mutex,        \* the thread that holds p_events_mutex
  waiting,      \* workers in pthread_cond_wait on p_events_cond
  events,       \* p_events, whose length is p_num_events
  simulator,    \* Simulator: the one created by that thread
  simLock,      \* p_simulator_mutex of each simulator: the worker that holds it
  gone,         \* the destructor has destroyed mutex, condition and simulator
  kind,         \* the kind of each event
  result,       \* of each event: "new", "pushed", "Complete" or "Failed"
  kmutex,       \* p_mutex of each LE1KernelEvent: the worker that holds it
  pc,           \* where the thread is
  cur,          \* the worker's event
  using         \* run()'s local pointer to the simulator

listVars == <<mutex, waiting, events>>
initVars == <<initialized, stop, gone>>
simVars  == <<simulator, simLock>>
eventVars == <<kind, result, kmutex>>
vars == <<initVars, listVars, simVars, eventVars, pc, cur, using>>

Init ==
  /\ initialized = FALSE /\ stop = FALSE /\ gone = FALSE
  /\ mutex = None /\ waiting = {} /\ events = <<>>
  /\ simulator = None /\ simLock = [t \in Creator |-> None]
  /\ kind = [e \in Event |-> "Other"]
  /\ result = [e \in Event |-> "new"]
  /\ kmutex = [e \in Event |-> None]
  /\ pc = [t \in Thread |-> IF t \in Host THEN "idle" ELSE "none"]
  /\ cur = [w \in Worker |-> None]
  /\ using = [w \in Worker |-> None]

Go(t, from, to) == pc[t] = from /\ pc' = [pc EXCEPT ![t] = to]

Fresh(e) == result[e] = "new" /\ \A d \in Event : result[d] = "new" => e <= d

-----------------------------------------------------------------------------
(* init.  No mutex is held, and p_initialized is set last.                 *)

InitCall(t) ==
  /\ ~initialized /\ Go(t, "idle", "init")
  /\ UNCHANGED <<initVars, listVars, simVars, eventVars, cur, using>>

InitDevice(t) ==
  /\ Go(t, "init", "setup")
  /\ mutex' = None
  /\ simulator' = t
  /\ simLock' = [simLock EXCEPT ![t] = None]
  /\ UNCHANGED <<initVars, waiting, events, eventVars, cur, using>>

\* LE1Simulator::Initialise reads the machine's file; init may fail with it.
InitSimulator(t) ==
  /\ Go(t, "setup", "spawn") \/ Go(t, "setup", "idle")
  /\ simLock[t] = None
  /\ UNCHANGED <<initVars, listVars, simVars, eventVars, cur, using>>

Spawn(t) ==
  /\ pc[t] = "spawn"
  /\ \E w \in Worker :
       /\ pc[w] = "none"
       /\ pc' = [pc EXCEPT ![t] = "spawned", ![w] = "get"]
  /\ UNCHANGED <<initVars, listVars, simVars, eventVars, cur, using>>

InitDone(t) ==
  /\ Go(t, "spawned", "idle")
  /\ initialized' = TRUE
  /\ UNCHANGED <<stop, gone, listVars, simVars, eventVars, cur, using>>

Initialise(t) == InitDevice(t) \/ InitSimulator(t) \/ Spawn(t) \/ InitDone(t)

-----------------------------------------------------------------------------
(* pushEvent, by a host thread or by the worker that completed an event.   *)

\* Mutant: the condition is not signalled.
PushSilently(t) ==
  /\ pc[t] \in {"idle", "done"} /\ initialized /\ mutex = None
  /\ \E e \in Event, k \in Kinds :
       /\ Fresh(e)
       /\ events' = Append(events, e)
       /\ kind' = [kind EXCEPT ![e] = k]
       /\ result' = [result EXCEPT ![e] = "pushed"]
  /\ UNCHANGED <<initVars, mutex, waiting, simVars, kmutex, pc, cur, using>>

PushEvent(t) ==
  /\ pc[t] \in {"idle", "done"} /\ initialized /\ mutex = None
  /\ \E e \in Event, k \in Kinds :
       /\ Fresh(e)
       /\ events' = Append(events, e)
       /\ kind' = [kind EXCEPT ![e] = k]
       /\ result' = [result EXCEPT ![e] = "pushed"]
  /\ waiting' = {}
  /\ UNCHANGED <<initVars, mutex, simVars, kmutex, pc, cur, using>>

-----------------------------------------------------------------------------
(* getEvent.                                                               *)

\* A worker inside getEvent with the mutex; one that finds p_initialized unset
\* comes back at once.
Getting(w) == pc[w] = "get" /\ w \notin waiting /\ initialized /\ mutex = None

GetWaits(w) ==
  /\ Getting(w) /\ events = <<>> /\ ~stop
  /\ waiting' = waiting \union {w}
  /\ UNCHANGED <<initVars, mutex, events, simVars, eventVars, pc, cur, using>>

GetStops(w) ==
  /\ Getting(w) /\ stop /\ Go(w, "get", "stopped")
  /\ UNCHANGED <<initVars, listVars, simVars, eventVars, cur, using>>

\* Mutant: the list is emptied before p_stop is looked at.
GetKernelDraining(w) ==
  /\ Getting(w) /\ events # <<>> /\ kind[Head(events)] = "Kernel"
  /\ Go(w, "get", "reserve")
  /\ cur' = [cur EXCEPT ![w] = Head(events)]
  /\ mutex' = w
  /\ UNCHANGED <<initVars, waiting, events, simVars, eventVars, using>>

\* The event of a kernel is reserved, with p_events_mutex held ...
GetKernel(w) ==
  /\ Getting(w) /\ events # <<>> /\ ~stop /\ kind[Head(events)] = "Kernel"
  /\ Go(w, "get", "reserve")
  /\ cur' = [cur EXCEPT ![w] = Head(events)]
  /\ mutex' = w
  /\ UNCHANGED <<initVars, waiting, events, simVars, eventVars, using>>

\* Mutants: reserve() says that the run will not finish the event; the list's
\* mutex is not released.
ReserveAs(w, list, holder) ==
  /\ Go(w, "reserve", "run") /\ kmutex[cur[w]] = None
  /\ kmutex' = [kmutex EXCEPT ![cur[w]] = w]
  /\ events' = list
  /\ mutex' = holder
  /\ UNCHANGED <<initVars, waiting, simVars, kind, result, cur, using>>
ReserveSlot(w)    == ReserveAs(w, events, None)
ReserveHolding(w) == ReserveAs(w, Tail(events), w)

\* ... and leaves the list.
Reserve(w) ==
  /\ Go(w, "reserve", "run") /\ kmutex[cur[w]] = None
  /\ kmutex' = [kmutex EXCEPT ![cur[w]] = w]
  /\ events' = Tail(events)
  /\ mutex' = None
  /\ UNCHANGED <<initVars, waiting, simVars, kind, result, cur, using>>

GetOther(w) ==
  /\ Getting(w) /\ events # <<>> /\ ~stop /\ kind[Head(events)] # "Kernel"
  /\ Go(w, "get", "run")
  /\ cur' = [cur EXCEPT ![w] = Head(events)]
  /\ events' = Tail(events)
  /\ UNCHANGED <<initVars, mutex, waiting, simVars, eventVars, using>>

GetEvent(w) == GetWaits(w) \/ GetStops(w) \/ GetKernel(w) \/ Reserve(w) \/ GetOther(w)

-----------------------------------------------------------------------------
(* Executing the event.                                                    *)

RunOther(w) ==
  /\ Go(w, "run", "complete") /\ kind[cur[w]] = "Other"
  /\ UNCHANGED <<initVars, listVars, simVars, eventVars, cur, using>>

\* Reads and writes ask the device for its simulator to lock and to unlock it.
TransferLock(w) ==
  /\ Go(w, "run", "transfer") /\ kind[cur[w]] = "Transfer"
  /\ simLock[simulator] = None
  /\ simLock' = [simLock EXCEPT ![simulator] = w]
  /\ UNCHANGED <<initVars, listVars, simulator, eventVars, cur, using>>

TransferUnlock(w) ==
  /\ Go(w, "transfer", "complete")
  /\ simLock' = [simLock EXCEPT ![simulator] = None]
  /\ UNCHANGED <<initVars, listVars, simulator, eventVars, cur, using>>

\* LE1KernelEvent::run, which keeps the pointer to the simulator.
KernelLock(w) ==
  /\ Go(w, "run", "prepare") /\ kind[cur[w]] = "Kernel"
  /\ simLock[simulator] = None
  /\ simLock' = [simLock EXCEPT ![simulator] = w]
  /\ using' = [using EXCEPT ![w] = simulator]
  /\ UNCHANGED <<initVars, listVars, simulator, eventVars, cur>>

UnlockSimulator(w) == simLock' = [simLock EXCEPT ![using[w]] = None]
UnlockKernel(w)    == kmutex' = [kmutex EXCEPT ![cur[w]] = None]
Running(w) == UNCHANGED <<initVars, listVars, simulator, kind, result, cur, using>>

\* The assembly file is copied, the data appended to it and both assembled.
\* When the copy or the assembler fails the kernel's mutex stays locked.
PrepareDone(w) ==
  Go(w, "prepare", "simulate") /\ Running(w) /\ UNCHANGED <<simLock, kmutex>>

PrepareFails(w) ==
  /\ Go(w, "prepare", "failed") /\ Running(w)
  /\ UnlockSimulator(w)
  /\ UnlockKernel(w) \/ UNCHANGED kmutex

SimulateDone(w) ==
  Go(w, "simulate", "results") /\ Running(w) /\ UNCHANGED <<simLock, kmutex>>

SimulateFails(w) ==
  Go(w, "simulate", "failed") /\ Running(w) /\ UnlockSimulator(w) /\ UnlockKernel(w)

\* Mutant: the kernel's mutex is left to takeInstance().
ResultsReadHolding(w) ==
  Go(w, "results", "finished") /\ Running(w) /\ UnlockSimulator(w) /\ UNCHANGED kmutex

\* The buffers are updated from the simulator's memory.
ResultsRead(w) ==
  Go(w, "results", "finished") /\ Running(w) /\ UnlockSimulator(w) /\ UnlockKernel(w)

\* A buffer whose type is not handled ends the loop, and the run, in order.
ResultsUnhandled(w) ==
  Go(w, "results", "failed") /\ Running(w) /\ UnlockSimulator(w) /\ UnlockKernel(w)

\* A buffer without data, and a structure whose elements have one type that is
\* not handled, return with both mutexes locked.
ResultsAbandoned(w) ==
  Go(w, "results", "failed") /\ Running(w) /\ UNCHANGED <<simLock, kmutex>>

\* finished() takes the kernel's mutex and releases it.
Finished(w) ==
  /\ Go(w, "finished", "complete") /\ kmutex[cur[w]] = None
  /\ UNCHANGED <<initVars, listVars, simVars, eventVars, cur, using>>

RunKernel(w) ==
  \/ KernelLock(w) \/ PrepareDone(w) \/ PrepareFails(w) \/ SimulateDone(w) \/ SimulateFails(w)
  \/ ResultsRead(w) \/ ResultsUnhandled(w) \/ ResultsAbandoned(w) \/ Finished(w)

\* setStatus with the outcome.
Complete(w) ==
  /\ Go(w, "complete", "done")
  /\ result' = [result EXCEPT ![cur[w]] = "Complete"]
  /\ UNCHANGED <<initVars, listVars, simVars, kind, kmutex, cur, using>>

Fail(w) ==
  /\ Go(w, "failed", "done")
  /\ result' = [result EXCEPT ![cur[w]] = "Failed"]
  /\ UNCHANGED <<initVars, listVars, simVars, kind, kmutex, cur, using>>

Loop(w) ==
  /\ Go(w, "done", "get")
  /\ cur' = [cur EXCEPT ![w] = None]
  /\ using' = [using EXCEPT ![w] = None]
  /\ UNCHANGED <<initVars, listVars, simVars, eventVars>>

Work(w) ==
  \/ GetEvent(w) \/ RunOther(w) \/ TransferLock(w) \/ TransferUnlock(w) \/ RunKernel(w)
  \/ Complete(w) \/ Fail(w) \/ Loop(w)

-----------------------------------------------------------------------------
(* The destructor, at the end of the process.                              *)

StopWorkers(t) ==
  /\ initialized /\ ~stop /\ mutex = None
  /\ Go(t, "idle", "stopping")
  /\ stop' = TRUE
  /\ waiting' = {}
  /\ UNCHANGED <<initialized, gone, mutex, events, simVars, eventVars, cur, using>>

\* The worker is not joined.  What it does with a destroyed mutex or a deleted
\* simulator is not defined, and the process ends: nothing follows.
Destroy(t) ==
  /\ Go(t, "stopping", "stopped")
  /\ gone' = TRUE
  /\ UNCHANGED <<initialized, stop, listVars, simVars, eventVars, cur, using>>

\* pthread_cond_wait may return without a signal.
SpuriousWakeup(w) ==
  /\ w \in waiting /\ waiting' = waiting \ {w}
  /\ UNCHANGED <<initVars, mutex, events, simVars, eventVars, pc, cur, using>>

Next ==
  /\ ~gone
  /\ \/ \E t \in Creator : InitCall(t) \/ Initialise(t)
     \/ \E t \in Host : PushEvent(t) \/ StopWorkers(t) \/ Destroy(t)
     \/ \E w \in Worker : Work(w) \/ PushEvent(w) \/ SpuriousWakeup(w)

Spec == Init /\ [][Next]_vars

\* The scheduler runs the workers and the threads in init; a simulation ends.
Fairness ==
  /\ \A t \in Creator : WF_vars(~gone /\ Initialise(t))
  /\ \A w \in Worker : WF_vars(~gone /\ Work(w))

FairSpec == Spec /\ Fairness

-----------------------------------------------------------------------------
HostPlaces == {"idle", "init", "setup", "spawn", "spawned", "stopping", "stopped"}
\* Where a worker has taken an event off the list and not settled it.
Busy == {"run", "transfer", "prepare", "simulate", "results", "finished", "complete", "failed"}
\* Where a worker holds the simulator's mutex on purpose.
Simulating == {"transfer", "prepare", "simulate", "results"}

\* Every variable has its type.
TypeOK ==
  /\ initialized \in BOOLEAN /\ stop \in BOOLEAN /\ gone \in BOOLEAN
  /\ mutex \in Worker \union {None}
  /\ waiting \in SUBSET Worker
  /\ events \in Seq(Event)
  /\ simulator \in Creator \union {None}
  /\ simLock \in [Creator -> Worker \union {None}]
  /\ kind \in [Event -> Kinds]
  /\ result \in [Event -> {"new", "pushed", "Complete", "Failed"}]
  /\ kmutex \in [Event -> Worker \union {None}]
  /\ pc \in [Thread -> HostPlaces \union Busy \union {"none", "get", "reserve", "done"}]
  /\ cur \in [Worker -> Event \union {None}]
  /\ using \in [Worker -> Creator \union {None}]

\* Only one thread creates command queues: without that, two threads may both
\* find p_initialized unset, and the device gets two workers, a second simulator
\* and its mutex initialised again while in use.
OneCreator == \A s, t \in Creator : s = t

\* The worker exists once init has created it, and never again.
InitInv ==
  /\ \A t \in Creator : pc[t] \in {"init", "setup", "spawn", "spawned"} => ~initialized
  /\ \A t \in Host \ Creator : pc[t] \notin {"init", "setup", "spawn", "spawned"}
  /\ \A w \in Worker : pc[w] # "none" =>
       /\ simulator # None
       /\ initialized \/ \E t \in Creator : pc[t] = "spawned"
       /\ \A v \in Worker : v # w => pc[v] = "none"
  /\ initialized \/ (\E t \in Creator : pc[t] = "spawned") => \E w \in Worker : pc[w] # "none"
  /\ \A t \in Creator : pc[t] \in {"setup", "spawn", "spawned"} => simulator = t
  /\ \A t \in Creator : \A w \in Worker : simLock[t] = w => pc[w] # "none"
  /\ ~initialized => events = <<>>
  /\ \A t \in Host : pc[t] = "stopping" => stop

\* p_events_mutex is held between two steps only while a kernel is reserved.
MutexInv ==
  /\ \A w \in Worker : mutex = w <=> pc[w] = "reserve"
  /\ \A w \in waiting : pc[w] = "get" /\ events = <<>> /\ ~stop

\* The events in the list are pushed, each once, and not in the worker's hands.
EventsInv ==
  /\ \A i \in DOMAIN events : result[events[i]] = "pushed" /\ kmutex[events[i]] = None
  /\ \A i, j \in DOMAIN events : i # j => events[i] # events[j]
  /\ \A w \in Worker : pc[w] \in Busy =>
       /\ cur[w] \in Event /\ result[cur[w]] = "pushed"
       /\ \A i \in DOMAIN events : events[i] # cur[w]
  /\ \A e \in Event : result[e] = "new" => kmutex[e] = None
  /\ \A e \in Event : result[e] = "pushed" =>
       \/ \E i \in DOMAIN events : events[i] = e
       \/ \E w \in Worker : pc[w] \in Busy /\ cur[w] = e

\* What the worker holds at each place of a kernel's execution.
RunInv ==
  \A w \in Worker :
    /\ pc[w] = "none" => cur[w] = None /\ using[w] = None
    /\ pc[w] = "reserve" => events # <<>> /\ cur[w] = Head(events) /\ kind[cur[w]] = "Kernel"
                            /\ ~stop
    /\ pc[w] \in Simulating => simLock[simulator] = w
    /\ pc[w] = "run" /\ kind[cur[w]] = "Kernel" => kmutex[cur[w]] = w
    /\ pc[w] \in {"prepare", "simulate", "results"} =>
         using[w] = simulator /\ kmutex[cur[w]] = w
    /\ pc[w] = "finished" => kmutex[cur[w]] = None

IInv == TypeOK /\ InitInv /\ MutexInv /\ EventsInv /\ RunInv

\* The worker never waits for an event's own mutex, neither when it reserves the
\* event, with the list locked for everybody, nor when it asks finished(),
\* although some failures leave that mutex locked.
KernelMutexFree ==
  \A w \in Worker : pc[w] \in {"reserve", "finished"} => kmutex[cur[w]] = None

\* No event is taken up once the destructor has set p_stop, however many remain.
Takes(w) == pc[w] \notin Busy /\ pc'[w] \in Busy
StopIsFinal == [][\A w \in Worker : Takes(w) => ~stop]_vars

\* The device serves the queues as DeviceService says.
Active == IF \E w \in Worker : pc[w] \in Busy
          THEN cur[CHOOSE w \in Worker : pc[w] \in Busy] ELSE None
Service == INSTANCE DeviceService WITH
  pending <- events, active <- Active, seen <- {e \in Event : result[e] # "new"}
ImplementsService == Service!DSpec

\* The mutex of the simulator was left locked by an abandoned kernel.
Abandoned == \E w \in Worker : pc[w] \notin Simulating /\ simLock[simulator] = w

\* Under FairSpec: a pushed event is handled, unless the process ends or an
\* abandoned kernel has left the simulator locked.
EventsServed ==
  \A e \in Event : result[e] = "pushed" ~> (result[e] # "pushed" \/ stop \/ Abandoned)
=============================================================================
