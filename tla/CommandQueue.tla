---------------------------- MODULE CommandQueue ----------------------------
(***************************************************************************)
(* The command queues of the driver and the events queued in them          *)
(* (core/commandqueue.cpp, core/events.cpp, api/api_event.cpp,             *)
(* api/api_enqueue.cpp, api/api_flush.cpp), driven by the threads of the   *)
(* host program and by the one worker thread of the LE1 device             *)
(* (core/devices/LE1/LE1worker.cpp, LE1device.cpp).                        *)
(*                                                                         *)
(* A step is a run of code between two points where another thread can     *)
(* interfere.  p_event_list_mutex is explicit (lock), because the two      *)
(* loops over p_events read the status of one event after another while    *)
(* the worker completes events without taking that mutex.  One iteration   *)
(* of a loop is one step: it reads the status of one event and of its wait *)
(* list, and statuses only move forward, so the reads of an iteration      *)
(* could all have happened at one instant.  One case differs: a dummy      *)
(* event that another thread completes between the two reads of its status *)
(* in pushEventsOnDevice, for which there is a step ScanLook.              *)
(* p_state_mutex guards single reads and writes of a status and is left    *)
(* implicit.                                                               *)
(***************************************************************************)
EXTENDS Naturals, Sequences, FiniteSets

CONSTANTS
  Host,      \* threads of the host program that call the OpenCL API
  Worker,    \* the worker thread of the LE1 device
  Queue,     \* command queues, all of them on that one device
  InOrder,   \* the queues without CL_QUEUE_OUT_OF_ORDER_EXEC_MODE_ENABLE
  Event,     \* identities for the events the host creates
  Kind,      \* kinds of event the host creates
  Api,       \* bound: what the host calls besides creating events
  None,      \* no thread, no queue, no event
  MaxCalls,  \* bound: API calls per host thread
  MaxWait    \* bound: events in a wait list given by the host

Thread == Host \union {Worker}

\* Kernels may fail on the device; Copy stands for the commands that may not
\* (read, write, copy, map, native kernel).
DeviceKinds == {"Kernel", "Copy"}
DummyKinds  == {"Marker", "Barrier", "WaitForEvents", "User"}
Kinds       == DeviceKinds \union DummyKinds

ASSUME ConstantsOK ==
  /\ Worker \notin Host
  /\ None \notin Thread \union Queue \union Event
  /\ InOrder \subseteq Queue
  /\ Kind \subseteq Kinds
  /\ Api \subseteq {"Flush", "Finish", "Wait", "SetUser"}
  /\ Event \subseteq Nat
  /\ MaxCalls \in Nat /\ MaxWait \in Nat

VARIABLES
  \* events
  status,    \* p_status; "None" before the event is created
  kind,      \* type()
  home,      \* parent(): the queue it belongs to, None for a user event
  waits,     \* p_event_wait_list
  deps,      \* p_dependent_queues of a user event
  \* queues
  list,      \* p_events
  flushed,   \* p_flushed
  errcode,   \* errcode
  lock,      \* the thread that holds p_event_list_mutex
  asleep,    \* threads in pthread_cond_wait on p_event_list_cond
  \* the device
  devq,      \* p_events of the LE1 device
  \* threads: place in the code and local variables
  calls,     \* API calls each host thread has made
  pc,        \* where the thread is
  after,     \* where pushEventsOnDevice or flush returns to
  at,        \* the queue whose member function it runs
  ev,        \* the event it enqueues, executes or completes
  dummy,     \* the dummy event pushEventsOnDevice looks at or completes
  pos,       \* the iterator of a loop over p_events
  first,     \* the flag of that name in pushEventsOnDevice
  todo,      \* clWaitForEvents: events not yet checked
  goal,      \* clWaitForEvents: its event_list
  served,    \* flushQueues: queues already visited
  \* history, read by the properties only
  issued,    \* events that were ever appended to a list
  pred,      \* for each, the events appended to the same queue before it
  owed       \* the list of the queue when the current flush or finish began

eventVars == <<status, kind, home, waits, deps>>
queueVars == <<list, flushed, errcode, lock, asleep>>
callVars  == <<after, at, ev>>
loopVars  == <<dummy, pos, first>>
waitVars  == <<todo, goal, served>>
localVars == <<callVars, loopVars, waitVars>>
ghostVars == <<issued, pred, owed>>
vars == <<eventVars, queueVars, devq, calls, pc, localVars, ghostVars>>

Statuses == {"None", "Queued", "Submitted", "Complete", "Failed"}
Results  == {"SUCCESS", "FAILED"}
Places   == {"idle", "append", "push", "scan", "settle", "clean", "erase", "cleaned",
             "flush", "flushWait", "finishOK", "finishFailed", "finishTest",
             "finishWait", "finishReturn", "wait", "setUser", "flushQueues", "run"}

Elems(s) == {s[i] : i \in DOMAIN s}

RemoveAt(s, i) == SubSeq(s, 1, i - 1) \o SubSeq(s, i + 1, Len(s))

Finished(e) == status[e] \in {"Complete", "Failed"}

IsDummy(e) == kind[e] \in DummyKinds

WaitListDone(e) == \A w \in waits[e] : status[w] = "Complete"

-----------------------------------------------------------------------------
Init ==
  /\ status  = [e \in Event |-> "None"]
  /\ kind    = [e \in Event |-> "Copy"]
  /\ home    = [e \in Event |-> None]
  /\ waits   = [e \in Event |-> {}]
  /\ deps    = [e \in Event |-> {}]
  /\ list    = [q \in Queue |-> <<>>]
  /\ flushed = [q \in Queue |-> TRUE]
  /\ errcode = [q \in Queue |-> "SUCCESS"]
  /\ lock    = [q \in Queue |-> None]
  /\ asleep  = [q \in Queue |-> {}]
  /\ devq    = <<>>
  /\ calls   = [t \in Host |-> 0]
  /\ pc      = [t \in Thread |-> "idle"]
  /\ after   = [t \in Thread |-> "idle"]
  /\ at      = [t \in Thread |-> None]
  /\ ev      = [t \in Thread |-> None]
  /\ dummy   = [t \in Thread |-> None]
  /\ pos     = [t \in Thread |-> 1]
  /\ first   = [t \in Thread |-> TRUE]
  /\ todo    = [t \in Thread |-> {}]
  /\ goal    = [t \in Thread |-> {}]
  /\ served  = [t \in Thread |-> {}]
  /\ issued  = {}
  /\ pred    = [e \in Event |-> {}]
  /\ owed    = [t \in Host |-> {}]

\* A host thread begins an API call.
Begin(t) ==
  /\ pc[t] = "idle" /\ calls[t] < MaxCalls
  /\ calls' = [calls EXCEPT ![t] = @ + 1]

Go(t, place) == pc' = [pc EXCEPT ![t] = place]

\* The thread leaves the code modelled here and its local variables are gone.
Return(t) ==
  /\ Go(t, "idle")
  /\ after'  = [after EXCEPT ![t] = "idle"]
  /\ at'     = [at EXCEPT ![t] = None]
  /\ ev'     = [ev EXCEPT ![t] = None]
  /\ dummy'  = [dummy EXCEPT ![t] = None]
  /\ pos'    = [pos EXCEPT ![t] = 1]
  /\ first'  = [first EXCEPT ![t] = TRUE]
  /\ todo'   = [todo EXCEPT ![t] = {}]
  /\ goal'   = [goal EXCEPT ![t] = {}]
  /\ served' = [served EXCEPT ![t] = {}]

\* pushEventsOnDevice or flush returns to its caller.
Resume(t) ==
  \/ after[t] = "idle" /\ Return(t)
  \/ /\ after[t] # "idle" /\ Go(t, after[t])
     /\ dummy' = [dummy EXCEPT ![t] = None]
     /\ pos' = [pos EXCEPT ![t] = 1]
     /\ first' = [first EXCEPT ![t] = TRUE]
     /\ UNCHANGED <<callVars, waitVars>>

\* Identities are handed out in order, as a bound on the state space.
Fresh(e) == status[e] = "None" /\ \A d \in Event : status[d] = "None" => e <= d

\* Thread t is still inside the call that enqueues e.
Enqueuing(t, e) ==
  /\ ev[t] = e /\ after[t] # "flushQueues"
  /\ pc[t] \in {"append", "push", "scan", "settle"}

\* The events the host program can name: user events, and commands whose
\* enqueue call gave it a cl_event.
Handles == {e \in Event :
  \/ status[e] # "None" /\ kind[e] = "User"
  \/ /\ e \in issued /\ kind[e] \notin {"Barrier", "WaitForEvents"}
     /\ \A t \in Host : ~Enqueuing(t, e)}

-----------------------------------------------------------------------------
(* Creating and queueing events.                                           *)

CreateUserEvent(t) ==
  /\ "User" \in Kind /\ Begin(t)
  /\ \E e \in Event :
       /\ Fresh(e)
       /\ status' = [status EXCEPT ![e] = "Submitted"]
       /\ kind' = [kind EXCEPT ![e] = "User"]
  /\ UNCHANGED <<home, waits, deps, queueVars, devq, pc, localVars, ghostVars>>

\* The wait list a call may pass for each kind.  A marker waits for a snapshot
\* of the queue (events()), which must not be empty: malloc(0) is not null, and
\* the constructor rejects a list without events.
WaitListFor(q, k, W) ==
  CASE k = "Marker"        -> lock[q] = None /\ W = Elems(list[q]) /\ W # {}
    [] k = "Barrier"       -> W = {}
    [] k = "WaitForEvents" -> W \subseteq Handles /\ W # {} /\ Cardinality(W) <= MaxWait
    [] OTHER               -> W \subseteq Handles /\ Cardinality(W) <= MaxWait

\* The constructor of the event subscribes the queue to the user events of the
\* list.  It gives up at a failed event, and the deletion of what it leaves uses
\* a null list: the call is left out (module Objects has it).
Construct(e, q, k, W) ==
  /\ Fresh(e)
  /\ WaitListFor(q, k, W)
  /\ \A w \in W : status[w] # "Failed"
  /\ status' = [status EXCEPT ![e] = "Queued"]
  /\ kind' = [kind EXCEPT ![e] = k]
  /\ home' = [home EXCEPT ![e] = q]
  /\ waits' = [waits EXCEPT ![e] = W]
  /\ deps' = [u \in Event |-> IF u \in W /\ kind[u] = "User"
                              THEN deps[u] \union {q} ELSE deps[u]]

\* A clEnqueue call up to queueEvent; only reads, writes and maps may block.
Enqueue(t) ==
  /\ Begin(t)
  /\ \E e \in Event, q \in Queue, k \in Kind \ {"User"}, W \in SUBSET Event,
        blocking \in {b \in BOOLEAN : b => "Wait" \in Api} :
       /\ blocking => k = "Copy"
       /\ Construct(e, q, k, W)
       /\ at' = [at EXCEPT ![t] = q]
       /\ ev' = [ev EXCEPT ![t] = e]
       /\ after' = [after EXCEPT ![t] = IF blocking THEN "wait" ELSE "idle"]
       /\ todo' = [todo EXCEPT ![t] = IF blocking THEN {e} ELSE {}]
       /\ goal' = [goal EXCEPT ![t] = IF blocking THEN {e} ELSE {}]
  /\ Go(t, "append")
  /\ UNCHANGED <<queueVars, devq, loopVars, served, ghostVars>>

\* initEventDeviceData fails: the event is deleted and never queued.  The
\* subscriptions its constructor made stay.
InitFails(t) ==
  /\ pc[t] = "append" /\ kind[ev[t]] = "Kernel"
  /\ status' = [status EXCEPT ![ev[t]] = "None"]
  /\ waits' = [waits EXCEPT ![ev[t]] = {}]
  /\ home' = [home EXCEPT ![ev[t]] = None]
  /\ Return(t)
  /\ UNCHANGED <<kind, deps, queueVars, devq, calls, ghostVars>>

\* queueEvent: push_back and p_flushed = false under the mutex.
QueueEvent(t) ==
  /\ pc[t] = "append" /\ lock[at[t]] = None
  /\ list' = [list EXCEPT ![at[t]] = Append(@, ev[t])]
  /\ flushed' = [flushed EXCEPT ![at[t]] = FALSE]
  /\ Go(t, "push")
  /\ issued' = issued \union {ev[t]}
  /\ pred' = [pred EXCEPT ![ev[t]] = {d \in issued : home[d] = at[t]}]
  /\ UNCHANGED <<eventVars, errcode, lock, asleep, devq, calls, localVars, owed>>

-----------------------------------------------------------------------------
(* pushEventsOnDevice.                                                     *)

\* Mutant: p_flushed is not set when the walk begins.
PushLockKeeping(t) ==
  /\ pc[t] = "push" /\ lock[at[t]] = None
  /\ lock' = [lock EXCEPT ![at[t]] = t]
  /\ Go(t, "scan")
  /\ UNCHANGED <<eventVars, list, flushed, errcode, asleep, devq, calls, localVars, ghostVars>>

PushLock(t) ==
  /\ pc[t] = "push" /\ lock[at[t]] = None
  /\ lock' = [lock EXCEPT ![at[t]] = t]
  /\ flushed' = [flushed EXCEPT ![at[t]] = TRUE]
  /\ Go(t, "scan")
  /\ UNCHANGED <<eventVars, list, errcode, asleep, devq, calls, localVars, ghostVars>>

\* Mutant: the in-order test is forgotten.
BehindBarrierOnly(t) == ~first[t] /\ kind[list[at[t]][pos[t]]] = "Barrier"

\* Mutant: the barrier test is forgotten.
BehindInOrderOnly(t) == ~first[t] /\ at[t] \in InOrder

\* The event at the iterator, and the tests of the loop in their order.
AtEnd(t)    == pos[t] > Len(list[at[t]])
Current(t)  == list[at[t]][pos[t]]
Done(t)     == status[Current(t)] = "Complete"
Behind(t)   == ~first[t] /\ (at[t] \in InOrder \/ kind[Current(t)] = "Barrier")
Pushable(t) == ~AtEnd(t) /\ ~Done(t) /\ ~Behind(t) /\ status[Current(t)] = "Queued"

Scanning(t) == pc[t] = "scan" /\ UNCHANGED <<calls, ghostVars>>

Advance(t) == pos' = [pos EXCEPT ![t] = @ + 1]

\* The iteration has found its event neither complete nor held back, and has
\* not read the status again.
Looked(t) == dummy[t] # None
LookAway(t) == dummy' = [dummy EXCEPT ![t] = None]

\* After the loop: wake the sleepers if everything was pushed, unlock, return.
PushReturn(t, all) ==
  /\ flushed' = [flushed EXCEPT ![at[t]] = all]
  /\ asleep' = [asleep EXCEPT ![at[t]] = IF all THEN {} ELSE @]
  /\ lock' = [lock EXCEPT ![at[t]] = None]
  /\ Resume(t)
  /\ UNCHANGED <<eventVars, list, errcode, devq>>

ScanEnd(t) == Scanning(t) /\ AtEnd(t) /\ PushReturn(t, flushed[at[t]])

\* Another thread may complete this event before the next test.
ScanLook(t) ==
  /\ Scanning(t) /\ Pushable(t) /\ IsDummy(Current(t)) /\ ~Looked(t)
  /\ dummy' = [dummy EXCEPT ![t] = Current(t)]
  /\ UNCHANGED <<eventVars, queueVars, devq, pc, callVars, pos, first, waitVars>>

ScanDone(t) ==
  /\ Scanning(t) /\ ~AtEnd(t) /\ Done(t) /\ ~Looked(t)
  /\ Advance(t)
  /\ UNCHANGED <<eventVars, queueVars, devq, pc, callVars, dummy, first, waitVars>>

\* Mutant: p_flushed stays true although an event is left behind.
ScanBehindFlushed(t) ==
  Scanning(t) /\ ~AtEnd(t) /\ ~Done(t) /\ Behind(t) /\ PushReturn(t, flushed[at[t]])

\* In order: only the first unfinished event.  A barrier: only when it is first.
ScanBehind(t) == Scanning(t) /\ ~AtEnd(t) /\ ~Done(t) /\ Behind(t) /\ PushReturn(t, FALSE)

\* Submitted, or failed and not cleaned yet, or completed since the first look.
ScanBusy(t) ==
  /\ Scanning(t) /\ ~AtEnd(t) /\ ~Behind(t)
  /\ Done(t) => Looked(t)
  /\ status[Current(t)] # "Queued"
  /\ Advance(t) /\ LookAway(t)
  /\ first' = [first EXCEPT ![t] = FALSE]
  /\ UNCHANGED <<eventVars, queueVars, devq, pc, callVars, waitVars>>

\* An event with an unfinished wait list is skipped ...
ScanSkip(t) ==
  /\ Scanning(t) /\ Pushable(t) /\ ~WaitListDone(Current(t))
  /\ kind[Current(t)] # "WaitForEvents"
  /\ Advance(t) /\ LookAway(t)
  /\ first' = [first EXCEPT ![t] = FALSE]
  /\ flushed' = [flushed EXCEPT ![at[t]] = FALSE]
  /\ UNCHANGED <<eventVars, list, errcode, lock, asleep, devq, pc, callVars, waitVars>>

\* Mutant: an unfinished WaitForEvents is skipped like any other event.
ScanPastWaitForEvents(t) ==
  /\ Scanning(t) /\ Pushable(t) /\ ~WaitListDone(Current(t))
  /\ kind[Current(t)] = "WaitForEvents"
  /\ Advance(t) /\ LookAway(t)
  /\ first' = [first EXCEPT ![t] = FALSE]
  /\ flushed' = [flushed EXCEPT ![at[t]] = FALSE]
  /\ UNCHANGED <<eventVars, list, errcode, lock, asleep, devq, pc, callVars, waitVars>>

\* ... and a WaitForEvents event ends the loop.
ScanWaitForEvents(t) ==
  /\ Scanning(t) /\ Pushable(t) /\ ~WaitListDone(Current(t))
  /\ kind[Current(t)] = "WaitForEvents"
  /\ PushReturn(t, FALSE)

\* Mutants: the wait list is not looked at; the status stays Queued; the status
\* becomes Running.
ScanSubmitAs(t, ready, new) ==
  /\ Scanning(t) /\ Pushable(t) /\ ready /\ ~IsDummy(Current(t))
  /\ status' = [status EXCEPT ![Current(t)] = new]
  /\ devq' = Append(devq, Current(t))
  /\ first' = [first EXCEPT ![t] = FALSE]
  /\ UNCHANGED <<kind, home, waits, deps, queueVars, pc, callVars, dummy, pos, waitVars>>
ScanSubmitEarly(t)   == ScanSubmitAs(t, TRUE, "Submitted")
ScanSubmitQueued(t)  == ScanSubmitAs(t, WaitListDone(Current(t)), "Queued")
ScanSubmitRunning(t) == ScanSubmitAs(t, WaitListDone(Current(t)), "Running")

\* setStatus(Submitted) and pushEvent.  The iterator stays on the event.
ScanSubmit(t) ==
  /\ Scanning(t) /\ Pushable(t) /\ WaitListDone(Current(t)) /\ ~IsDummy(Current(t))
  /\ status' = [status EXCEPT ![Current(t)] = "Submitted"]
  /\ devq' = Append(devq, Current(t))
  /\ first' = [first EXCEPT ![t] = FALSE]
  /\ UNCHANGED <<kind, home, waits, deps, queueVars, pc, callVars, dummy, pos, waitVars>>

\* A dummy event: unlock, and complete it outside of the mutex.
ScanDummy(t) ==
  /\ Scanning(t) /\ Pushable(t) /\ WaitListDone(Current(t)) /\ IsDummy(Current(t))
  /\ dummy' = [dummy EXCEPT ![t] = Current(t)]
  /\ lock' = [lock EXCEPT ![at[t]] = None]
  /\ Go(t, "settle")
  /\ pos' = [pos EXCEPT ![t] = 1]
  /\ first' = [first EXCEPT ![t] = TRUE]
  /\ UNCHANGED <<eventVars, list, flushed, errcode, asleep, devq, callVars, waitVars>>

\* Mutant: the completion of a dummy event pushes nothing.
SettleAlone(t) ==
  /\ pc[t] = "settle"
  /\ status' = [status EXCEPT ![dummy[t]] = "Complete"]
  /\ Resume(t)
  /\ UNCHANGED <<kind, home, waits, deps, queueVars, devq, calls, ghostVars>>

\* setStatus(Complete) of the dummy event, which calls pushEventsOnDevice again
\* as its last act.
Settle(t) ==
  /\ pc[t] = "settle"
  /\ status' = [status EXCEPT ![dummy[t]] = "Complete"]
  /\ dummy' = [dummy EXCEPT ![t] = None]
  /\ Go(t, "push")
  /\ UNCHANGED <<kind, home, waits, deps, queueVars, devq, calls, callVars, pos, first,
                 waitVars, ghostVars>>

Push(t) ==
  \/ PushLock(t) \/ ScanEnd(t) \/ ScanLook(t) \/ ScanDone(t) \/ ScanBehind(t) \/ ScanBusy(t)
  \/ ScanSkip(t) \/ ScanWaitForEvents(t) \/ ScanSubmit(t) \/ ScanDummy(t) \/ Settle(t)

-----------------------------------------------------------------------------
(* cleanEvents.                                                            *)

\* Mutant: cleanEvents does not take the mutex.
CleanUnlocked(t) ==
  /\ pc[t] = "clean" /\ lock[at[t]] = None
  /\ Go(t, "erase")
  /\ UNCHANGED <<eventVars, queueVars, devq, calls, localVars, ghostVars>>

CleanLock(t) ==
  /\ pc[t] = "clean" /\ lock[at[t]] = None
  /\ lock' = [lock EXCEPT ![at[t]] = t]
  /\ Go(t, "erase")
  /\ UNCHANGED <<eventVars, list, flushed, errcode, asleep, devq, calls, localVars, ghostVars>>

Erasing(t) ==
  /\ pc[t] = "erase"
  /\ UNCHANGED <<eventVars, flushed, devq, calls, callVars, dummy, first, waitVars, ghostVars>>

\* Mutant: events are erased once they are submitted.
EraseSubmitted(t) ==
  /\ Erasing(t) /\ ~AtEnd(t) /\ status[Current(t)] # "Queued"
  /\ errcode' = [errcode EXCEPT ![at[t]] =
                   IF status[Current(t)] = "Failed" THEN "FAILED" ELSE "SUCCESS"]
  /\ list' = [list EXCEPT ![at[t]] = RemoveAt(@, pos[t])]
  /\ UNCHANGED <<lock, asleep, pc, pos>>

EraseFinished(t) ==
  /\ Erasing(t) /\ ~AtEnd(t) /\ Finished(Current(t))
  /\ errcode' = [errcode EXCEPT ![at[t]] =
                   IF status[Current(t)] = "Failed" THEN "FAILED" ELSE "SUCCESS"]
  /\ list' = [list EXCEPT ![at[t]] = RemoveAt(@, pos[t])]
  /\ UNCHANGED <<lock, asleep, pc, pos>>

EraseSkip(t) ==
  /\ Erasing(t) /\ ~AtEnd(t) /\ ~Finished(Current(t))
  /\ Advance(t)
  /\ UNCHANGED <<list, errcode, lock, asleep, pc>>

\* Mutant: nobody is woken.
EraseEndSilent(t) ==
  /\ Erasing(t) /\ AtEnd(t)
  /\ lock' = [lock EXCEPT ![at[t]] = None]
  /\ Go(t, "cleaned")
  /\ pos' = [pos EXCEPT ![t] = 1]
  /\ UNCHANGED <<list, errcode, asleep>>

EraseEnd(t) ==
  /\ Erasing(t) /\ AtEnd(t)
  /\ asleep' = [asleep EXCEPT ![at[t]] = IF list[at[t]] = <<>> THEN {} ELSE @]
  /\ lock' = [lock EXCEPT ![at[t]] = None]
  /\ Go(t, "cleaned")
  /\ pos' = [pos EXCEPT ![t] = 1]
  /\ UNCHANGED <<list, errcode>>

\* cleanEvents reads errcode for its caller after it has unlocked: finish keeps
\* the value, the worker drops it.
Cleaned(t) ==
  /\ pc[t] = "cleaned"
  /\ \/ t = Worker /\ Return(t)
     \/ /\ t # Worker
        /\ Go(t, IF errcode[at[t]] = "SUCCESS" THEN "finishOK" ELSE "finishFailed")
        /\ UNCHANGED localVars
  /\ UNCHANGED <<eventVars, queueVars, devq, calls, ghostVars>>

Clean(t) ==
  CleanLock(t) \/ EraseFinished(t) \/ EraseSkip(t) \/ EraseEnd(t) \/ Cleaned(t)

-----------------------------------------------------------------------------
(* flush and finish.                                                       *)

FlushCall(t) ==
  /\ "Flush" \in Api /\ Begin(t)
  /\ \E q \in Queue :
       /\ at' = [at EXCEPT ![t] = q]
       /\ owed' = [owed EXCEPT ![t] = Elems(list[q])]
  /\ Go(t, "flush")
  /\ UNCHANGED <<eventVars, queueVars, devq, after, ev, loopVars, waitVars, issued, pred>>

FlushReturn(t) == Resume(t) /\ owed' = [owed EXCEPT ![t] = {}]

\* flush looks at errcode before it takes the mutex.
FlushTest(t) ==
  /\ pc[t] = "flush"
  /\ \/ errcode[at[t]] = "SUCCESS" /\ Go(t, "flushWait") /\ UNCHANGED <<localVars, owed>>
     \/ errcode[at[t]] # "SUCCESS" /\ FlushReturn(t)
  /\ UNCHANGED <<eventVars, queueVars, devq, calls, issued, pred>>

\* while (!p_flushed) pthread_cond_wait(...)
FlushWait(t) ==
  /\ pc[t] = "flushWait" /\ t \notin asleep[at[t]] /\ lock[at[t]] = None
  /\ \/ flushed[at[t]] /\ FlushReturn(t) /\ UNCHANGED asleep
     \/ /\ ~flushed[at[t]]
        /\ asleep' = [asleep EXCEPT ![at[t]] = @ \union {t}]
        /\ UNCHANGED <<pc, localVars, owed>>
  /\ UNCHANGED <<eventVars, list, flushed, errcode, lock, devq, calls, issued, pred>>

FinishCall(t) ==
  /\ "Finish" \in Api /\ Begin(t)
  /\ \E q \in Queue :
       /\ at' = [at EXCEPT ![t] = q]
       /\ owed' = [owed EXCEPT ![t] = Elems(list[q])]
  /\ Go(t, "clean")
  /\ UNCHANGED <<eventVars, queueVars, devq, after, ev, loopVars, waitVars, issued, pred>>

\* errcode = cleanEvents(), stored without the mutex.
FinishStore(t) ==
  /\ pc[t] \in {"finishOK", "finishFailed"}
  /\ errcode' = [errcode EXCEPT ![at[t]] = IF pc[t] = "finishOK" THEN "SUCCESS" ELSE "FAILED"]
  /\ Go(t, "finishTest")
  /\ UNCHANGED <<eventVars, list, flushed, lock, asleep, devq, calls, localVars, ghostVars>>

FinishReturn(t) == Return(t) /\ owed' = [owed EXCEPT ![t] = {}]

\* A failure was cleaned: wake everybody, pretend the queue is flushed ...
FinishFails(t) ==
  /\ pc[t] = "finishTest" /\ lock[at[t]] = None /\ errcode[at[t]] # "SUCCESS"
  /\ asleep' = [asleep EXCEPT ![at[t]] = {}]
  /\ flushed' = [flushed EXCEPT ![at[t]] = TRUE]
  /\ Go(t, "finishReturn")
  /\ UNCHANGED <<eventVars, list, errcode, lock, devq, calls, localVars, ghostVars>>

\* ... and return what errcode is after the mutex was released.
FinishCode(t) ==
  /\ pc[t] = "finishReturn" /\ FinishReturn(t)
  /\ UNCHANGED <<eventVars, queueVars, devq, calls, issued, pred>>

\* Mutant: finish waits for p_flushed instead of the empty list.
FinishWaitFlushed(t) ==
  /\ \/ pc[t] = "finishTest" /\ errcode[at[t]] = "SUCCESS"
     \/ pc[t] = "finishWait" /\ t \notin asleep[at[t]]
  /\ lock[at[t]] = None
  /\ \/ flushed[at[t]] /\ FinishReturn(t) /\ UNCHANGED asleep
     \/ /\ ~flushed[at[t]] /\ Go(t, "finishWait")
        /\ asleep' = [asleep EXCEPT ![at[t]] = @ \union {t}]
        /\ UNCHANGED <<localVars, owed>>
  /\ UNCHANGED <<eventVars, list, flushed, errcode, lock, devq, calls, issued, pred>>

\* while (p_events.size() != 0) pthread_cond_wait(...)
FinishWait(t) ==
  /\ \/ pc[t] = "finishTest" /\ errcode[at[t]] = "SUCCESS"
     \/ pc[t] = "finishWait" /\ t \notin asleep[at[t]]
  /\ lock[at[t]] = None
  /\ \/ list[at[t]] = <<>> /\ FinishReturn(t) /\ UNCHANGED asleep
     \/ /\ list[at[t]] # <<>> /\ Go(t, "finishWait")
        /\ asleep' = [asleep EXCEPT ![at[t]] = @ \union {t}]
        /\ UNCHANGED <<localVars, owed>>
  /\ UNCHANGED <<eventVars, list, flushed, errcode, lock, devq, calls, issued, pred>>

\* pthread_cond_wait may return without a signal.
SpuriousWakeup(t) ==
  /\ \E q \in Queue : t \in asleep[q] /\ asleep' = [asleep EXCEPT ![q] = @ \ {t}]
  /\ UNCHANGED <<eventVars, list, flushed, errcode, lock, devq, calls, pc, localVars, ghostVars>>

-----------------------------------------------------------------------------
(* clWaitForEvents.                                                        *)

\* A user event that is not complete has no parent queue to flush: the call
\* dereferences a null pointer, so the host does not make it.
WaitCall(t) ==
  /\ "Wait" \in Api /\ Begin(t)
  /\ \E W \in SUBSET Handles :
       /\ W # {} /\ Cardinality(W) <= MaxWait
       /\ \A e \in W : kind[e] # "User"
       /\ todo' = [todo EXCEPT ![t] = W]
       /\ goal' = [goal EXCEPT ![t] = W]
  /\ after' = [after EXCEPT ![t] = "wait"]
  /\ Go(t, "wait")
  /\ UNCHANGED <<eventVars, queueVars, devq, at, ev, loopVars, served, ghostVars>>

\* The checks of one event of the list: a complete one is passed over, a failed
\* one ends the call, and the queue of another is flushed.
WaitCheck(t, e) ==
  /\ pc[t] = "wait" /\ e \in todo[t]
  /\ \/ status[e] = "Failed" /\ Return(t) /\ UNCHANGED owed
     \/ /\ status[e] # "Failed"
        /\ todo' = [todo EXCEPT ![t] = @ \ {e}]
        /\ \/ Finished(e) /\ UNCHANGED <<pc, at, owed>>
           \/ /\ ~Finished(e) /\ Go(t, "flush")
              /\ at' = [at EXCEPT ![t] = home[e]]
              /\ owed' = [owed EXCEPT ![t] = Elems(list[home[e]])]
        /\ UNCHANGED <<after, ev, loopVars, goal, served>>
  /\ UNCHANGED <<eventVars, queueVars, devq, calls, issued, pred>>

\* The busy loop that ends when every event of the list is Complete.
WaitSpin(t) ==
  /\ pc[t] = "wait" /\ todo[t] = {}
  /\ \A e \in goal[t] : status[e] = "Complete"
  /\ Return(t)
  /\ UNCHANGED <<eventVars, queueVars, devq, calls, ghostVars>>

-----------------------------------------------------------------------------
(* clSetUserEventStatus: the test and the write are two steps.             *)

SetUserCall(t) ==
  /\ "SetUser" \in Api /\ Begin(t)
  /\ \E u \in Event :
       /\ kind[u] = "User" /\ status[u] = "Submitted"
       /\ ev' = [ev EXCEPT ![t] = u]
  /\ after' = [after EXCEPT ![t] = "flushQueues"]
  /\ Go(t, "setUser")
  /\ UNCHANGED <<eventVars, queueVars, devq, at, loopVars, waitVars, ghostVars>>

SetUser(t) ==
  /\ pc[t] = "setUser"
  /\ status' = [status EXCEPT ![ev[t]] = "Complete"]
  /\ Go(t, "flushQueues")
  /\ UNCHANGED <<kind, home, waits, deps, queueVars, devq, calls, localVars, ghostVars>>

FlushQueues(t) ==
  /\ pc[t] = "flushQueues"
  /\ \/ deps[ev[t]] \subseteq served[t] /\ Return(t)
     \/ /\ \E q \in deps[ev[t]] \ served[t] :
             /\ at' = [at EXCEPT ![t] = q]
             /\ served' = [served EXCEPT ![t] = @ \union {q}]
        /\ Go(t, "push")
        /\ UNCHANGED <<after, ev, loopVars, todo, goal>>
  /\ UNCHANGED <<eventVars, queueVars, devq, calls, ghostVars>>

-----------------------------------------------------------------------------
(* The worker.                                                             *)

\* Mutant: the newest command is taken.
WorkerGetNewest ==
  /\ pc[Worker] = "idle" /\ devq # <<>>
  /\ ev' = [ev EXCEPT ![Worker] = devq[Len(devq)]]
  /\ at' = [at EXCEPT ![Worker] = home[devq[Len(devq)]]]
  /\ after' = [after EXCEPT ![Worker] = "clean"]
  /\ devq' = RemoveAt(devq, Len(devq))
  /\ Go(Worker, "run")
  /\ UNCHANGED <<eventVars, queueVars, calls, loopVars, waitVars, ghostVars>>

WorkerGet ==
  /\ pc[Worker] = "idle" /\ devq # <<>>
  /\ ev' = [ev EXCEPT ![Worker] = Head(devq)]
  /\ at' = [at EXCEPT ![Worker] = home[Head(devq)]]
  /\ after' = [after EXCEPT ![Worker] = "clean"]
  /\ devq' = Tail(devq)
  /\ Go(Worker, "run")
  /\ UNCHANGED <<eventVars, queueVars, calls, loopVars, waitVars, ghostVars>>

\* Mutant: the queue is not told that an event is complete.
WorkerCompletesAlone ==
  /\ pc[Worker] = "run"
  /\ status' = [status EXCEPT ![ev[Worker]] = "Complete"]
  /\ Go(Worker, "clean")
  /\ UNCHANGED <<kind, home, waits, deps, queueVars, devq, calls, localVars, ghostVars>>

\* setStatus(Complete) calls pushEventsOnDevice, then the queue is cleaned.
WorkerCompletes ==
  /\ pc[Worker] = "run"
  /\ status' = [status EXCEPT ![ev[Worker]] = "Complete"]
  /\ Go(Worker, "push")
  /\ UNCHANGED <<kind, home, waits, deps, queueVars, devq, calls, localVars, ghostVars>>

\* setStatus with an error calls nothing; the queue is cleaned.
WorkerFails ==
  /\ pc[Worker] = "run" /\ kind[ev[Worker]] = "Kernel"
  /\ status' = [status EXCEPT ![ev[Worker]] = "Failed"]
  /\ Go(Worker, "clean")
  /\ UNCHANGED <<kind, home, waits, deps, queueVars, devq, calls, localVars, ghostVars>>

-----------------------------------------------------------------------------
\* What the host program may start, and what its threads and the worker do next.
Start(t) ==
  \/ CreateUserEvent(t) \/ Enqueue(t) \/ FlushCall(t) \/ FinishCall(t) \/ WaitCall(t)
  \/ SetUserCall(t)

Continue(t) ==
  \/ InitFails(t) \/ QueueEvent(t) \/ Push(t) \/ Clean(t)
  \/ FlushTest(t) \/ FlushWait(t) \/ FinishStore(t) \/ FinishFails(t) \/ FinishCode(t)
  \/ FinishWait(t)
  \/ \E e \in Event : WaitCheck(t, e)
  \/ WaitSpin(t) \/ SetUser(t) \/ FlushQueues(t)

Work == WorkerGet \/ WorkerCompletes \/ WorkerFails \/ Push(Worker) \/ Clean(Worker)

Next ==
  \/ \E t \in Host : Start(t) \/ Continue(t) \/ SpuriousWakeup(t)
  \/ Work

Spec == Init /\ [][Next]_vars

\* The scheduler runs every thread that can run, and a free mutex is obtained:
\* there are finitely many calls, so a mutex is not contended for ever.
Fairness == WF_vars(Work) /\ \A t \in Host : WF_vars(Continue(t))

FairSpec == Spec /\ Fairness

-----------------------------------------------------------------------------
\* The types of the variables: statuses, queues and threads of the code.
EventTypes ==
  /\ status \in [Event -> Statuses]
  /\ kind \in [Event -> Kinds]
  /\ home \in [Event -> Queue \union {None}]
  /\ waits \in [Event -> SUBSET Event]
  /\ deps \in [Event -> SUBSET Queue]

QueueTypes ==
  /\ list \in [Queue -> Seq(Event)]
  /\ flushed \in [Queue -> BOOLEAN]
  /\ errcode \in [Queue -> Results]
  /\ lock \in [Queue -> Thread \union {None}]
  /\ asleep \in [Queue -> SUBSET Host]
  /\ devq \in Seq(Event)

LocalTypes ==
  /\ pc \in [Thread -> Places]
  /\ after \in [Thread -> Places]
  /\ at \in [Thread -> Queue \union {None}]
  /\ ev \in [Thread -> Event \union {None}]
  /\ dummy \in [Thread -> Event \union {None}]
  /\ pos \in [Thread -> Nat \ {0}]
  /\ first \in [Thread -> BOOLEAN]
  /\ todo \in [Thread -> SUBSET Event]
  /\ goal \in [Thread -> SUBSET Event]
  /\ served \in [Thread -> SUBSET Queue]

GhostTypes ==
  /\ calls \in [Host -> Nat]
  /\ issued \in SUBSET Event
  /\ pred \in [Event -> SUBSET Event]
  /\ owed \in [Host -> SUBSET Event]

\* Every variable keeps its type: the statuses, the queues and the places of the
\* threads are those of the code.
TypeOK == EventTypes /\ QueueTypes /\ LocalTypes /\ GhostTypes

-----------------------------------------------------------------------------
(* Safety.                                                                 *)

\* The device, or the queue for a dummy event, has taken the event up.
Started(e) == e \in issued /\ status[e] # "Queued"

\* In a queue without out-of-order execution no event starts before every
\* event queued before it is over.
InOrderExecution ==
  \A e \in Event : Started(e) /\ home[e] \in InOrder => \A p \in pred[e] : Finished(p)

\* A barrier waits for everything queued before it, and everything queued after
\* it waits for the barrier; nothing queued after a WaitForEvents starts before
\* the events that one waits for are complete.
BarriersHold ==
  \A e \in Event : Started(e) =>
    /\ kind[e] = "Barrier" => \A p \in pred[e] : Finished(p)
    /\ \A p \in pred[e] :
         kind[p] \in {"Barrier", "WaitForEvents"} => status[p] = "Complete" /\ WaitListDone(p)

\* No event starts before the events of its wait list are complete.
WaitListsHold == \A e \in Event : Started(e) => WaitListDone(e)

\* A submitted command is in the device's list exactly once or in the worker's
\* hands, and nothing else is: no command is executed twice or lost.
OnDeviceOnce ==
  /\ \A i, j \in DOMAIN devq : i # j => devq[i] # devq[j]
  /\ pc[Worker] = "run" => ev[Worker] \notin Elems(devq)
  /\ \A e \in Event : (kind[e] # "User" /\ status[e] = "Submitted") <=>
       (e \in Elems(devq) \/ (pc[Worker] = "run" /\ ev[Worker] = e))

\* An event leaves the queue's list only when it is over.
NoneDropped == \A e \in issued : Finished(e) \/ e \in Elems(list[home[e]])

\* Nothing has failed so far.
NoFailure == \A e \in Event : status[e] # "Failed"

\* When flush returns (to clFlush or to clWaitForEvents) and nothing has failed,
\* every command that was in the queue when it was called has been pushed on the
\* device.
FlushReturns(t) ==
  pc[t] \in {"flush", "flushWait"} /\ pc'[t] \notin {"flush", "flushWait"}
FlushPushes ==
  [][\A t \in Host : FlushReturns(t) /\ NoFailure =>
       \A e \in owed[t] : IsDummy(e) \/ status[e] # "Queued"]_vars

\* When finish returns because it found the list empty, everything that was in
\* the queue when it was called is over, and was not just taken out of the list.
FinishReturns(t) == pc[t] \in {"finishTest", "finishWait", "finishReturn"} /\ pc'[t] = "idle"
EmptyMeansFinished ==
  [][\A t \in Host : FinishReturns(t) /\ pc[t] # "finishReturn" =>
       \A e \in owed[t] : Finished(e)]_vars

\* The queues implement the order of execution that EventOrder specifies.
Order == INSTANCE EventOrder
ImplementsOrder == Order!OSpec

\* Seen from the device, the queues push each command once, and the worker they
\* picture takes commands in the order of pushing, one at a time.
Device == INSTANCE DeviceService WITH
  pending <- devq,
  active  <- IF pc[Worker] = "run" THEN ev[Worker] ELSE None,
  seen    <- {e \in issued : kind[e] \in DeviceKinds /\ status[e] # "Queued"}
ImplementsDevice == Device!DSpec

-----------------------------------------------------------------------------
(* Liveness, under FairSpec.                                               *)

\* As long as nothing fails (events that wait for a failed one are never
\* terminated), every queued event ends: no push is forgotten when another event
\* completes.
EveryEventEnds == \A e \in Event : (e \in issued) ~> (Finished(e) \/ ~NoFailure)

\* A thread that waits for p_flushed is let go.
FlushEnds  ==
  \A t \in Host : (pc[t] = "flush") ~> (pc[t] \notin {"flush", "flushWait"} \/ ~NoFailure)

\* A thread that waits for the list to become empty is let go.
FinishEnds == \A t \in Host : (pc[t] = "finishWait") ~> (pc[t] = "idle" \/ ~NoFailure)

\* clWaitForEvents and blocking calls return.
WaitEnds   == \A t \in Host : (pc[t] = "wait") ~> (pc[t] = "idle")
=============================================================================
