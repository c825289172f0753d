------------------------- MODULE CommandQueueProofs -------------------------
(***************************************************************************)
(* The theorems about CommandQueue, for every number of host threads,      *)
(* queues, events and calls: type correctness, the inductive invariant,    *)
(* the safety properties that follow from it, the refinements of           *)
(* EventOrder and of DeviceService, and what flush and finish promise.     *)
(***************************************************************************)
EXTENDS CommandQueueSteps

-----------------------------------------------------------------------------
(* The theorems.                                                             *)

Inductive == TypeOK /\ IInv

\* The invariant holds initially.
LEMMA InitInductive == ASSUME Init PROVE Inductive
<1>1. TypeOK
  BY ConstantsOK
     DEF Init, TypeOK, EventTypes, QueueTypes, LocalTypes, GhostTypes, Statuses, Results, Places, Kinds,
         DeviceKinds, DummyKinds, Thread
<1>2. LockInv
  BY ConstantsOK DEF Init, LockInv, Thread
<1>3. FrameInv
  BY ConstantsOK DEF Init, FrameInv, WorkerFrame, HostFrame, InQueue, Thread
<1>4. LoopInv /\ AppendInv /\ EventInv /\ DeviceInv
  BY ConstantsOK DEF Init, LoopInv, AppendInv, EventInv, DeviceInv, IsDummy, Thread
<1>5. ListInv /\ ScanInv /\ SettleInv /\ StartInv
  BY DEF Init, ListInv, ScanInv, SettleInv, StartInv, Started, Thread
<1> QED BY <1>1, <1>2, <1>3, <1>4, <1>5 DEF Inductive, IInv

\* Every step preserves the invariant.
LEMMA StepInductive == ASSUME Inductive, Next PROVE Inductive'
<1> USE DEF Inductive, IInv
<1>1. PICK t \in Thread : ThreadStep(t)
  BY NextIsThreadStep
<1>2. TypeOK'
  BY TypeStep
<1>3. LockInv' /\ FrameInv' /\ LoopInv' /\ AppendInv'
  BY <1>1, LockStep, FrameStep, LoopStep, AppendStep
<1>4. EventInv' /\ DeviceInv' /\ ListInv'
  BY <1>1, EventStep, DeviceStep, ListStep
<1>5. ScanInv' /\ SettleInv' /\ StartInv'
  BY <1>1, ScanStep, SettleStep, StartStep
<1> QED BY <1>2, <1>3, <1>4, <1>5

\* The invariant speaks of the variables only.
LEMMA StutterInductive == ASSUME Inductive, UNCHANGED vars PROVE Inductive'
<1> USE DEF vars, eventVars, queueVars, localVars, callVars, loopVars, waitVars, ghostVars
<1>1. TypeOK'
  BY DEF Inductive, TypeOK, EventTypes, QueueTypes, LocalTypes, GhostTypes
<1>2. LockInv' /\ FrameInv'
  BY DEF Inductive, IInv, LockInv, FrameInv, WorkerFrame, HostFrame
<1>3. LoopInv' /\ AppendInv' /\ EventInv' /\ DeviceInv'
  BY DEF Inductive, IInv, LoopInv, AppendInv, EventInv, IsDummy, DeviceInv
<1>4. ListInv' /\ ScanInv'
  BY DEF Inductive, IInv, ListInv, ScanInv, Finished
<1>5. SettleInv' /\ StartInv'
  BY DEF Inductive, IInv, SettleInv, StartInv, Started, CanStart, WaitListDone, Finished
<1> QED BY <1>1, <1>2, <1>3, <1>4, <1>5 DEF Inductive, IInv

\* The invariant holds in every reachable state.
LEMMA Induction == Spec => []Inductive
<1>1. Init => Inductive
  BY InitInductive
<1>2. Inductive /\ [Next]_vars => Inductive'
  BY StepInductive, StutterInductive
<1> QED BY <1>1, <1>2, PTL DEF Spec

\* Whatever the program and the worker do, every variable has its type.
THEOREM TypeCorrect == Spec => []TypeOK
<1>1. Inductive => TypeOK
  BY DEF Inductive
<1> QED BY <1>1, Induction, PTL

\* The invariant of CommandQueueInv holds in every reachable state.
THEOREM Invariance == Spec => []IInv
<1>1. Inductive => IInv
  BY DEF Inductive
<1> QED BY <1>1, Induction, PTL

\* In a queue in order nothing starts before everything queued before it is over
\* (the tests of pushEventsOnDevice on p_properties and on the flag first).
THEOREM InOrder_Holds == Spec => []InOrderExecution
<1>1. Inductive => InOrderExecution
  BY DEF Inductive, IInv, StartInv, CanStart, InOrderExecution
<1> QED BY <1>1, Induction, PTL

\* Nothing overtakes a barrier or a WaitForEvents (commandqueue.cpp, the tests on
\* Event::Barrier and Event::WaitForEvents in pushEventsOnDevice).
THEOREM Barriers_Hold == Spec => []BarriersHold
<1>1. ASSUME Inductive PROVE BarriersHold
  <2> SUFFICES ASSUME NEW e \in Event, Started(e)
               PROVE  /\ kind[e] = "Barrier" => \A p \in pred[e] : Finished(p)
                      /\ \A p \in pred[e] :
                           kind[p] \in {"Barrier", "WaitForEvents"} =>
                             status[p] = "Complete" /\ WaitListDone(p)
    BY DEF BarriersHold
  <2>1. CanStart(e) /\ pred[e] \subseteq issued /\ issued \subseteq Event
    BY <1>1 DEF Inductive, IInv, StartInv, EventInv, TypeOK, GhostTypes
  <2>2. ASSUME NEW p \in pred[e], kind[p] \in {"Barrier", "WaitForEvents"}
        PROVE  status[p] = "Complete" /\ WaitListDone(p)
    <3>1. status[p] = "Complete" /\ p \in issued
      BY <2>1, <2>2 DEF CanStart
    <3>2. CanStart(p)
      BY <1>1, <2>1, <3>1 DEF Inductive, IInv, StartInv, Started
    <3> QED BY <3>1, <3>2 DEF CanStart
  <2> QED BY <2>1, <2>2 DEF CanStart
<1> QED BY <1>1, Induction, PTL

\* Nothing starts before its wait list is complete, and a wait list that was
\* complete when it was tested is complete for ever.
THEOREM WaitLists_Hold == Spec => []WaitListsHold
<1>1. Inductive => WaitListsHold
  BY DEF Inductive, IInv, StartInv, CanStart, WaitListsHold
<1> QED BY <1>1, Induction, PTL

\* A submitted command is in the device's list or in the worker's hands, once.
THEOREM Device_Once == Spec => []OnDeviceOnce
<1>1. ASSUME Inductive PROVE OnDeviceOnce
  <2>1. issued \subseteq Event /\ \A e \in Event : e \notin issued /\ kind[e] # "User" => status[e] # "Submitted"
    BY <1>1 DEF Inductive, IInv, TypeOK, GhostTypes, EventInv
  <2>2. \A i, j \in DOMAIN devq : i # j => devq[i] # devq[j]
    BY <1>1 DEF Inductive, IInv, DeviceInv
  <2>3. pc[Worker] = "run" => ev[Worker] \notin Elems(devq)
    BY <1>1 DEF Inductive, IInv, DeviceInv, Elems
  <2>4. ASSUME NEW e \in Event, kind[e] # "User", status[e] = "Submitted"
        PROVE  e \in Elems(devq) \/ (pc[Worker] = "run" /\ ev[Worker] = e)
    BY <1>1, <2>1, <2>4 DEF Inductive, IInv, DeviceInv, Elems
  <2>5. ASSUME NEW e \in Event, e \in Elems(devq) \/ (pc[Worker] = "run" /\ ev[Worker] = e)
        PROVE  kind[e] # "User" /\ status[e] = "Submitted"
    BY <1>1, <2>5
       DEF Inductive, IInv, DeviceInv, Elems, FrameInv, WorkerFrame, DeviceKinds
  <2> QED BY <2>2, <2>3, <2>4, <2>5 DEF OnDeviceOnce
<1> QED BY <1>1, Induction, PTL

\* cleanEvents takes only events out of the list that are over.
THEOREM None_Dropped == Spec => []NoneDropped
<1>1. Inductive => NoneDropped
  BY DEF Inductive, IInv, ListInv, EventInv, NoneDropped, Elems, TypeOK, GhostTypes
<1> QED BY <1>1, Induction, PTL

-----------------------------------------------------------------------------
(* The refinement: the queues implement EventOrder.                          *)

\* The events a wait list may hold exist.
LEMMA QueueableEvents ==
  ASSUME TypeOK, EventInv, ListInv, NEW q \in Queue, NEW k, NEW W, WaitListFor(q, k, W)
  PROVE  \A w \in W : status[w] # "None"
<1>1. \A w \in Handles : status[w] # "None"
  BY DEF Handles, EventInv, TypeOK, GhostTypes
<1>2. \A w \in Elems(list[q]) : status[w] # "None"
  BY DEF Elems, ListInv, EventInv, TypeOK, GhostTypes
<1> QED BY <1>1, <1>2 DEF WaitListFor

\* CanStart is the readiness of EventOrder.
LEMMA ReadyToStart ==
  ASSUME NEW e \in issued, status[e] = "Queued", CanStart(e)
  PROVE  Order!Ready(e)
  BY DEF Order!Ready, Order!Over, CanStart, WaitListDone, Finished

\* Every step of a thread is a step of EventOrder or changes nothing it sees.
LEMMA StepRefines ==
  ASSUME Inductive, NEW t \in Thread, ThreadStep(t)
  PROVE  [Order!ONext]_(Order!ovars)
<1> USE DEF Order!ovars, Inductive, IInv
<1>0. /\ status \in [Event -> Statuses] /\ kind \in [Event -> Kinds] /\ issued \subseteq Event
      /\ home \in [Event -> Queue \union {None}] /\ waits \in [Event -> SUBSET Event]
      /\ pred \in [Event -> SUBSET Event]
  BY DEF TypeOK, EventTypes, GhostTypes
<1>1. CASE UNCHANGED dataVars
  BY <1>1 DEF dataVars, eventVars
<1>2. CASE t \in Host /\ CreateUserEvent(t)
  <2>1. PICK e \in Event : /\ Fresh(e) /\ status' = [status EXCEPT ![e] = "Submitted"]
                           /\ kind' = [kind EXCEPT ![e] = "User"]
    BY <1>2 DEF CreateUserEvent
  <2>2. home' = home /\ waits' = waits /\ issued' = issued /\ pred' = pred
    BY <1>2 DEF CreateUserEvent, ghostVars
  <2>3. status[e] = "None" /\ home[e] = None /\ waits[e] = {}
    BY <2>1 DEF Fresh, EventInv
  <2>4. home' = [home EXCEPT ![e] = None] /\ waits' = [waits EXCEPT ![e] = {}]
    BY <1>0, <2>2, <2>3
  <2>5. Order!Create(e)
    BY <2>1, <2>2, <2>3, <2>4 DEF Order!Create, Order!Device, Order!Dummy
  <2> QED BY <2>5 DEF Order!ONext
<1>3. CASE t \in Host /\ Enqueue(t)
  <2>1. PICK e \in Event, q \in Queue, k \in Kind \ {"User"}, W \in SUBSET Event : Construct(e, q, k, W)
    BY <1>3 DEF Enqueue
  <2>2. issued' = issued /\ pred' = pred
    BY <1>3 DEF Enqueue, ghostVars
  <2>3. status[e] = "None" /\ WaitListFor(q, k, W) /\ \A w \in W : status[w] # "Failed"
    BY <2>1 DEF Construct, Fresh
  <2>4. \A w \in W : status[w] \notin {"None", "Failed"} /\ w # e
    BY <2>3, QueueableEvents
  <2>5. /\ status' = [status EXCEPT ![e] = "Queued"] /\ kind' = [kind EXCEPT ![e] = k]
        /\ home' = [home EXCEPT ![e] = q] /\ waits' = [waits EXCEPT ![e] = W]
    BY <2>1 DEF Construct
  <2>6. k # "User" /\ q # None /\ k \in Order!Device \union Order!Dummy
    BY ConstantsOK DEF Kinds, DeviceKinds, DummyKinds, Order!Device, Order!Dummy
  <2>7. Order!Create(e)
    BY <2>2, <2>3, <2>4, <2>5, <2>6 DEF Order!Create
  <2> QED BY <2>7 DEF Order!ONext
<1>4. CASE t \in Host /\ InitFails(t)
  <2>1. ev[t] \in Event /\ ev[t] \notin issued /\ status[ev[t]] = "Queued"
    BY <1>4 DEF InitFails, FrameInv, HostFrame
  <2>2. Order!Withdraw(ev[t])
    BY <1>4, <2>1 DEF InitFails, Order!Withdraw, ghostVars
  <2> QED BY <2>1, <2>2 DEF Order!ONext
<1>5. CASE t \in Host /\ QueueEvent(t)
  <2>1. /\ ev[t] \in Event /\ ev[t] \notin issued /\ status[ev[t]] = "Queued"
        /\ home[ev[t]] = at[t]
    BY <1>5 DEF QueueEvent, FrameInv, HostFrame
  <2>2. Order!Issue(ev[t])
    BY <1>5, <2>1 DEF QueueEvent, Order!Issue, eventVars
  <2> QED BY <2>1, <2>2 DEF Order!ONext
<1>6. CASE t \in Host /\ SetUser(t)
  <2>1. ev[t] \in Event /\ status[ev[t]] \in {"Submitted", "Complete"}
    BY <1>6 DEF SetUser, FrameInv, HostFrame, EventInv
  <2>2. CASE status[ev[t]] = "Submitted"
    <3>1. Order!Succeed(ev[t])
      BY <1>6, <2>2 DEF SetUser, Order!Succeed, Order!SetTo, ghostVars
    <3> QED BY <2>1, <3>1 DEF Order!ONext
  <2>3. CASE status[ev[t]] = "Complete"
    BY <1>0, <1>6, <2>1, <2>3 DEF SetUser, ghostVars
  <2> QED BY <2>1, <2>2, <2>3
<1>7. CASE ScanSubmit(t)
  <2> DEFINE c == Current(t)
  <2>1. /\ pc[t] = "scan" /\ Pushable(t) /\ WaitListDone(c) /\ ~IsDummy(c)
        /\ status' = [status EXCEPT ![c] = "Submitted"]
        /\ UNCHANGED <<kind, home, waits, issued, pred>>
    BY <1>7 DEF ScanSubmit, Scanning, ghostVars
  <2>2. c \in issued /\ c \in Event /\ status[c] = "Queued"
    BY <1>0, <2>1, CurrentIssued DEF Pushable
  <2>3. CanStart(c)
    BY <2>1, ScanReady
  <2>4. kind[c] \in Order!Device
    BY <1>0, <2>1, <2>2 DEF IsDummy, Kinds, DeviceKinds, Order!Device
  <2> HIDE DEF c
  <2>5. Order!Launch(c)
    BY <2>1, <2>2, <2>3, <2>4, ReadyToStart DEF Order!Launch, Order!SetTo
  <2> QED BY <2>2, <2>5 DEF Order!ONext
<1>8. CASE Settle(t)
  <2> DEFINE d == dummy[t]
  <2>1. /\ status' = [status EXCEPT ![d] = "Complete"]
        /\ UNCHANGED <<kind, home, waits, issued, pred>>
    BY <1>8 DEF Settle, ghostVars
  <2>2. d \in issued /\ d \in Event /\ kind[d] \in DummyKinds /\ CanStart(d)
    BY <1>0, <1>8 DEF Settle, SettleInv
  <2>3. status[d] \in {"Queued", "Complete"}
    BY <2>2 DEF EventInv, IsDummy
  <2> HIDE DEF d
  <2>4. CASE status[d] = "Queued"
    <3>1. Order!Pass(d)
      BY <2>1, <2>2, <2>4, ReadyToStart DEF Order!Pass, Order!SetTo, Order!Dummy, DummyKinds
    <3> QED BY <2>2, <3>1 DEF Order!ONext
  <2>5. CASE status[d] = "Complete"
    BY <1>0, <2>1, <2>2, <2>5
  <2> QED BY <2>3, <2>4, <2>5
<1>9. CASE EraseFinished(t)
  BY <1>9 DEF EraseFinished, Erasing, eventVars, ghostVars
<1>10. CASE WorkerGet
  BY <1>10 DEF WorkerGet, eventVars, ghostVars
<1>11. CASE WorkerCompletes
  <2>1. ev[Worker] \in Event /\ status[ev[Worker]] = "Submitted"
    BY <1>0, <1>11, WorkerEvent DEF WorkerCompletes
  <2>2. Order!Succeed(ev[Worker])
    BY <1>11, <2>1 DEF WorkerCompletes, Order!Succeed, Order!SetTo, ghostVars
  <2> QED BY <2>1, <2>2 DEF Order!ONext
<1>12. CASE WorkerFails
  <2>1. ev[Worker] \in Event /\ status[ev[Worker]] = "Submitted"
    BY <1>0, <1>12, WorkerEvent DEF WorkerFails
  <2>2. Order!Fail(ev[Worker])
    BY <1>12, <2>1 DEF WorkerFails, Order!Fail, Order!SetTo, ghostVars
  <2> QED BY <2>1, <2>2 DEF Order!ONext
<1> QED
  BY <1>1, <1>2, <1>3, <1>4, <1>5, <1>6, <1>7, <1>8, <1>9, <1>10, <1>11, <1>12, DataSteps
     DEF DataStep

\* Every behaviour of the queues, the host threads and the worker is one that
\* EventOrder allows: pushEventsOnDevice and setStatus take an event up only when
\* it is ready and never undo a status.
THEOREM Refinement == Spec => ImplementsOrder
<1>1. Init => Order!OInit
  BY DEF Init, Order!OInit
<1>2. Inductive /\ [Next]_vars => [Order!ONext]_(Order!ovars)
  <2>1. CASE Inductive /\ Next
    BY <2>1, NextIsThreadStep, StepRefines
  <2>2. CASE UNCHANGED vars
    BY <2>2 DEF vars, eventVars, ghostVars, Order!ovars
  <2> QED BY <2>1, <2>2
<1> QED BY <1>1, <1>2, Induction, PTL DEF Spec, ImplementsOrder, Order!OSpec

-----------------------------------------------------------------------------
(* The queues use the device as DeviceService says.                          *)

Hand == IF pc[Worker] = "run" THEN ev[Worker] ELSE None
Seen == {e \in issued : kind[e] \in DeviceKinds /\ status[e] # "Queued"}

\* Only WorkerGet and the completion of a command change what the worker has in
\* hand.
LEMMA HandKept ==
  ASSUME Inductive, NEW t \in Thread, ThreadStep(t),
         ~(t = Worker /\ (WorkerGet \/ WorkerCompletes \/ WorkerFails))
  PROVE  Hand' = Hand
<1>0. LocalTypes /\ Worker \in Thread /\ TypeOK /\ FrameInv
  BY DEF Inductive, IInv, TypeOK, Thread
<1>1. CASE t # Worker
  <2>1. pc'[Worker] = pc[Worker] /\ ev'[Worker] = ev[Worker]
    BY <1>0, <1>1, OneThread DEF SameLocals
  <2> QED BY <2>1 DEF Hand
<1>2. CASE t = Worker
  <2>1. (Push(Worker) \/ Clean(Worker)) /\ ~WorkerGet
    BY <1>2, ConstantsOK DEF ThreadStep, Work
  <2>2. pc[Worker] # "run"
    BY <2>1
       DEF Push, PushLock, ScanEnd, ScanLook, ScanDone, ScanBehind, ScanBusy, ScanSkip,
           ScanWaitForEvents, ScanSubmit, ScanDummy, Settle, Scanning, Clean, CleanLock,
           EraseFinished, EraseSkip, EraseEnd, Cleaned, Erasing
  <2>3. pc'[Worker] # "run"
    BY <1>0, <1>2, <2>1, <2>2, RunPlace
  <2> QED BY <2>2, <2>3 DEF Hand
<1> QED BY <1>1, <1>2

\* Only a submission adds to the commands the device has seen.
LEMMA SeenKept ==
  ASSUME Inductive, NEW t \in Thread, ThreadStep(t), ~ScanSubmit(t)
  PROVE  Seen' = Seen
<1> USE DEF Inductive, IInv, Seen
<1>0. /\ status \in [Event -> Statuses] /\ kind \in [Event -> Kinds] /\ issued \subseteq Event
  BY DEF TypeOK, EventTypes, GhostTypes
<1>1. CASE UNCHANGED dataVars \/ EraseFinished(t) \/ (t = Worker /\ WorkerGet)
  BY <1>1 DEF dataVars, EraseFinished, Erasing, WorkerGet, eventVars, ghostVars
<1>2. CASE t \in Host /\ (CreateUserEvent(t) \/ Enqueue(t))
  <2>1. PICK e \in Event : /\ status[e] = "None"
                           /\ \A d \in Event : d # e => status'[d] = status[d] /\ kind'[d] = kind[d]
    BY <1>0, <1>2 DEF CreateUserEvent, Enqueue, Construct, Fresh
  <2>2. issued' = issued /\ e \notin issued
    BY <1>2, <2>1 DEF CreateUserEvent, Enqueue, ghostVars, EventInv
  <2> QED BY <1>0, <2>1, <2>2
<1>3. CASE t \in Host /\ (InitFails(t) \/ SetUser(t))
  <2>1. ev[t] \in Event /\ ev[t] \notin issued
    BY <1>3 DEF InitFails, SetUser, FrameInv, HostFrame, EventInv
  <2>2. issued' = issued /\ kind' = kind /\ \A d \in Event : d # ev[t] => status'[d] = status[d]
    BY <1>0, <1>3, <2>1 DEF InitFails, SetUser, ghostVars
  <2> QED BY <1>0, <2>1, <2>2
<1>4. CASE t \in Host /\ QueueEvent(t)
  <2>1. status[ev[t]] = "Queued"
    BY <1>4 DEF QueueEvent, FrameInv, HostFrame
  <2>2. issued' = issued \union {ev[t]} /\ kind' = kind /\ status' = status
    BY <1>4 DEF QueueEvent, eventVars
  <2> QED BY <2>1, <2>2
<1>5. CASE Settle(t)
  <2>1. dummy[t] \in issued /\ kind[dummy[t]] \notin DeviceKinds
    BY <1>5 DEF Settle, SettleInv, DummyKinds, DeviceKinds
  <2>2. issued' = issued /\ kind' = kind /\ \A d \in Event : d # dummy[t] => status'[d] = status[d]
    BY <1>0, <1>5, <2>1 DEF Settle, ghostVars
  <2> QED BY <1>0, <2>1, <2>2
<1>6. CASE t = Worker /\ (WorkerCompletes \/ WorkerFails)
  <2>1. ev[Worker] \in issued /\ status[ev[Worker]] = "Submitted"
    BY <1>6, WorkerEvent DEF WorkerCompletes, WorkerFails
  <2>2. /\ issued' = issued /\ kind' = kind /\ status'[ev[Worker]] # "Queued"
        /\ \A d \in Event : d # ev[Worker] => status'[d] = status[d]
    BY <1>0, <1>6, <2>1 DEF WorkerCompletes, WorkerFails, ghostVars
  <2> QED BY <1>0, <2>1, <2>2
<1> QED BY <1>1, <1>2, <1>3, <1>4, <1>5, <1>6, DataSteps DEF DataStep

\* Submitting is Submit, WorkerGet is Take, completing is Finish; the rest
\* stutters.
LEMMA StepServes ==
  ASSUME Inductive, NEW t \in Thread, ThreadStep(t)
  PROVE  Device!DNext \/ (devq' = devq /\ Hand' = Hand /\ Seen' = Seen)
<1>0. /\ TypeOK /\ FrameInv /\ EventInv /\ ListInv /\ SettleInv
      /\ LocalTypes /\ Worker \in Thread /\ devq \in Seq(Event)
  BY DEF Inductive, IInv, TypeOK, QueueTypes, Thread
<1>1. CASE ScanSubmit(t)
  <2> DEFINE c == Current(t)
  <2>1. c \in issued /\ c \in Event /\ status[c] = "Queued" /\ kind[c] \in DeviceKinds
    BY <1>0, <1>1, CurrentIssued
       DEF ScanSubmit, Pushable, Scanning, IsDummy, Kinds, TypeOK, EventTypes, GhostTypes
  <2>2. /\ devq' = Append(devq, c) /\ status' = [status EXCEPT ![c] = "Submitted"]
        /\ UNCHANGED <<kind, issued, pc, ev>>
    BY <1>1 DEF ScanSubmit, Scanning, callVars, ghostVars
  <2> HIDE DEF c
  <2>3. c \notin Seen /\ Seen' = Seen \union {c}
    BY <1>0, <2>1, <2>2 DEF Seen, TypeOK, EventTypes, GhostTypes
  <2>4. Hand' = Hand
    BY <2>2 DEF Hand
  <2> QED BY <2>1, <2>2, <2>3, <2>4 DEF Device!DNext, Device!Submit, Hand, Seen
<1>2. CASE t = Worker /\ WorkerGet
  <2>1. /\ pc[Worker] = "idle" /\ devq # <<>> /\ devq' = Tail(devq)
        /\ pc'[Worker] = "run" /\ ev'[Worker] = Head(devq)
    BY <1>0, <1>2 DEF WorkerGet, Go, LocalTypes
  <2>2. Seen' = Seen
    BY <1>2 DEF WorkerGet, eventVars, ghostVars, Seen
  <2>3. Device!Take
    BY <2>1, <2>2 DEF Device!Take, Seen
  <2> QED BY <2>3 DEF Device!DNext
<1>3. CASE t = Worker /\ (WorkerCompletes \/ WorkerFails)
  <2>1. pc[Worker] = "run" /\ pc'[Worker] # "run" /\ devq' = devq /\ ev[Worker] # None
    BY <1>0, <1>3, WorkerEvent, ConstantsOK
       DEF WorkerCompletes, WorkerFails, Go, LocalTypes, TypeOK, GhostTypes
  <2>2. Seen' = Seen
    BY <1>3, SeenKept, ConstantsOK DEF WorkerCompletes, WorkerFails, ScanSubmit, Scanning
  <2>3. Device!Finish
    BY <2>1, <2>2 DEF Device!Finish, Seen
  <2> QED BY <2>3 DEF Device!DNext
<1>4. CASE ~ScanSubmit(t) /\ ~(t = Worker /\ (WorkerGet \/ WorkerCompletes \/ WorkerFails))
  BY <1>0, <1>4, NothingSubmitted, HandKept, SeenKept
<1> QED BY <1>1, <1>2, <1>3, <1>4

\* Every behaviour of the queues hands each command to the device once, and the
\* worker takes the commands in that order, one at a time.
THEOREM ServiceRefinement == Spec => ImplementsDevice
<1>1. Init => Device!DInit
  BY ConstantsOK DEF Init, Device!DInit, Thread
<1>2. Inductive /\ [Next]_vars => [Device!DNext]_(Device!dvars)
  <2>1. CASE Inductive /\ Next
    BY <2>1, NextIsThreadStep, StepServes DEF Device!dvars, Hand, Seen
  <2>2. CASE UNCHANGED vars
    BY <2>2 DEF vars, eventVars, localVars, callVars, ghostVars, Device!dvars
  <2> QED BY <2>1, <2>2
<1> QED BY <1>1, <1>2, Induction, PTL DEF Spec, ImplementsDevice, Device!DSpec

-----------------------------------------------------------------------------
(* What flush and finish promise: OwedInv, ErrorInv, CreatedInv, PushedInv.  *)

\* How a step of host thread t changes what the thread is owed.
OwedMove(t) ==
  \/ owed[t] = {} /\ owed'[t] = {}
  \/ owed'[t] = owed[t] /\ at'[t] = at[t] /\ pc'[t] \in Awaiting
  \/ owed'[t] = {}
  \/ /\ pc'[t] \in Awaiting /\ at'[t] \in Queue
     /\ owed'[t] = Elems(list[at'[t]])

\* A thread other than the one that steps is owed what it was owed.
LEMMA OwedOthers ==
  ASSUME TypeOK, NEW t \in Thread, ThreadStep(t), NEW u \in Host \ {t}
  PROVE  owed'[u] = owed[u]
<1>0. owed \in [Host -> SUBSET Event]
  BY DEF TypeOK, GhostTypes
<1> USE DEF ghostVars
<1>1. CASE Push(t)
  BY <1>1 DEF Push, PushLock, ScanEnd, ScanLook, ScanDone, ScanBehind, ScanBusy, ScanSkip,
              ScanWaitForEvents, ScanSubmit, ScanDummy, Settle, Scanning
<1>2. CASE Clean(t)
  BY <1>2 DEF Clean, CleanLock, EraseFinished, EraseSkip, EraseEnd, Cleaned, Erasing
<1>3. CASE Start(t)
  BY <1>0, <1>3 DEF Start, CreateUserEvent, Enqueue, FlushCall, FinishCall, WaitCall, SetUserCall
<1>4. CASE Continue(t) /\ ~Push(t) /\ ~Clean(t)
  BY <1>0, <1>4 DEF Continue, InitFails, QueueEvent, FlushTest, FlushWait, FlushReturn, FinishStore,
                    FinishFails, FinishCode, FinishReturn, FinishWait, WaitCheck, WaitSpin, SetUser,
                    FlushQueues
<1>5. CASE SpuriousWakeup(t)
  BY <1>5 DEF SpuriousWakeup
<1>6. CASE t = Worker /\ (WorkerGet \/ WorkerCompletes \/ WorkerFails)
  BY <1>6 DEF WorkerGet, WorkerCompletes, WorkerFails
<1> QED BY <1>1, <1>2, <1>3, <1>4, <1>5, <1>6 DEF ThreadStep, Work

\* The actions of a host thread outside of flush and finish.
LEMMA OwedIdle ==
  ASSUME Inductive, OwedInv, NEW t \in Host, ThreadStep(t), pc[t] \notin Awaiting
  PROVE  OwedMove(t)
<1>0. /\ owed \in [Host -> SUBSET Event] /\ pc \in [Thread -> Places]
      /\ at \in [Thread -> Queue \union {None}] /\ t \in Thread /\ t # Worker
      /\ list \in [Queue -> Seq(Event)]
  BY ConstantsOK DEF Inductive, TypeOK, GhostTypes, LocalTypes, QueueTypes, Thread
<1>1. owed[t] = {}
  BY DEF OwedInv
<1>2. owed' = owed => OwedMove(t)
  BY <1>1 DEF OwedMove
<1>3. CASE Push(t)
  BY <1>2, <1>3 DEF Push, PushLock, ScanEnd, ScanLook, ScanDone, ScanBehind, ScanBusy, ScanSkip,
              ScanWaitForEvents, ScanSubmit, ScanDummy, Settle, Scanning, ghostVars
<1>4. CASE Clean(t)
  BY <1>4 DEF Clean, CleanLock, EraseFinished, EraseSkip, EraseEnd, Cleaned, Erasing, Awaiting
<1>5. CASE FlushCall(t) \/ FinishCall(t)
  BY <1>0, <1>5 DEF FlushCall, FinishCall, Go, OwedMove, Awaiting
<1>6. CASE CreateUserEvent(t) \/ Enqueue(t) \/ WaitCall(t) \/ SetUserCall(t) \/ SpuriousWakeup(t)
  BY <1>2, <1>6 DEF CreateUserEvent, Enqueue, WaitCall, SetUserCall, SpuriousWakeup, ghostVars
<1>7. CASE InitFails(t) \/ QueueEvent(t) \/ WaitSpin(t) \/ SetUser(t) \/ FlushQueues(t)
  BY <1>2, <1>7 DEF InitFails, QueueEvent, WaitSpin, SetUser, FlushQueues, ghostVars
<1>8. CASE FlushTest(t) \/ FlushWait(t) \/ FinishStore(t) \/ FinishFails(t) \/ FinishCode(t)
           \/ FinishWait(t)
  BY <1>8 DEF FlushTest, FlushWait, FinishStore, FinishFails, FinishCode, FinishWait, Awaiting
<1>9. ASSUME NEW e \in Event, WaitCheck(t, e) PROVE OwedMove(t)
  <2>1. CASE status[e] = "Failed" \/ Finished(e)
    BY <1>2, <1>9, <2>1 DEF WaitCheck, Finished
  <2>2. CASE ~Finished(e)
    <3>1. pc[t] = "wait" /\ e \in todo[t]
      BY <1>9 DEF WaitCheck
    <3>2. home[e] \in Queue
      BY <1>0, <3>1 DEF Inductive, IInv, FrameInv, HostFrame, EventInv
    <3>3. pc'[t] = "flush" /\ at'[t] = home[e] /\ owed'[t] = Elems(list[home[e]])
      BY <1>0, <1>9, <2>2 DEF WaitCheck, Go, Finished
    <3> QED BY <3>2, <3>3 DEF OwedMove, Awaiting
  <2> QED BY <2>1, <2>2
<1> QED
  BY <1>0, <1>3, <1>4, <1>5, <1>6, <1>7, <1>8, <1>9 DEF ThreadStep, Start, Continue

\* The actions of a host thread inside flush and finish.
LEMMA OwedAwaiting ==
  ASSUME Inductive, NEW t \in Host, ThreadStep(t), pc[t] \in Awaiting
  PROVE  OwedMove(t)
<1>0. /\ owed \in [Host -> SUBSET Event] /\ pc \in [Thread -> Places]
      /\ at \in [Thread -> Queue \union {None}] /\ t \in Thread /\ t # Worker
  BY ConstantsOK DEF Inductive, TypeOK, GhostTypes, LocalTypes, Thread
<1> USE DEF Awaiting
<1>1. ASSUME owed' = owed, at' = at, pc'[t] \in Awaiting PROVE OwedMove(t)
  BY <1>1 DEF OwedMove
<1>2. ASSUME owed' = [owed EXCEPT ![t] = {}] PROVE OwedMove(t)
  BY <1>0, <1>2 DEF OwedMove
<1>3. CASE Clean(t)
  <2>1. CASE CleanLock(t) \/ Cleaned(t)
    BY <1>0, <1>1, <2>1 DEF CleanLock, Cleaned, Go, ghostVars, localVars, callVars
  <2>2. CASE EraseFinished(t) \/ EraseSkip(t) \/ EraseEnd(t)
    BY <1>0, <1>1, <2>2 DEF EraseFinished, EraseSkip, EraseEnd, Erasing, Go, ghostVars, callVars
  <2> QED BY <1>3, <2>1, <2>2 DEF Clean
<1>4. CASE FlushTest(t) \/ FlushWait(t) \/ FinishWait(t)
  BY <1>0, <1>1, <1>2, <1>4
     DEF FlushTest, FlushWait, FinishWait, FlushReturn, FinishReturn, Go, localVars, callVars
<1>5. CASE FinishStore(t) \/ FinishFails(t)
  BY <1>0, <1>1, <1>5 DEF FinishStore, FinishFails, Go, ghostVars, localVars, callVars
<1>6. CASE FinishCode(t)
  BY <1>2, <1>6 DEF FinishCode, FinishReturn
<1>7. CASE SpuriousWakeup(t)
  BY <1>1, <1>7 DEF SpuriousWakeup, ghostVars, localVars, callVars
<1>8. ~Push(t) /\ ~Start(t)
  BY DEF Push, PushLock, ScanEnd, ScanLook, ScanDone, ScanBehind, ScanBusy, ScanSkip,
         ScanWaitForEvents, ScanSubmit, ScanDummy, Settle, Scanning, Start, CreateUserEvent,
         Enqueue, FlushCall, FinishCall, WaitCall, SetUserCall, Begin
<1>9. ~InitFails(t) /\ ~QueueEvent(t) /\ ~WaitSpin(t) /\ ~SetUser(t) /\ ~FlushQueues(t)
      /\ \A e \in Event : ~WaitCheck(t, e)
  BY DEF InitFails, QueueEvent, WaitSpin, SetUser, FlushQueues, WaitCheck
<1> QED
  BY <1>0, <1>3, <1>4, <1>5, <1>6, <1>7, <1>8, <1>9 DEF ThreadStep, Continue

\* A step keeps what flush and finish answer for in their queue.
LEMMA OwedStep ==
  ASSUME Inductive, OwedInv, NEW t \in Thread, ThreadStep(t)
  PROVE  OwedInv'
<1>0. TypeOK /\ FrameInv /\ EventInv /\ ListInv /\ SettleInv
  BY DEF Inductive, IInv
<1>1. \A e \in issued : e \in issued' /\ home'[e] = home[e]
  BY <1>0, IssuedStable
<1>2. ASSUME NEW u \in Host
      PROVE  /\ owed'[u] # {} => pc'[u] \in Awaiting
             /\ \A e \in owed'[u] : e \in issued' /\ home'[e] = at'[u]
  <2>0. /\ owed[u] # {} => pc[u] \in Awaiting
        /\ \A e \in owed[u] : e \in issued /\ home[e] = at[u]
    BY DEF OwedInv
  <2>1. CASE u # t
    <3>1. owed'[u] = owed[u] /\ pc'[u] = pc[u] /\ at'[u] = at[u]
      BY <1>0, <2>1, OwedOthers, OneThread DEF SameLocals, Thread
    <3> QED BY <1>1, <2>0, <3>1
  <2>2. CASE u = t
    <3>1. OwedMove(u)
      BY <2>2, OwedIdle, OwedAwaiting
    <3>2. ASSUME NEW q \in Queue, NEW e \in Elems(list[q]) PROVE e \in issued /\ home[e] = q
      BY <1>0 DEF ListInv, Elems
    <3> QED BY <1>1, <2>0, <3>1, <3>2 DEF OwedMove
  <2> QED BY <2>1, <2>2
<1> QED BY <1>2 DEF OwedInv

\* A failure is never taken back.
LEMMA FailureStays ==
  ASSUME Inductive, NEW t \in Thread, ThreadStep(t), NoFailure'
  PROVE  NoFailure
<1>1. \A e \in Event : Finished(e) => status'[e] = status[e]
  BY FinishedStable DEF Inductive, IInv
<1> QED BY <1>1 DEF NoFailure, Finished

\* A step keeps errcode at SUCCESS as long as nothing has failed.
LEMMA ErrorStep ==
  ASSUME Inductive, ErrorInv, NEW t \in Thread, ThreadStep(t)
  PROVE  ErrorInv'
<1> DEFINE Goal == /\ \A q \in Queue : errcode'[q] = "SUCCESS"
                   /\ \A u \in Thread : pc'[u] # "finishFailed"
<1> SUFFICES ASSUME NoFailure' PROVE Goal
  BY DEF ErrorInv
<1>0. /\ NoFailure /\ \A q \in Queue : errcode[q] = "SUCCESS"
      /\ \A u \in Thread : pc[u] # "finishFailed"
  BY FailureStays DEF ErrorInv
<1>1. /\ TypeOK /\ FrameInv /\ EventInv /\ ListInv /\ SettleInv /\ LocalTypes
      /\ errcode \in [Queue -> Results] /\ pc \in [Thread -> Places]
      /\ pc[t] \in InQueue => at[t] \in Queue
  BY AtQueue DEF Inductive, IInv, TypeOK, QueueTypes, LocalTypes
<1>2. ASSUME NEW u \in Thread \ {t} PROVE pc'[u] # "finishFailed"
  BY <1>0, <1>1, OneThread DEF SameLocals
<1>3. ASSUME errcode' = errcode, pc'[t] # "finishFailed" PROVE Goal
  BY <1>0, <1>2, <1>3
<1>4. pc[t] # "idle" => after[t] # "finishFailed"
  BY <1>1, AfterPlace
<1>5. CASE Push(t)
  <2>1. errcode' = errcode
    BY <1>5 DEF Push, PushLock, ScanEnd, ScanLook, ScanDone, ScanBehind, ScanBusy, ScanSkip,
                ScanWaitForEvents, ScanSubmit, ScanDummy, Settle, PushReturn, queueVars
  <2>2. CASE ScanEnd(t) \/ ScanBehind(t) \/ ScanWaitForEvents(t)
    <3>1. pc[t] = "scan" /\ Resume(t)
      BY <2>2 DEF ScanEnd, ScanBehind, ScanWaitForEvents, Scanning, PushReturn
    <3> QED BY <1>1, <1>3, <1>4, <2>1, <3>1, ResumePlace
  <2>3. CASE ~(ScanEnd(t) \/ ScanBehind(t) \/ ScanWaitForEvents(t))
    <3>1. pc'[t] # "finishFailed"
      BY <1>0, <1>1, <1>5, <2>3
         DEF Push, PushLock, ScanLook, ScanDone, ScanBusy, ScanSkip, ScanSubmit, ScanDummy, Settle, Go
    <3> QED BY <1>3, <2>1, <3>1
  <2> QED BY <2>2, <2>3
<1>6. CASE Clean(t)
  <2>1. CASE EraseFinished(t)
    <3>1. pc[t] = "erase" /\ ~AtEnd(t) /\ pc' = pc
      BY <2>1 DEF EraseFinished, Erasing
    <3>2. Current(t) \in Event /\ status[Current(t)] # "Failed" /\ at[t] \in Queue
      BY <1>0, <1>1, <3>1, CurrentInList DEF NoFailure, InQueue
    <3>3. errcode' = [errcode EXCEPT ![at[t]] = "SUCCESS"]
      BY <2>1, <3>2 DEF EraseFinished
    <3> QED BY <1>0, <1>1, <1>2, <3>1, <3>2, <3>3
  <2>2. CASE CleanLock(t) \/ EraseSkip(t) \/ EraseEnd(t)
    BY <1>0, <1>1, <1>3, <2>2 DEF CleanLock, EraseSkip, EraseEnd, Erasing, Go
  <2>3. CASE Cleaned(t)
    <3>1. pc[t] = "cleaned" /\ errcode' = errcode /\ at[t] \in Queue
      BY <1>1, <2>3 DEF Cleaned, queueVars, InQueue
    <3>2. pc'[t] # "finishFailed"
      BY <1>0, <1>1, <2>3, <3>1, ReturnPlace DEF Cleaned, Go
    <3> QED BY <1>3, <3>1, <3>2
  <2> QED BY <1>6, <2>1, <2>2, <2>3 DEF Clean
<1>7. CASE Start(t)
  BY <1>0, <1>1, <1>3, <1>7
     DEF Start, CreateUserEvent, Enqueue, FlushCall, FinishCall, WaitCall, SetUserCall, Go, queueVars
<1>8. CASE Continue(t) /\ ~Push(t) /\ ~Clean(t)
  <2>1. CASE InitFails(t) \/ WaitSpin(t) \/ FinishCode(t)
    <3>1. Return(t) /\ errcode' = errcode
      BY <2>1 DEF InitFails, WaitSpin, FinishCode, FinishReturn, queueVars
    <3> QED BY <1>1, <1>3, <3>1, ReturnPlace
  <2>2. CASE QueueEvent(t) \/ SetUser(t) \/ FinishFails(t)
    BY <1>1, <1>3, <2>2 DEF QueueEvent, SetUser, FinishFails, Go, queueVars
  <2>3. CASE FlushTest(t) \/ FlushWait(t)
    <3>1. errcode' = errcode /\ pc[t] # "idle"
      BY <2>3 DEF FlushTest, FlushWait, queueVars
    <3>2. CASE Resume(t)
      BY <1>1, <1>3, <1>4, <3>1, <3>2, ResumePlace
    <3>3. CASE ~Resume(t)
      BY <1>0, <1>1, <1>3, <2>3, <3>1, <3>3 DEF FlushTest, FlushWait, FlushReturn, Go
    <3> QED BY <3>2, <3>3
  <2>4. CASE FinishWait(t)
    BY <1>1, <1>3, <2>4, ReturnPlace DEF FinishWait, FinishReturn, Go
  <2>5. CASE FinishStore(t)
    <3>1. pc[t] = "finishOK"
      BY <1>0, <2>5 DEF FinishStore
    <3>2. errcode' = [errcode EXCEPT ![at[t]] = "SUCCESS"] /\ pc'[t] # "finishFailed"
      BY <1>1, <2>5, <3>1 DEF FinishStore, Go
    <3> QED BY <1>0, <1>1, <1>2, <3>2
  <2>6. CASE (\E e \in Event : WaitCheck(t, e)) \/ FlushQueues(t)
    <3>1. errcode' = errcode
      BY <2>6 DEF WaitCheck, FlushQueues, queueVars
    <3>2. pc'[t] # "finishFailed"
      BY <1>0, <1>1, <2>6, ReturnPlace DEF WaitCheck, FlushQueues, Go
    <3> QED BY <1>3, <3>1, <3>2
  <2> QED BY <1>8, <2>1, <2>2, <2>3, <2>4, <2>5, <2>6 DEF Continue
<1>9. CASE SpuriousWakeup(t)
  BY <1>0, <1>3, <1>9 DEF SpuriousWakeup
<1>10. CASE t = Worker /\ (WorkerGet \/ WorkerCompletes \/ WorkerFails)
  BY <1>1, <1>3, <1>10 DEF WorkerGet, WorkerCompletes, WorkerFails, Go, queueVars
<1> QED BY <1>5, <1>6, <1>7, <1>8, <1>9, <1>10 DEF ThreadStep, Work

\* A step creates events of the kinds the host creates.
LEMMA CreatedStep ==
  ASSUME Inductive, CreatedInv, NEW t \in Thread, ThreadStep(t)
  PROVE  CreatedInv'
<1>0. kind \in [Event -> Kinds]
  BY DEF Inductive, TypeOK, EventTypes
<1>1. CASE t \in Host /\ CreateUserEvent(t)
  BY <1>0, <1>1 DEF CreateUserEvent, CreatedInv
<1>2. CASE t \in Host /\ Enqueue(t)
  <2>1. PICK e \in Event, q \in Queue, k \in Kind \ {"User"}, W \in SUBSET Event : Construct(e, q, k, W)
    BY <1>2 DEF Enqueue
  <2>2. kind' = [kind EXCEPT ![e] = k]
    BY <2>1 DEF Construct
  <2> QED BY <1>0, <2>2 DEF CreatedInv
<1>3. CASE kind' = kind
  BY <1>3 DEF CreatedInv
<1>4. CASE ~(t \in Host /\ (CreateUserEvent(t) \/ Enqueue(t)))
  <2>1. kind' = kind
    BY <1>4, DataSteps
       DEF DataStep, InitFails, QueueEvent, SetUser, ScanSubmit, Settle, EraseFinished, Erasing,
           WorkerGet, WorkerCompletes, WorkerFails, dataVars, eventVars
  <2> QED BY <1>3, <2>1
<1> QED BY <1>1, <1>2, <1>4

\* No command that is issued is ever queued again.
LEMMA PushedStays ==
  ASSUME Inductive, NEW t \in Thread, ThreadStep(t), NEW e \in issued, status[e] # "Queued"
  PROVE  status'[e] # "Queued"
<1>0. /\ TypeOK /\ FrameInv /\ EventInv /\ ListInv /\ SettleInv
      /\ e \in Event /\ status \in [Event -> Statuses] /\ status[e] # "None"
  BY DEF Inductive, IInv, TypeOK, EventTypes, GhostTypes, EventInv
<1>1. CASE Finished(e)
  BY <1>0, <1>1, FinishedStable DEF Finished
<1>2. CASE ~Finished(e) /\ ~(t = Worker /\ pc[Worker] = "run" /\ ev[Worker] = e)
  <2>1. status[e] = "Submitted"
    BY <1>0, <1>2 DEF Statuses, Finished
  <2> QED BY <1>0, <1>2, <2>1, SubmittedStable
<1>3. CASE t = Worker /\ pc[Worker] = "run" /\ ev[Worker] = e
  <2>1. CASE WorkerCompletes \/ WorkerFails
    BY <1>0, <1>3, <2>1 DEF WorkerCompletes, WorkerFails
  <2>2. ~WorkerGet /\ ~Push(Worker) /\ ~Clean(Worker)
    BY <1>3 DEF WorkerGet, Push, PushLock, ScanEnd, ScanLook, ScanDone, ScanBehind, ScanBusy, ScanSkip,
            ScanWaitForEvents, ScanSubmit, ScanDummy, Settle, Scanning, Clean, CleanLock,
            EraseFinished, EraseSkip, EraseEnd, Cleaned, Erasing
  <2> QED BY <1>3, <2>1, <2>2, ConstantsOK DEF ThreadStep, Work
<1> QED BY <1>1, <1>2, <1>3

PushedAt(q) ==
  flushed[q] => \A i \in DOMAIN list[q] :
    \/ status[list[q][i]] # "Queued"
    \/ \E t \in Thread : pc[t] = "scan" /\ at[t] = q /\ pos[t] <= i

\* The walk of thread t, if it is one of queue q, goes on and loses no event that
\* is still to be pushed.
WalksOn(t, q) ==
  pc[t] = "scan" /\ at[t] = q =>
    /\ pc'[t] = "scan" /\ at'[t] = q
    /\ \/ pos'[t] = pos[t]
       \/ /\ pos'[t] = pos[t] + 1
          /\ pos[t] \in DOMAIN list[q] => status[list[q][pos[t]]] # "Queued"

\* A step that leaves the list and the flag of a queue.
LEMMA PushedKept ==
  ASSUME Inductive, NEW t \in Thread, ThreadStep(t), NEW q \in Queue, PushedAt(q),
         flushed'[q] => flushed[q], list'[q] = list[q], WalksOn(t, q)
  PROVE  PushedAt(q)'
<1>0. /\ TypeOK /\ pos \in [Thread -> Nat \ {0}] /\ list[q] \in Seq(Event)
      /\ \A i \in DOMAIN list[q] : list[q][i] \in issued
  BY DEF Inductive, IInv, TypeOK, LocalTypes, QueueTypes, ListInv
<1> SUFFICES ASSUME flushed'[q], NEW i \in DOMAIN list[q], status'[list[q][i]] = "Queued"
             PROVE  \E u \in Thread : pc'[u] = "scan" /\ at'[u] = q /\ pos'[u] <= i
  BY DEF PushedAt
<1>1. status[list[q][i]] = "Queued"
  BY <1>0, PushedStays
<1>2. PICK u \in Thread : pc[u] = "scan" /\ at[u] = q /\ pos[u] <= i
  BY <1>1 DEF PushedAt
<1>3. CASE u # t
  BY <1>0, <1>2, <1>3, OneThread DEF SameLocals
<1>4. CASE u = t
  <2>1. i \in Nat /\ pos[t] \in Nat
    BY <1>0
  <2>2. CASE pos'[t] = pos[t]
    BY <1>2, <1>4, <2>2 DEF WalksOn
  <2>3. CASE pos'[t] = pos[t] + 1 /\ pos[t] # i
    <3>1. pos'[t] <= i
      BY <1>2, <1>4, <2>1, <2>3
    <3> QED BY <1>2, <1>4, <3>1 DEF WalksOn
  <2>4. CASE pos'[t] # pos[t] /\ pos[t] = i
    BY <1>1, <1>2, <1>4, <2>4 DEF WalksOn
  <2> QED BY <1>2, <1>4, <2>2, <2>3, <2>4 DEF WalksOn
<1> QED BY <1>3, <1>4

\* A step of a loop over the list that begins, goes on or ends a walk.
LEMMA PushedWalk ==
  ASSUME Inductive, NEW t \in Thread, ThreadStep(t), Push(t), PushedInv,
         \A e \in issued : ~IsDummy(e)
  PROVE  PushedInv'
<1>0. /\ TypeOK /\ FrameInv /\ LoopInv /\ ListInv /\ LockInv
      /\ pc \in [Thread -> Places] /\ at \in [Thread -> Queue \union {None}]
      /\ pos \in [Thread -> Nat \ {0}] /\ list \in [Queue -> Seq(Event)]
      /\ flushed \in [Queue -> BOOLEAN]
  BY DEF Inductive, IInv, TypeOK, LocalTypes, QueueTypes
<1>1. /\ pc[t] \in {"push", "scan", "settle"} /\ pc[t] \in InQueue
  BY DEF InQueue, Push, PushLock, ScanEnd, ScanLook, ScanDone, ScanBehind, ScanBusy, ScanSkip,
         ScanWaitForEvents, ScanSubmit, ScanDummy, Settle, Scanning
<1>2. at[t] \in Queue
  BY <1>0, <1>1, AtQueue
<1>3. list' = list
  BY DEF Push, PushLock, ScanEnd, ScanLook, ScanDone, ScanBehind, ScanBusy, ScanSkip,
         ScanWaitForEvents, ScanSubmit, ScanDummy, Settle, PushReturn, queueVars
<1>4. \A q \in Queue \ {at[t]} : flushed'[q] = flushed[q]
  BY <1>0 DEF Push, PushLock, ScanEnd, ScanLook, ScanDone, ScanBehind, ScanBusy, ScanSkip,
         ScanWaitForEvents, ScanSubmit, ScanDummy, Settle, PushReturn, queueVars
<1>5. \A q \in Queue : PushedAt(q)
  BY DEF PushedInv, PushedAt
<1>6. ASSUME NEW q \in Queue, q # at[t] PROVE PushedAt(q)'
  BY <1>3, <1>4, <1>5, <1>6, PushedKept DEF WalksOn
<1>7. ASSUME flushed'[at[t]] => flushed[at[t]], WalksOn(t, at[t]) PROVE PushedInv'
  <2>1. PICK q \in Queue : q = at[t]
    BY <1>2
  <2>2. PushedAt(q)'
    BY <1>3, <1>5, <1>7, <2>1, PushedKept
  <2>3. \A r \in Queue : PushedAt(r)'
    BY <1>6, <2>1, <2>2
  <2> QED BY <2>3 DEF PushedInv, PushedAt
<1>8. ASSUME ~flushed'[at[t]] PROVE PushedInv'
  <2>1. PICK q \in Queue : q = at[t]
    BY <1>2
  <2>2. PushedAt(q)'
    BY <1>8, <2>1 DEF PushedAt
  <2>3. \A r \in Queue : PushedAt(r)'
    BY <1>6, <2>1, <2>2
  <2> QED BY <2>3 DEF PushedInv, PushedAt
<1>9. ASSUME ~AtEnd(t), pc[t] = "scan"
      PROVE  pos[t] \in DOMAIN list[at[t]] /\ Current(t) = list[at[t]][pos[t]] /\ Current(t) \in issued
  BY <1>0, <1>1, <1>2, <1>9, CurrentInList, CurrentIssued
<1>10. CASE PushLock(t)
  <2>1. pc'[t] = "scan" /\ at'[t] = at[t] /\ pos'[t] = 1
    BY <1>0, <1>10 DEF PushLock, Go, LoopInv, localVars, callVars, loopVars
  <2>2. PICK q \in Queue : q = at[t]
    BY <1>2
  <2>3. PushedAt(q)'
    BY <1>0, <1>3, <2>1, <2>2 DEF PushedAt
  <2>4. \A r \in Queue : PushedAt(r)'
    BY <1>6, <2>2, <2>3
  <2> QED BY <2>4 DEF PushedInv, PushedAt
<1>11. CASE ScanEnd(t)
  <2>1. flushed' = flushed /\ AtEnd(t) /\ pc[t] = "scan" /\ Resume(t)
    BY <1>0, <1>2, <1>11 DEF ScanEnd, Scanning, PushReturn
  <2>2. PICK q \in Queue : q = at[t]
    BY <1>2
  <2>3. ASSUME flushed[q], NEW i \in DOMAIN list[q] PROVE status[list[q][i]] # "Queued"
    <3>1. SUFFICES ASSUME NEW u \in Thread, pc[u] = "scan", at[u] = q, pos[u] <= i
                   PROVE  FALSE
      BY <1>5, <2>3 DEF PushedAt
    <3>2. lock[q] = u /\ lock[q] = t
      BY <1>0, <2>1, <2>2, <3>1 DEF LockInv
    <3>3. pos[t] > Len(list[q]) /\ i \in 1..Len(list[q]) /\ pos[t] \in Nat
      BY <1>0, <2>1, <2>2 DEF AtEnd
    <3> QED BY <3>1, <3>2, <3>3
  <2>4. \A i \in DOMAIN list[q] : list[q][i] \in issued
    BY <1>0 DEF ListInv
  <2>5. PushedAt(q)'
    <3>1. ASSUME flushed[q], NEW i \in DOMAIN list[q] PROVE status'[list[q][i]] # "Queued"
      BY <2>3, <2>4, <3>1, PushedStays
    <3> QED BY <1>3, <2>1, <3>1 DEF PushedAt
  <2>6. \A r \in Queue : PushedAt(r)'
    BY <1>6, <2>2, <2>5
  <2> QED BY <2>6 DEF PushedInv, PushedAt
<1>12. CASE ScanBehind(t) \/ ScanWaitForEvents(t) \/ ScanSkip(t)
  <2>1. ~flushed'[at[t]]
    BY <1>0, <1>2, <1>12 DEF ScanBehind, ScanWaitForEvents, ScanSkip, PushReturn
  <2> QED BY <1>8, <2>1
<1>13. CASE ScanDone(t) \/ ScanBusy(t)
  <2>1. /\ ~AtEnd(t) /\ pc[t] = "scan" /\ status[Current(t)] # "Queued"
        /\ flushed' = flushed /\ pc' = pc /\ at' = at /\ pos'[t] = pos[t] + 1
    BY <1>0, <1>13 DEF ScanDone, ScanBusy, Scanning, Done, Advance, queueVars, callVars
  <2>2. WalksOn(t, at[t])
    BY <1>9, <2>1 DEF WalksOn
  <2> QED BY <1>7, <2>1, <2>2
<1>14. CASE ScanLook(t) \/ ScanSubmit(t)
  <2>1. flushed' = flushed /\ pc' = pc /\ at' = at /\ pos' = pos
    BY <1>14 DEF ScanLook, ScanSubmit, queueVars, callVars
  <2> QED BY <1>7, <2>1 DEF WalksOn
<1>15. CASE ScanDummy(t)
  <2>1. ~AtEnd(t) /\ pc[t] = "scan" /\ IsDummy(Current(t))
    BY <1>15 DEF ScanDummy, Scanning, Pushable
  <2> QED BY <1>9, <2>1
<1>16. CASE Settle(t)
  <2>1. pc[t] = "settle" /\ flushed' = flushed
    BY <1>16 DEF Settle, queueVars
  <2> QED BY <1>7, <2>1 DEF WalksOn
<1> QED BY <1>10, <1>11, <1>12, <1>13, <1>14, <1>15, <1>16 DEF Push

\* cleanEvents takes events out of the list while nobody walks it.
LEMMA PushedErase ==
  ASSUME Inductive, NEW t \in Thread, ThreadStep(t), EraseFinished(t), PushedInv
  PROVE  PushedInv'
<1>0. /\ TypeOK /\ FrameInv /\ ListInv /\ LockInv
      /\ list \in [Queue -> Seq(Event)] /\ pc[t] = "erase" /\ pc[t] \in InQueue /\ ~AtEnd(t)
  BY DEF Inductive, IInv, TypeOK, QueueTypes, EraseFinished, Erasing, InQueue
<1>1. at[t] \in Queue
  BY <1>0, AtQueue
<1>2. /\ flushed' = flushed /\ pc' = pc /\ at' = at /\ pos' = pos /\ status' = status
      /\ list' = [list EXCEPT ![at[t]] = RemoveAt(@, pos[t])]
  BY DEF EraseFinished, Erasing, eventVars, callVars
<1>3. ASSUME NEW q \in Queue, flushed[q], NEW i \in DOMAIN list'[q], status[list'[q][i]] = "Queued"
      PROVE  \E u \in Thread : pc[u] = "scan" /\ at[u] = q /\ pos[u] <= i
  <2>1. CASE q # at[t]
    <3>1. list'[q] = list[q]
      BY <1>0, <1>2, <2>1
    <3> QED BY <1>3, <3>1 DEF PushedInv
  <2>2. CASE q = at[t]
    <3>1. PICK s \in Seq(Event) : s = list[q]
      BY <1>0
    <3>2. PICK n \in 1..Len(s) : n = pos[t]
      BY <1>0, <1>1, <2>2, <3>1, CurrentInList
    <3>3. list'[q] = RemoveAt(s, n)
      BY <1>0, <1>2, <2>2, <3>1, <3>2
    <3>4. /\ RemoveAt(s, n) \in Seq(Event) /\ Len(RemoveAt(s, n)) = Len(s) - 1
          /\ \A j \in 1..(Len(s) - 1) : RemoveAt(s, n)[j] = IF j < n THEN s[j] ELSE s[j + 1]
      BY RemoveAtProperties
    <3>5. i \in 1..(Len(s) - 1)
      BY <1>3, <3>3, <3>4
    <3>6. PICK j \in 1..Len(s) : list'[q][i] = s[j]
      BY <3>3, <3>4, <3>5
    <3>7. PICK u \in Thread : pc[u] = "scan" /\ at[u] = q
      BY <1>3, <3>1, <3>6 DEF PushedInv
    <3>8. lock[q] = u /\ lock[q] = t
      BY <1>0, <2>2, <3>7 DEF LockInv
    <3> QED BY <1>0, <3>7, <3>8
  <2> QED BY <2>1, <2>2
<1> QED BY <1>2, <1>3 DEF PushedInv

\* A step keeps what p_flushed says, as long as nothing has failed and there are
\* no dummy events.
LEMMA PushedStep ==
  ASSUME Inductive, NEW t \in Thread, ThreadStep(t), PushedInv, ErrorInv, NoFailure,
         \A e \in issued : ~IsDummy(e)
  PROVE  PushedInv'
<1>0. /\ TypeOK /\ FrameInv
      /\ list \in [Queue -> Seq(Event)] /\ flushed \in [Queue -> BOOLEAN]
      /\ \A q \in Queue : errcode[q] = "SUCCESS"
  BY DEF Inductive, IInv, TypeOK, QueueTypes, ErrorInv
<1>1. \A q \in Queue : PushedAt(q)
  BY DEF PushedInv, PushedAt
<1>2. ASSUME list' = list, flushed' = flushed,
             pc[t] # "scan" \/ UNCHANGED <<pc, at, pos>>
      PROVE  PushedInv'
  <2>1. \A q \in Queue : WalksOn(t, q)
    BY <1>2 DEF WalksOn
  <2>2. \A q \in Queue : PushedAt(q)'
    BY <1>1, <1>2, <2>1, PushedKept
  <2> QED BY <2>2 DEF PushedInv, PushedAt
<1>3. CASE Push(t)
  BY <1>3, PushedWalk
<1>4. CASE Clean(t)
  <2>1. CASE EraseFinished(t)
    BY <2>1, PushedErase
  <2>2. CASE CleanLock(t) \/ EraseSkip(t) \/ EraseEnd(t) \/ Cleaned(t)
    BY <1>2, <2>2 DEF CleanLock, EraseSkip, EraseEnd, Cleaned, Erasing, queueVars
  <2> QED BY <1>4, <2>1, <2>2 DEF Clean
<1>5. CASE Start(t)
  BY <1>2, <1>5
     DEF Start, CreateUserEvent, Enqueue, FlushCall, FinishCall, WaitCall, SetUserCall, Begin, queueVars
<1>6. CASE QueueEvent(t)
  <2>1. pc[t] = "append" /\ at[t] \in Queue
    BY <1>0, <1>6, AtQueue DEF QueueEvent, InQueue
  <2>2. ASSUME NEW q \in Queue PROVE PushedAt(q)'
    <3>1. CASE q = at[t]
      BY <1>0, <1>6, <3>1 DEF QueueEvent, PushedAt
    <3>2. CASE q # at[t]
      <4>1. list'[q] = list[q] /\ flushed'[q] = flushed[q]
        BY <1>0, <1>6, <3>2 DEF QueueEvent
      <4> QED BY <1>1, <2>1, <4>1, PushedKept DEF WalksOn
    <3> QED BY <3>1, <3>2
  <2> QED BY <2>2 DEF PushedInv, PushedAt
<1>7. CASE InitFails(t) \/ FlushTest(t) \/ FlushWait(t) \/ FinishStore(t) \/ FinishCode(t) \/ FinishWait(t)
  BY <1>2, <1>7 DEF InitFails, FlushTest, FlushWait, FinishStore, FinishCode, FinishWait, queueVars
<1>8. ~FinishFails(t)
  BY <1>0, AtQueue DEF FinishFails, InQueue
<1>9. CASE (\E e \in Event : WaitCheck(t, e)) \/ WaitSpin(t) \/ SetUser(t) \/ FlushQueues(t)
  BY <1>2, <1>9 DEF WaitCheck, WaitSpin, SetUser, FlushQueues, queueVars
<1>10. CASE SpuriousWakeup(t)
  BY <1>2, <1>10 DEF SpuriousWakeup, localVars, callVars, loopVars
<1>11. CASE t = Worker /\ (WorkerGet \/ WorkerCompletes \/ WorkerFails)
  BY <1>2, <1>11 DEF WorkerGet, WorkerCompletes, WorkerFails, queueVars
<1> QED
  BY <1>3, <1>4, <1>5, <1>6, <1>7, <1>8, <1>9, <1>10, <1>11 DEF ThreadStep, Continue, Work

-----------------------------------------------------------------------------
(* The promises of flush and finish.                                         *)

\* When the host enqueues commands and no dummy events, as the programs do that
\* only use reads, writes, copies, maps and kernels.
NoDummyEvents == Kind \intersect DummyKinds \subseteq {"User"}

\* What follows of the queue when it is empty and nobody changes it.
LEMMA EmptyList ==
  ASSUME Inductive, OwedInv, NEW t \in Host, at[t] \in Queue, list[at[t]] = <<>>
  PROVE  \A e \in owed[t] : Finished(e)
<1>1. ASSUME NEW e \in owed[t], ~Finished(e) PROVE FALSE
  <2>1. e \in issued /\ home[e] = at[t]
    BY <1>1 DEF OwedInv
  <2>2. \E i \in DOMAIN list[at[t]] : list[at[t]][i] = e
    BY <1>1, <2>1 DEF Inductive, IInv, ListInv
  <2> QED BY <2>2
<1> QED BY <1>1

\* finish returns by its loop only with an empty list.
LEMMA FinishStep ==
  ASSUME Inductive, OwedInv, NEW t \in Thread, ThreadStep(t), NEW u \in Host,
         FinishReturns(u), pc[u] # "finishReturn"
  PROVE  \A e \in owed[u] : Finished(e)
<1>0. /\ TypeOK /\ FrameInv /\ LocalTypes /\ u \in Thread /\ pc \in [Thread -> Places]
      /\ pc[u] \in {"finishTest", "finishWait"} /\ pc'[u] = "idle"
  BY DEF Inductive, IInv, TypeOK, LocalTypes, FinishReturns, Thread
<1>1. u = t
  BY <1>0, OneThread DEF SameLocals
<1>2. ASSUME pc' = pc \/ \E p \in Places \ {"idle"} : Go(t, p) PROVE FALSE
  BY <1>0, <1>1, <1>2 DEF Go
<1>3. CASE FinishWait(t)
  <2>1. list[at[t]] = <<>> /\ at[t] \in Queue
    BY <1>0, <1>1, <1>2, <1>3, AtQueue DEF FinishWait, InQueue, Places
  <2> QED BY <1>1, <2>1, EmptyList
<1>4. ~FinishFails(t)
  BY <1>2 DEF FinishFails, Places
<1>5. ~SpuriousWakeup(t)
  BY <1>2 DEF SpuriousWakeup
<1>6. ~Start(t) /\ ~Push(t) /\ ~Clean(t)
  BY <1>0, <1>1
     DEF Start, CreateUserEvent, Enqueue, FlushCall, FinishCall, WaitCall, SetUserCall, Begin,
         Push, PushLock, ScanEnd, ScanLook, ScanDone, ScanBehind, ScanBusy, ScanSkip,
         ScanWaitForEvents, ScanSubmit, ScanDummy, Settle, Scanning, Clean, CleanLock,
         EraseFinished, EraseSkip, EraseEnd, Cleaned, Erasing
<1>7. /\ ~InitFails(t) /\ ~QueueEvent(t) /\ ~FlushTest(t) /\ ~FlushWait(t) /\ ~FinishStore(t)
      /\ ~FinishCode(t) /\ (\A e \in Event : ~WaitCheck(t, e)) /\ ~WaitSpin(t) /\ ~SetUser(t)
      /\ ~FlushQueues(t)
  BY <1>0, <1>1 DEF InitFails, QueueEvent, FlushTest, FlushWait, FinishStore, FinishCode, WaitCheck,
                    WaitSpin, SetUser, FlushQueues
<1> QED BY <1>1, <1>3, <1>4, <1>5, <1>6, <1>7, ConstantsOK DEF ThreadStep, Continue

\* flush returns only when its queue is flushed, as long as nothing has failed.
LEMMA FlushStep ==
  ASSUME Inductive, OwedInv, ErrorInv, PushedInv, NoFailure, NEW t \in Thread, ThreadStep(t),
         NEW u \in Host, FlushReturns(u)
  PROVE  \A e \in owed[u] : status[e] # "Queued"
<1>0. /\ TypeOK /\ FrameInv /\ LockInv /\ ListInv /\ u \in Thread /\ pc \in [Thread -> Places]
      /\ pc[u] \in {"flush", "flushWait"} /\ pc'[u] \notin {"flush", "flushWait"}
  BY DEF Inductive, IInv, TypeOK, LocalTypes, FlushReturns, Thread
<1>1. u = t
  BY <1>0, OneThread DEF SameLocals
<1>2. at[t] \in Queue /\ errcode[at[t]] = "SUCCESS"
  BY <1>0, <1>1, AtQueue DEF InQueue, ErrorInv
<1>3. CASE FlushWait(t)
  <2>1. flushed[at[t]] /\ lock[at[t]] = None
    BY <1>0, <1>1, <1>3 DEF FlushWait
  <2>2. ASSUME NEW e \in owed[t], status[e] = "Queued" PROVE FALSE
    <3>1. e \in issued /\ home[e] = at[t]
      BY <1>1, <2>2 DEF OwedInv
    <3>2. PICK i \in DOMAIN list[at[t]] : list[at[t]][i] = e
      BY <1>0, <1>2, <2>2, <3>1 DEF ListInv, Finished
    <3>3. PICK w \in Thread : pc[w] = "scan" /\ at[w] = at[t]
      BY <1>2, <2>1, <2>2, <3>2 DEF PushedInv
    <3>4. lock[at[t]] = w
      BY <1>0, <1>2, <3>3 DEF LockInv
    <3> QED BY <2>1, <3>4, ConstantsOK
  <2> QED BY <1>1, <2>2
<1>4. ~FlushTest(t)
  BY <1>0, <1>1, <1>2 DEF FlushTest, Go
<1>5. ~SpuriousWakeup(t)
  BY <1>0, <1>1 DEF SpuriousWakeup
<1>6. ~Start(t) /\ ~Push(t) /\ ~Clean(t)
  BY <1>0, <1>1
     DEF Start, CreateUserEvent, Enqueue, FlushCall, FinishCall, WaitCall, SetUserCall, Begin,
         Push, PushLock, ScanEnd, ScanLook, ScanDone, ScanBehind, ScanBusy, ScanSkip,
         ScanWaitForEvents, ScanSubmit, ScanDummy, Settle, Scanning, Clean, CleanLock,
         EraseFinished, EraseSkip, EraseEnd, Cleaned, Erasing
<1>7. /\ ~InitFails(t) /\ ~QueueEvent(t) /\ ~FinishStore(t) /\ ~FinishFails(t) /\ ~FinishWait(t)
      /\ ~FinishCode(t) /\ (\A e \in Event : ~WaitCheck(t, e)) /\ ~WaitSpin(t) /\ ~SetUser(t)
      /\ ~FlushQueues(t)
  BY <1>0, <1>1 DEF InitFails, QueueEvent, FinishStore, FinishFails, FinishWait, FinishCode,
                    WaitCheck, WaitSpin, SetUser, FlushQueues
<1> QED BY <1>1, <1>3, <1>4, <1>5, <1>6, <1>7, ConstantsOK DEF ThreadStep, Continue

\* The invariant of the promises, for every kind of event.
Promise == Inductive /\ OwedInv /\ ErrorInv /\ CreatedInv

\* A step that changes nothing keeps it.
LEMMA PromiseStutters ==
  ASSUME UNCHANGED vars
  PROVE  /\ Promise => Promise'
         /\ PushedInv => PushedInv'
         /\ NoFailure' = NoFailure
<1> USE DEF vars, eventVars, queueVars, localVars, callVars, loopVars, ghostVars
<1>1. OwedInv => OwedInv'
  BY DEF OwedInv
<1>2. ErrorInv => ErrorInv'
  BY DEF ErrorInv, NoFailure
<1>3. CreatedInv => CreatedInv'
  BY DEF CreatedInv
<1>4. PushedInv => PushedInv'
  BY DEF PushedInv
<1>5. NoFailure' = NoFailure
  BY DEF NoFailure
<1>6. Inductive => Inductive'
  BY StutterInductive
<1> QED BY <1>1, <1>2, <1>3, <1>4, <1>5, <1>6 DEF Promise

\* The promises rest on it in every reachable state.
LEMMA PromiseHolds == Spec => []Promise
<1>1. Init => Promise
  <2>1. ASSUME Init PROVE OwedInv /\ ErrorInv /\ CreatedInv
    BY <2>1 DEF Init, OwedInv, ErrorInv, CreatedInv
  <2> QED BY <2>1, InitInductive DEF Promise
<1>2. Promise /\ [Next]_vars => Promise'
  <2>1. ASSUME Promise, Next PROVE Promise'
    BY <2>1, NextIsThreadStep, StepInductive, OwedStep, ErrorStep, CreatedStep DEF Promise
  <2> QED BY <2>1, PromiseStutters
<1> QED BY <1>1, <1>2, PTL DEF Spec

\* Without dummy events, and until something fails, so does what p_flushed says.
LEMMA PushedHolds == NoDummyEvents => (Spec => [](Promise /\ (NoFailure => PushedInv)))
<1> SUFFICES ASSUME NoDummyEvents PROVE Spec => [](Promise /\ (NoFailure => PushedInv))
  OBVIOUS
<1>1. Init => (NoFailure => PushedInv)
  BY DEF Init, PushedInv
<1>2. ASSUME Promise, NoFailure => PushedInv, Next PROVE NoFailure' => PushedInv'
  <2>1. PICK t \in Thread : ThreadStep(t)
    BY <1>2, NextIsThreadStep
  <2>2. Inductive /\ ErrorInv /\ CreatedInv
    BY <1>2 DEF Promise
  <2>3. \A e \in issued : ~IsDummy(e)
    BY <2>2 DEF NoDummyEvents, CreatedInv, Inductive, IInv, EventInv, IsDummy, DummyKinds,
                TypeOK, GhostTypes
  <2> QED BY <1>2, <2>1, <2>2, <2>3, FailureStays, PushedStep
<1>3. UNCHANGED vars /\ (NoFailure => PushedInv) => (NoFailure' => PushedInv')
  BY PromiseStutters
<1>4. (NoFailure => PushedInv) /\ Promise /\ [Next]_vars => (NoFailure => PushedInv)'
  BY <1>2, <1>3
<1> QED BY <1>1, <1>4, PromiseHolds, PTL DEF Spec

\* When finish finds the list empty, whatever was in the queue when it was called
\* is over, whoever emptied the list and whatever failed (the loop of
\* CommandQueue::finish and cleanEvents).
THEOREM Finish_Empties == Spec => EmptyMeansFinished
<1>1. ASSUME Promise, Next, NEW t \in Host, FinishReturns(t), pc[t] # "finishReturn"
      PROVE  \A e \in owed[t] : Finished(e)
  BY <1>1, NextIsThreadStep, FinishStep DEF Promise
<1>2. Promise /\ [Next]_vars =>
        [\A t \in Host : FinishReturns(t) /\ pc[t] # "finishReturn" =>
           \A e \in owed[t] : Finished(e)]_vars
  BY <1>1
<1> QED BY <1>2, PromiseHolds, PTL DEF Spec, EmptyMeansFinished

\* When flush returns and nothing has failed, whatever was in the queue when it
\* was called is with the device, in a queue without dummy events
\* (CommandQueue::flush and p_flushed, which pushEventsOnDevice sets at its
\* beginning and takes back when it leaves an event behind).
THEOREM Flush_Pushes == NoDummyEvents => (Spec => FlushPushes)
<1> SUFFICES ASSUME NoDummyEvents PROVE Spec => FlushPushes
  OBVIOUS
<1>1. ASSUME Promise, NoFailure => PushedInv, Next, NEW t \in Host, FlushReturns(t), NoFailure
      PROVE  \A e \in owed[t] : IsDummy(e) \/ status[e] # "Queued"
  BY <1>1, NextIsThreadStep, FlushStep DEF Promise
<1>2. Promise /\ (NoFailure => PushedInv) /\ [Next]_vars =>
        [\A t \in Host : FlushReturns(t) /\ NoFailure =>
           \A e \in owed[t] : IsDummy(e) \/ status[e] # "Queued"]_vars
  BY <1>1
<1> QED BY <1>2, PushedHolds, PTL DEF Spec, FlushPushes
=============================================================================
