------------------------- MODULE CommandQueueSteps --------------------------
(***************************************************************************)
(* What every step of CommandQueue preserves.  First its types: a step of  *)
(* the program is a step of one thread (ThreadStep), and only a few actions*)
(* change the data the properties speak about (DataStep).  The types of    *)
(* clWaitForEvents' locals need two parts of the invariant: that an event a*)
(* thread works on exists (FrameInv), and that it has a queue (EventInv).  *)
(* Then each conjunct of the invariant of CommandQueueInv: for each there  *)
(* is a lemma ...Step.  What the threads that do not act do is settled     *)
(* once (OneThread), and so is what no step takes back (IssuedStable,      *)
(* UserStable, FinishedStable).                                            *)
(***************************************************************************)
EXTENDS CommandQueueInv, SequenceTheorems, TLAPS

\* list::erase: the events in front of the erased one stay, the others move up.
LEMMA RemoveAtProperties ==
  ASSUME NEW S, NEW s \in Seq(S), NEW i \in 1..Len(s)
  PROVE  /\ RemoveAt(s, i) \in Seq(S)
         /\ Len(RemoveAt(s, i)) = Len(s) - 1
         /\ \A j \in 1..(Len(s) - 1) : RemoveAt(s, i)[j] = IF j < i THEN s[j] ELSE s[j + 1]
<1> DEFINE l == SubSeq(s, 1, i - 1)
           r == SubSeq(s, i + 1, Len(s))
<1>1. l \in Seq(S) /\ Len(l) = i - 1 /\ \A j \in 1..(i - 1) : l[j] = s[j]
  OBVIOUS
<1>2. r \in Seq(S) /\ Len(r) = Len(s) - i /\ \A j \in 1..(Len(s) - i) : r[j] = s[i + j]
  OBVIOUS
<1> HIDE DEF l, r
<1>3. /\ l \o r \in Seq(S)
      /\ Len(l \o r) = Len(l) + Len(r)
      /\ \A j \in 1..(Len(l) + Len(r)) :
           (l \o r)[j] = IF j <= Len(l) THEN l[j] ELSE r[j - Len(l)]
  BY <1>1, <1>2, ConcatProperties
<1>4. RemoveAt(s, i) = l \o r
  BY DEF RemoveAt, l, r
<1>5. Len(s) \in Nat
  OBVIOUS
<1> HIDE DEF RemoveAt
<1>6. Len(RemoveAt(s, i)) = Len(s) - 1
  <2>1. Len(RemoveAt(s, i)) = Len(l) + Len(r)
    BY <1>3, <1>4
  <2>2. (i - 1) + (Len(s) - i) = Len(s) - 1
    BY <1>5
  <2> QED BY <2>1, <2>2, <1>1, <1>2
<1>7. ASSUME NEW j \in 1..(Len(s) - 1)
      PROVE  RemoveAt(s, i)[j] = IF j < i THEN s[j] ELSE s[j + 1]
  <2>1. RemoveAt(s, i)[j] = IF j <= i - 1 THEN l[j] ELSE r[j - (i - 1)]
    BY <1>1, <1>2, <1>3, <1>4, <1>5
  <2>2. CASE j < i
    BY <2>1, <2>2, <1>1, <1>5
  <2>3. CASE j >= i
    <3>1. j - (i - 1) \in 1..(Len(s) - i) /\ i + (j - (i - 1)) = j + 1
      BY <2>3, <1>5
    <3> QED BY <2>1, <2>3, <3>1, <1>2, <1>5
  <2> QED BY <2>2, <2>3, <1>5
<1> QED BY <1>3, <1>4, <1>6, <1>7

-----------------------------------------------------------------------------
(* Every step is a step of one thread; few of them change the data that the  *)
(* properties speak about.                                                   *)

ThreadStep(t) ==
  \/ t \in Host /\ (Start(t) \/ Continue(t) \/ SpuriousWakeup(t))
  \/ t = Worker /\ Work

\* Every step of the specification is a step of some thread.
LEMMA NextIsThreadStep == ASSUME Next PROVE \E t \in Thread : ThreadStep(t)
  BY DEF Next, ThreadStep, Thread

dataVars == <<eventVars, list, devq, issued, pred>>

DataStep(t) ==
  \/ t \in Host /\ \/ CreateUserEvent(t) \/ Enqueue(t) \/ InitFails(t)
                   \/ QueueEvent(t) \/ SetUser(t)
  \/ ScanSubmit(t) \/ Settle(t) \/ EraseFinished(t)
  \/ t = Worker /\ (WorkerGet \/ WorkerCompletes \/ WorkerFails)

\* The actions that change the events, the lists or the device.
LEMMA DataSteps ==
  ASSUME NEW t \in Thread, ThreadStep(t)
  PROVE  UNCHANGED dataVars \/ DataStep(t)
<1> DEFINE Quiet == UNCHANGED dataVars
<1> USE DEF dataVars, eventVars, queueVars, ghostVars
<1>1. Push(t) => Quiet \/ ScanSubmit(t) \/ Settle(t)
  BY DEF Push, PushLock, ScanEnd, ScanLook, ScanDone, ScanBehind, ScanBusy, LookAway, ScanSkip,
         ScanWaitForEvents, ScanDummy, Scanning, PushReturn
<1>2. Clean(t) => Quiet \/ EraseFinished(t)
  BY DEF Clean, CleanLock, EraseSkip, EraseEnd, Cleaned, Erasing
<1>3. Start(t) => Quiet \/ CreateUserEvent(t) \/ Enqueue(t)
  BY DEF Start, FlushCall, FinishCall, WaitCall, SetUserCall
<1>4. Continue(t) => Quiet \/ InitFails(t) \/ QueueEvent(t) \/ SetUser(t) \/ Push(t) \/ Clean(t)
  BY DEF Continue, FlushTest, FlushWait, FinishStore, FinishFails, FinishCode, FinishWait,
         WaitCheck, WaitSpin, FlushQueues
<1>5. SpuriousWakeup(t) => Quiet
  BY DEF SpuriousWakeup
<1> QED BY <1>1, <1>2, <1>3, <1>4, <1>5 DEF ThreadStep, DataStep, Work

\* The local variables stay well-typed when a thread leaves a function.
LEMMA ReturnType == ASSUME LocalTypes, NEW t \in Thread, Return(t) PROVE LocalTypes'
  BY DEF LocalTypes, Return, Go, Places

\* Resume keeps the types of the local variables.
LEMMA ResumeType == ASSUME LocalTypes, NEW t \in Thread, Resume(t) PROVE LocalTypes'
<1>1. CASE after[t] = "idle"
  BY <1>1, ReturnType DEF Resume
<1>2. CASE after[t] # "idle"
  <2>1. /\ pc' = [pc EXCEPT ![t] = after[t]]
        /\ pos' = [pos EXCEPT ![t] = 1]
        /\ first' = [first EXCEPT ![t] = TRUE]
        /\ dummy' = [dummy EXCEPT ![t] = None]
        /\ UNCHANGED <<after, at, ev, todo, goal, served>>
    BY <1>2 DEF Resume, Go, callVars, waitVars
  <2> QED BY <2>1 DEF LocalTypes
<1> QED BY <1>1, <1>2

\* The queue whose member function a thread runs, and the event at its iterator.
LEMMA AtQueue ==
  ASSUME FrameInv, NEW t \in Thread, pc[t] \in InQueue
  PROVE  at[t] \in Queue
<1>1. CASE t = Worker
  BY <1>1 DEF FrameInv, WorkerFrame, InQueue
<1>2. CASE t \in Host
  BY <1>2 DEF FrameInv, HostFrame
<1> QED BY <1>1, <1>2 DEF Thread

\* The event at the iterator of a loop is an element of the list.
LEMMA CurrentInList ==
  ASSUME TypeOK, NEW t \in Thread, at[t] \in Queue, ~AtEnd(t)
  PROVE  /\ pos[t] \in 1..Len(list[at[t]])
         /\ pos[t] \in DOMAIN list[at[t]]
         /\ Current(t) = list[at[t]][pos[t]]
         /\ Current(t) \in Event
<1>1. list[at[t]] \in Seq(Event) /\ pos[t] \in Nat \ {0}
  BY DEF TypeOK, QueueTypes, LocalTypes
<1> QED BY <1>1 DEF AtEnd, Current

\* A step keeps the types of the events.
LEMMA EventTypesStep == ASSUME TypeOK, FrameInv, Next PROVE EventTypes'
<1> USE DEF TypeOK, EventTypes, Statuses
<1>1. CASE UNCHANGED dataVars
  BY <1>1 DEF dataVars, eventVars
<1>2. ASSUME NEW t \in Host, CreateUserEvent(t) PROVE EventTypes'
  BY <1>2 DEF CreateUserEvent, Kinds, DummyKinds
<1>3. ASSUME NEW t \in Host, Enqueue(t) PROVE EventTypes'
  <2>1. PICK e \in Event, q \in Queue, k \in Kind, W \in SUBSET Event : Construct(e, q, k, W)
    BY <1>3 DEF Enqueue
  <2> QED BY <2>1, ConstantsOK DEF Construct
<1>4. ASSUME NEW t \in Host, InitFails(t) PROVE EventTypes'
  BY <1>4 DEF InitFails
<1>5. ASSUME NEW t \in Host, QueueEvent(t) PROVE EventTypes'
  BY <1>5 DEF QueueEvent, eventVars
<1>6. ASSUME NEW t \in Host, SetUser(t) PROVE EventTypes'
  BY <1>6 DEF SetUser
<1>7. ASSUME NEW t \in Thread, ScanSubmit(t) PROVE EventTypes'
  BY <1>7 DEF ScanSubmit
<1>8. ASSUME NEW t \in Thread, Settle(t) PROVE EventTypes'
  BY <1>8 DEF Settle
<1>9. ASSUME NEW t \in Thread, EraseFinished(t) PROVE EventTypes'
  BY <1>9 DEF EraseFinished, Erasing, eventVars
<1>10. CASE WorkerGet
  BY <1>10 DEF WorkerGet, eventVars
<1>11. CASE WorkerCompletes
  BY <1>11 DEF WorkerCompletes
<1>12. CASE WorkerFails
  BY <1>12 DEF WorkerFails
<1> QED
  BY <1>1, <1>2, <1>3, <1>4, <1>5, <1>6, <1>7, <1>8, <1>9, <1>10, <1>11, <1>12,
     NextIsThreadStep, DataSteps DEF DataStep

ListTypes == list \in [Queue -> Seq(Event)] /\ devq \in Seq(Event)

\* A step keeps the types of the queues' lists and of the device's list.
LEMMA ListTypesStep == ASSUME TypeOK, FrameInv, Next PROVE ListTypes'
<1> USE DEF ListTypes
<1>0. list \in [Queue -> Seq(Event)] /\ devq \in Seq(Event)
  BY DEF TypeOK, QueueTypes
<1>1. CASE UNCHANGED dataVars
  BY <1>0, <1>1 DEF dataVars
<1>2. ASSUME NEW t \in Host, CreateUserEvent(t) PROVE ListTypes'
  BY <1>0, <1>2 DEF CreateUserEvent, queueVars
<1>3. ASSUME NEW t \in Host, Enqueue(t) PROVE ListTypes'
  BY <1>0, <1>3 DEF Enqueue, queueVars
<1>4. ASSUME NEW t \in Host, InitFails(t) PROVE ListTypes'
  BY <1>0, <1>4 DEF InitFails, queueVars
<1>5. ASSUME NEW t \in Host, QueueEvent(t) PROVE ListTypes'
  <2>1. ev[t] \in Event /\ at[t] \in Queue
    BY <1>5, AtQueue DEF QueueEvent, FrameInv, HostFrame, InQueue, Thread
  <2> QED BY <1>0, <1>5, <2>1 DEF QueueEvent
<1>6. ASSUME NEW t \in Host, SetUser(t) PROVE ListTypes'
  BY <1>0, <1>6 DEF SetUser, queueVars
<1>7. ASSUME NEW t \in Thread, ScanSubmit(t) PROVE ListTypes'
  <2>1. Current(t) \in Event
    BY <1>7, AtQueue, CurrentInList DEF ScanSubmit, Scanning, Pushable, InQueue
  <2> QED BY <1>0, <1>7, <2>1 DEF ScanSubmit, queueVars
<1>8. ASSUME NEW t \in Thread, Settle(t) PROVE ListTypes'
  BY <1>0, <1>8 DEF Settle, queueVars
<1>9. ASSUME NEW t \in Thread, EraseFinished(t) PROVE ListTypes'
  <2>1. at[t] \in Queue /\ pos[t] \in 1..Len(list[at[t]])
    BY <1>9, AtQueue, CurrentInList DEF EraseFinished, Erasing, InQueue
  <2>2. RemoveAt(list[at[t]], pos[t]) \in Seq(Event)
    BY <1>0, <2>1, RemoveAtProperties
  <2> QED BY <1>0, <1>9, <2>1, <2>2 DEF EraseFinished, Erasing
<1>10. CASE WorkerGet
  BY <1>0, <1>10 DEF WorkerGet, queueVars
<1>11. CASE WorkerCompletes
  BY <1>0, <1>11 DEF WorkerCompletes, queueVars
<1>12. CASE WorkerFails
  BY <1>0, <1>12 DEF WorkerFails, queueVars
<1> QED
  BY <1>1, <1>2, <1>3, <1>4, <1>5, <1>6, <1>7, <1>8, <1>9, <1>10, <1>11, <1>12,
     NextIsThreadStep, DataSteps DEF DataStep

\* The other variables of the queues.
ControlTypes ==
  /\ flushed \in [Queue -> BOOLEAN]
  /\ errcode \in [Queue -> Results]
  /\ lock \in [Queue -> Thread \union {None}]
  /\ asleep \in [Queue -> SUBSET Host]

\* Leaving the loop keeps the types of the flags, the mutex and the sleepers.
LEMMA PushReturnControl ==
  ASSUME ControlTypes, NEW t \in Thread, NEW all \in BOOLEAN, PushReturn(t, all)
  PROVE  ControlTypes'
  BY DEF PushReturn, ControlTypes

\* A step keeps the types of p_flushed, errcode, the mutex and the sleepers.
LEMMA ControlTypesStep == ASSUME TypeOK, FrameInv, Next PROVE ControlTypes'
<1>0. ControlTypes
  BY DEF TypeOK, QueueTypes, ControlTypes
<1> DEFINE Same == UNCHANGED <<flushed, errcode, lock, asleep>>
<1>1. Same => ControlTypes'
  BY <1>0 DEF ControlTypes
<1>2. ASSUME NEW t \in Thread, Push(t) PROVE ControlTypes'
  <2>1. CASE PushLock(t)
    BY <1>0, <2>1 DEF PushLock, ControlTypes
  <2>2. CASE ScanEnd(t)
    <3>1. flushed[at[t]] \in BOOLEAN
      BY <1>0, <2>2, AtQueue DEF ScanEnd, Scanning, InQueue, ControlTypes
    <3> QED BY <1>0, <2>2, <3>1, PushReturnControl DEF ScanEnd
  <2>3. CASE ScanBehind(t)
    BY <1>0, <2>3, PushReturnControl DEF ScanBehind
  <2>4. CASE ScanWaitForEvents(t)
    BY <1>0, <2>4, PushReturnControl DEF ScanWaitForEvents
  <2>5. CASE ScanLook(t) \/ ScanDone(t) \/ ScanBusy(t) \/ ScanSubmit(t) \/ Settle(t)
    BY <1>1, <2>5 DEF ScanLook, ScanDone, ScanBusy, LookAway, ScanSubmit, Settle, queueVars
  <2>6. CASE ScanSkip(t)
    BY <1>0, <2>6 DEF ScanSkip, ControlTypes
  <2>7. CASE ScanDummy(t)
    BY <1>0, <2>7 DEF ScanDummy, ControlTypes
  <2> QED BY <1>2, <2>1, <2>2, <2>3, <2>4, <2>5, <2>6, <2>7 DEF Push
<1>3. ASSUME NEW t \in Thread, Clean(t) PROVE ControlTypes'
  <2>1. CASE CleanLock(t)
    BY <1>0, <2>1 DEF CleanLock, ControlTypes
  <2>2. CASE EraseFinished(t)
    BY <1>0, <2>2 DEF EraseFinished, Erasing, ControlTypes, Results
  <2>3. CASE EraseSkip(t)
    BY <1>1, <2>3 DEF EraseSkip, Erasing
  <2>4. CASE EraseEnd(t)
    BY <1>0, <2>4 DEF EraseEnd, Erasing, ControlTypes
  <2>5. CASE Cleaned(t)
    BY <1>1, <2>5 DEF Cleaned, queueVars
  <2> QED BY <1>3, <2>1, <2>2, <2>3, <2>4, <2>5 DEF Clean
<1>4. ASSUME NEW t \in Host, Start(t) PROVE ControlTypes'
  BY <1>1, <1>4 DEF Start, CreateUserEvent, Enqueue, FlushCall, FinishCall, WaitCall, SetUserCall,
                    queueVars
<1>5. ASSUME NEW t \in Host, Continue(t), ~Push(t), ~Clean(t) PROVE ControlTypes'
  <2>1. CASE InitFails(t) \/ FlushTest(t) \/ FinishCode(t) \/ WaitSpin(t) \/ SetUser(t)
             \/ FlushQueues(t) \/ \E e \in Event : WaitCheck(t, e)
    BY <1>1, <2>1 DEF InitFails, FlushTest, FinishCode, WaitSpin, SetUser, FlushQueues, WaitCheck,
                      queueVars
  <2>2. CASE QueueEvent(t)
    BY <1>0, <2>2 DEF QueueEvent, ControlTypes
  <2>3. CASE FlushWait(t)
    BY <1>0, <2>3 DEF FlushWait, ControlTypes
  <2>4. CASE FinishStore(t)
    BY <1>0, <2>4 DEF FinishStore, ControlTypes, Results
  <2>5. CASE FinishFails(t)
    BY <1>0, <2>5 DEF FinishFails, ControlTypes
  <2>6. CASE FinishWait(t)
    BY <1>0, <2>6 DEF FinishWait, ControlTypes
  <2> QED BY <1>5, <2>1, <2>2, <2>3, <2>4, <2>5, <2>6 DEF Continue
<1>6. ASSUME NEW t \in Host, SpuriousWakeup(t) PROVE ControlTypes'
  BY <1>0, <1>6 DEF SpuriousWakeup, ControlTypes
<1>7. CASE WorkerGet \/ WorkerCompletes \/ WorkerFails
  BY <1>1, <1>7 DEF WorkerGet, WorkerCompletes, WorkerFails, queueVars
<1> QED BY <1>2, <1>3, <1>4, <1>5, <1>6, <1>7 DEF Next, Work, Thread

\* A step keeps the types of the local variables.
LEMMA LocalTypesStep == ASSUME TypeOK, FrameInv, EventInv, Next PROVE LocalTypes'
<1>0. LocalTypes
  BY DEF TypeOK
<1>1. UNCHANGED <<pc, localVars>> => LocalTypes'
  BY <1>0 DEF LocalTypes, localVars, callVars, loopVars, waitVars
<1>2. ASSUME NEW t \in Thread, NEW p \in Places, pc' = [pc EXCEPT ![t] = p], UNCHANGED localVars
      PROVE  LocalTypes'
  BY <1>0, <1>2 DEF LocalTypes, localVars, callVars, loopVars, waitVars
<1>3. ASSUME NEW t \in Thread, Push(t) PROVE LocalTypes'
  <2>1. CASE PushLock(t)
    BY <1>2, <2>1 DEF PushLock, Go, Places
  <2>2. CASE ScanEnd(t) \/ ScanBehind(t) \/ ScanWaitForEvents(t)
    BY <1>0, <2>2, ResumeType DEF ScanEnd, ScanBehind, ScanWaitForEvents, PushReturn
  <2>3. CASE ScanDone(t)
    BY <1>0, <2>3 DEF ScanDone, Advance, LocalTypes, callVars, waitVars
  <2>4. CASE ScanBusy(t)
    BY <1>0, <2>4 DEF ScanBusy, LookAway, Advance, LocalTypes, callVars, waitVars
  <2>5. CASE ScanSkip(t)
    BY <1>0, <2>5 DEF ScanSkip, LookAway, Advance, LocalTypes, callVars, waitVars
  <2>6. CASE ScanSubmit(t)
    BY <1>0, <2>6 DEF ScanSubmit, LocalTypes, callVars, waitVars
  <2>7. CASE ScanDummy(t)
    <3>1. Current(t) \in Event
      BY <2>7, AtQueue, CurrentInList DEF ScanDummy, Scanning, Pushable, InQueue
    <3> QED BY <1>0, <2>7, <3>1 DEF ScanDummy, LocalTypes, callVars, waitVars, Go, Places
  <2>8. CASE Settle(t)
    BY <1>0, <2>8 DEF Settle, LocalTypes, callVars, waitVars, Go, Places
  <2>9. CASE ScanLook(t)
    <3>1. Current(t) \in Event
      BY <2>9, AtQueue, CurrentInList DEF ScanLook, Scanning, Pushable, InQueue
    <3> QED BY <1>0, <2>9, <3>1 DEF ScanLook, LocalTypes, callVars, waitVars
  <2> QED BY <1>3, <2>1, <2>2, <2>3, <2>4, <2>5, <2>6, <2>7, <2>8, <2>9 DEF Push
<1>4. ASSUME NEW t \in Thread, Clean(t) PROVE LocalTypes'
  <2>1. CASE CleanLock(t)
    BY <1>2, <2>1 DEF CleanLock, Go, Places
  <2>2. CASE EraseFinished(t)
    BY <1>1, <2>2 DEF EraseFinished, Erasing, localVars, callVars, loopVars, waitVars
  <2>3. CASE EraseSkip(t)
    BY <1>0, <2>3 DEF EraseSkip, Erasing, Advance, LocalTypes, callVars, waitVars
  <2>4. CASE EraseEnd(t)
    BY <1>0, <2>4 DEF EraseEnd, Erasing, LocalTypes, callVars, waitVars, Go, Places
  <2>5. CASE Cleaned(t)
    BY <1>0, <1>2, <2>5, ReturnType DEF Cleaned, Go, Places
  <2> QED BY <1>4, <2>1, <2>2, <2>3, <2>4, <2>5 DEF Clean
<1>5. ASSUME NEW t \in Host, Start(t) PROVE LocalTypes'
  <2> USE DEF Thread, Go, Places, callVars, loopVars, waitVars
  <2>1. CASE CreateUserEvent(t)
    BY <1>1, <2>1 DEF CreateUserEvent
  <2>2. CASE Enqueue(t)
    BY <1>0, <2>2 DEF Enqueue, LocalTypes
  <2>3. CASE FlushCall(t)
    BY <1>0, <2>3 DEF FlushCall, LocalTypes
  <2>4. CASE FinishCall(t)
    BY <1>0, <2>4 DEF FinishCall, LocalTypes
  <2>5. CASE WaitCall(t)
    BY <1>0, <2>5 DEF WaitCall, Handles, LocalTypes
  <2>6. CASE SetUserCall(t)
    BY <1>0, <2>6 DEF SetUserCall, LocalTypes
  <2> QED BY <1>5, <2>1, <2>2, <2>3, <2>4, <2>5, <2>6 DEF Start
<1>6. ASSUME NEW t \in Host, Continue(t), ~Push(t), ~Clean(t) PROVE LocalTypes'
  <2>0. t \in Thread
    BY DEF Thread
  <2>1. CASE InitFails(t) \/ WaitSpin(t) \/ FinishCode(t)
    BY <1>0, <2>0, <2>1, ReturnType DEF InitFails, WaitSpin, FinishCode, FinishReturn
  <2>2. CASE QueueEvent(t) \/ SetUser(t) \/ FinishStore(t) \/ FinishFails(t)
    BY <1>2, <2>0, <2>2 DEF QueueEvent, SetUser, FinishStore, FinishFails, Go, Places
  <2>3. CASE FlushTest(t)
    BY <1>0, <1>2, <2>0, <2>3, ResumeType DEF FlushTest, FlushReturn, Go, Places
  <2>4. CASE FlushWait(t)
    BY <1>0, <1>1, <2>0, <2>4, ResumeType DEF FlushWait, FlushReturn
  <2>5. CASE FinishWait(t)
    BY <1>0, <1>2, <2>0, <2>5, ReturnType DEF FinishWait, FinishReturn, Go, Places
  <2>6. ASSUME NEW e \in Event, WaitCheck(t, e) PROVE LocalTypes'
    <3>1. CASE status[e] = "Failed"
      BY <1>0, <2>0, <2>6, <3>1, ReturnType DEF WaitCheck
    <3>2. CASE status[e] # "Failed"
      <4>1. home[e] \in Queue
        BY <2>6 DEF WaitCheck, FrameInv, HostFrame, EventInv
      <4>2. /\ todo' = [todo EXCEPT ![t] = @ \ {e}]
            /\ UNCHANGED <<after, ev, dummy, pos, first, goal, served>>
            /\ UNCHANGED <<pc, at>> \/ /\ pc' = [pc EXCEPT ![t] = "flush"]
                                       /\ at' = [at EXCEPT ![t] = home[e]]
        BY <2>6, <3>2 DEF WaitCheck, Go, loopVars
      <4> QED BY <1>0, <2>0, <4>1, <4>2 DEF LocalTypes, Places
    <3> QED BY <3>1, <3>2
  <2>7. CASE FlushQueues(t)
    <3>1. CASE deps[ev[t]] \subseteq served[t] /\ Return(t)
      BY <1>0, <2>0, <3>1, ReturnType
    <3>2. CASE ~(deps[ev[t]] \subseteq served[t] /\ Return(t))
      <4>1. ev[t] \in Event /\ deps[ev[t]] \subseteq Queue
        BY <2>7 DEF FlushQueues, FrameInv, HostFrame, TypeOK, EventTypes
      <4> QED BY <1>0, <2>0, <2>7, <3>2, <4>1
              DEF FlushQueues, LocalTypes, Go, Places, loopVars
    <3> QED BY <3>1, <3>2
  <2> QED BY <1>6, <2>1, <2>2, <2>3, <2>4, <2>5, <2>6, <2>7 DEF Continue
<1>7. ASSUME NEW t \in Host, SpuriousWakeup(t) PROVE LocalTypes'
  BY <1>1, <1>7 DEF SpuriousWakeup
<1>8. CASE WorkerGet
  <2>1. Worker \in Thread /\ Head(devq) \in Event /\ home[Head(devq)] \in Queue \union {None}
    BY <1>8 DEF WorkerGet, TypeOK, QueueTypes, EventTypes, Thread
  <2> QED BY <1>0, <1>8, <2>1 DEF WorkerGet, LocalTypes, loopVars, waitVars, Go, Places
<1>9. CASE WorkerCompletes \/ WorkerFails
  BY <1>2, <1>9 DEF WorkerCompletes, WorkerFails, Go, Places, Thread
<1> QED BY <1>3, <1>4, <1>5, <1>6, <1>7, <1>8, <1>9 DEF Next, Work, Thread

\* A step keeps the types of the history variables.
LEMMA GhostTypesStep == ASSUME TypeOK, FrameInv, EventInv, Next PROVE GhostTypes'
<1>0. GhostTypes
  BY DEF TypeOK
<1>1. UNCHANGED <<calls, ghostVars>> => GhostTypes'
  BY <1>0 DEF GhostTypes, ghostVars
<1>2. ASSUME NEW t \in Host, NEW S \in SUBSET Event, owed' = [owed EXCEPT ![t] = S] \/ UNCHANGED owed,
             calls' = [calls EXCEPT ![t] = @ + 1] \/ UNCHANGED calls, UNCHANGED <<issued, pred>>
      PROVE  GhostTypes'
  BY <1>0, <1>2 DEF GhostTypes
<1>3. ASSUME NEW q \in Queue PROVE Elems(list[q]) \in SUBSET Event
  BY DEF TypeOK, QueueTypes, Elems
<1>4. ASSUME NEW t \in Thread, Push(t) PROVE GhostTypes'
  BY <1>1, <1>4 DEF Push, PushLock, ScanEnd, ScanLook, ScanDone, ScanBehind, ScanBusy, LookAway, ScanSkip,
                    ScanWaitForEvents, ScanSubmit, ScanDummy, Settle, Scanning
<1>5. ASSUME NEW t \in Thread, Clean(t) PROVE GhostTypes'
  BY <1>1, <1>5 DEF Clean, CleanLock, EraseFinished, EraseSkip, EraseEnd, Cleaned, Erasing
<1>6. ASSUME NEW t \in Host, Start(t) PROVE GhostTypes'
  <2>1. CASE CreateUserEvent(t) \/ Enqueue(t) \/ WaitCall(t) \/ SetUserCall(t)
    BY <1>2, <2>1 DEF CreateUserEvent, Enqueue, WaitCall, SetUserCall, Begin, ghostVars
  <2>2. CASE FlushCall(t) \/ FinishCall(t)
    BY <1>2, <1>3, <2>2 DEF FlushCall, FinishCall, Begin
  <2> QED BY <1>6, <2>1, <2>2 DEF Start
<1>7. ASSUME NEW t \in Host, Continue(t), ~Push(t), ~Clean(t) PROVE GhostTypes'
  <2>1. CASE InitFails(t) \/ FinishStore(t) \/ FinishFails(t) \/ WaitSpin(t) \/ SetUser(t) \/ FlushQueues(t)
    BY <1>1, <2>1 DEF InitFails, FinishStore, FinishFails, WaitSpin, SetUser, FlushQueues
  <2>2. CASE QueueEvent(t)
    <3>1. ev[t] \in Event
      BY <2>2 DEF QueueEvent, FrameInv, HostFrame
    <3> QED BY <1>0, <2>2, <3>1 DEF QueueEvent, GhostTypes
  <2>3. CASE FlushTest(t) \/ FlushWait(t) \/ FinishCode(t) \/ FinishWait(t)
    BY <1>2, <2>3 DEF FlushTest, FlushWait, FinishCode, FinishWait, FlushReturn, FinishReturn
  <2>4. ASSUME NEW e \in Event, WaitCheck(t, e) PROVE GhostTypes'
    <3>1. home[e] \in Queue
      BY <2>4 DEF WaitCheck, FrameInv, HostFrame, EventInv
    <3> QED BY <1>2, <1>3, <2>4, <3>1 DEF WaitCheck
  <2> QED BY <1>7, <2>1, <2>2, <2>3, <2>4 DEF Continue
<1>8. ASSUME NEW t \in Host, SpuriousWakeup(t) PROVE GhostTypes'
  BY <1>1, <1>8 DEF SpuriousWakeup
<1>9. CASE WorkerGet \/ WorkerCompletes \/ WorkerFails
  BY <1>1, <1>9 DEF WorkerGet, WorkerCompletes, WorkerFails
<1> QED BY <1>4, <1>5, <1>6, <1>7, <1>8, <1>9 DEF Next, Work, Thread

\* A step keeps every type.
LEMMA TypeStep == ASSUME TypeOK, FrameInv, EventInv, Next PROVE TypeOK'
  BY EventTypesStep, ListTypesStep, ControlTypesStep, LocalTypesStep, GhostTypesStep
     DEF TypeOK, QueueTypes, ListTypes, ControlTypes

-----------------------------------------------------------------------------
(* A step of one thread leaves the local variables of the others alone.      *)

SameLocals(u) ==
  /\ pc'[u] = pc[u] /\ after'[u] = after[u] /\ at'[u] = at[u] /\ ev'[u] = ev[u]
  /\ dummy'[u] = dummy[u] /\ pos'[u] = pos[u] /\ first'[u] = first[u] /\ todo'[u] = todo[u]

\* A step that changes no local variable.
LEMMA SamePlace ==
  ASSUME UNCHANGED <<pc, localVars>>, NEW u PROVE SameLocals(u)
  BY DEF SameLocals, localVars, callVars, loopVars, waitVars

\* A thread that only moves on disturbs nobody else.
LEMMA GoOthers ==
  ASSUME LocalTypes, NEW t \in Thread, NEW u \in Thread \ {t}, NEW p, Go(t, p), UNCHANGED localVars
  PROVE  SameLocals(u)
  BY DEF SameLocals, LocalTypes, Go, localVars, callVars, loopVars, waitVars

\* A thread that returns disturbs nobody else.
LEMMA ReturnOthers ==
  ASSUME LocalTypes, NEW t \in Thread, NEW u \in Thread \ {t}, Return(t) PROVE SameLocals(u)
  BY DEF SameLocals, LocalTypes, Return, Go

\* A thread that resumes its caller disturbs nobody else.
LEMMA ResumeOthers ==
  ASSUME LocalTypes, NEW t \in Thread, NEW u \in Thread \ {t}, Resume(t) PROVE SameLocals(u)
<1>1. CASE Return(t)
  BY <1>1, ReturnOthers
<1>2. CASE ~Return(t)
  BY <1>2 DEF SameLocals, LocalTypes, Resume, Go, callVars, waitVars
<1> QED BY <1>1, <1>2

\* A step of one thread leaves the local variables of the others alone.
LEMMA OneThread ==
  ASSUME TypeOK, NEW t \in Thread, ThreadStep(t), NEW u \in Thread \ {t}
  PROVE  SameLocals(u)
<1>0. LocalTypes
  BY DEF TypeOK
<1>1. CASE Push(t)
  <2>1. CASE PushLock(t)
    BY <1>0, <2>1, GoOthers DEF PushLock
  <2>2. CASE ScanEnd(t) \/ ScanBehind(t) \/ ScanWaitForEvents(t)
    BY <1>0, <2>2, ResumeOthers DEF ScanEnd, ScanBehind, ScanWaitForEvents, PushReturn
  <2>3. CASE ScanLook(t) \/ ScanDone(t) \/ ScanBusy(t) \/ ScanSkip(t) \/ ScanSubmit(t)
    BY <1>0, <2>3 DEF ScanLook, ScanDone, ScanBusy, LookAway, ScanSkip, ScanSubmit, Advance, LocalTypes, SameLocals,
                      callVars, waitVars
  <2>4. CASE ScanDummy(t) \/ Settle(t)
    BY <1>0, <2>4 DEF ScanDummy, Settle, Go, LocalTypes, SameLocals, callVars, waitVars
  <2> QED BY <1>1, <2>1, <2>2, <2>3, <2>4 DEF Push
<1>2. CASE Clean(t)
  <2>1. CASE CleanLock(t)
    BY <1>0, <2>1, GoOthers DEF CleanLock
  <2>2. CASE EraseFinished(t) \/ EraseSkip(t) \/ EraseEnd(t)
    BY <1>0, <2>2 DEF EraseFinished, EraseSkip, EraseEnd, Erasing, Advance, Go, LocalTypes,
                      SameLocals, callVars, waitVars
  <2>3. CASE Cleaned(t)
    BY <1>0, <2>3, GoOthers, ReturnOthers DEF Cleaned
  <2> QED BY <1>2, <2>1, <2>2, <2>3 DEF Clean
<1>3. CASE Start(t)
  BY <1>0, <1>3 DEF Start, CreateUserEvent, Enqueue, FlushCall, FinishCall, WaitCall, SetUserCall,
                    Go, LocalTypes, SameLocals, localVars, callVars, loopVars, waitVars
<1>4. CASE Continue(t) /\ ~Push(t) /\ ~Clean(t)
  <2>1. CASE InitFails(t) \/ WaitSpin(t) \/ FinishCode(t)
    BY <1>0, <2>1, ReturnOthers DEF InitFails, WaitSpin, FinishCode, FinishReturn
  <2>2. CASE QueueEvent(t) \/ SetUser(t) \/ FinishStore(t) \/ FinishFails(t)
    BY <1>0, <2>2, GoOthers DEF QueueEvent, SetUser, FinishStore, FinishFails
  <2>3. CASE FlushTest(t) \/ FlushWait(t) \/ FinishWait(t)
    BY <1>0, <2>3, GoOthers, SamePlace, ReturnOthers, ResumeOthers
       DEF FlushTest, FlushWait, FinishWait, FlushReturn, FinishReturn
  <2>4. ASSUME NEW e \in Event, WaitCheck(t, e) PROVE SameLocals(u)
    <3>1. CASE Return(t)
      BY <1>0, <3>1, ReturnOthers
    <3>2. CASE ~Return(t)
      BY <1>0, <2>4, <3>2 DEF WaitCheck, Go, LocalTypes, SameLocals, loopVars
    <3> QED BY <3>1, <3>2
  <2>5. CASE FlushQueues(t)
    <3>1. CASE Return(t)
      BY <1>0, <3>1, ReturnOthers
    <3>2. CASE ~Return(t)
      BY <1>0, <2>5, <3>2 DEF FlushQueues, Go, LocalTypes, SameLocals, loopVars
    <3> QED BY <3>1, <3>2
  <2> QED BY <1>4, <2>1, <2>2, <2>3, <2>4, <2>5 DEF Continue
<1>5. CASE SpuriousWakeup(t)
  BY <1>5, SamePlace DEF SpuriousWakeup
<1>6. CASE t = Worker /\ (WorkerGet \/ WorkerCompletes \/ WorkerFails)
  BY <1>0, <1>6 DEF WorkerGet, WorkerCompletes, WorkerFails, Go, LocalTypes, SameLocals,
                    localVars, callVars, loopVars, waitVars
<1> QED BY <1>1, <1>2, <1>3, <1>4, <1>5, <1>6 DEF ThreadStep, Work

-----------------------------------------------------------------------------
(* The mutex.                                                                *)

Locking == {"scan", "erase"}

\* Taking the mutex on entering a loop keeps LockInv.
LEMMA Acquire ==
  ASSUME LockInv, TypeOK, NEW t \in Thread, at[t] \in Queue, lock[at[t]] = None,
         lock' = [lock EXCEPT ![at[t]] = t], pc'[t] \in Locking, at'[t] = at[t],
         pc[t] \notin Locking, \A u \in Thread \ {t} : SameLocals(u)
  PROVE  LockInv'
<1>1. lock \in [Queue -> Thread \union {None}] /\ None \notin Thread
  BY ConstantsOK DEF TypeOK, QueueTypes
<1>2. ASSUME NEW u \in Thread, NEW q \in Queue
      PROVE  lock'[q] = u <=> pc'[u] \in Locking /\ at'[u] = q
  <2>1. lock[q] = u <=> pc[u] \in Locking /\ at[u] = q
    BY DEF LockInv, Locking
  <2>2. lock[at[t]] = t <=> pc[t] \in Locking
    BY DEF LockInv, Locking
  <2>3. CASE u = t
    BY <1>1, <2>1, <2>2, <2>3
  <2>4. CASE u # t
    <3>1. pc'[u] = pc[u] /\ at'[u] = at[u]
      BY <2>4 DEF SameLocals
    <3> QED BY <1>1, <2>1, <2>2, <2>4, <3>1
  <2> QED BY <2>3, <2>4
<1> QED BY <1>2 DEF LockInv, Locking

\* Releasing the mutex on leaving a loop keeps LockInv.
LEMMA Release ==
  ASSUME LockInv, TypeOK, NEW t \in Thread, at[t] \in Queue, pc[t] \in Locking,
         lock' = [lock EXCEPT ![at[t]] = None], pc'[t] \notin Locking,
         \A u \in Thread \ {t} : SameLocals(u)
  PROVE  LockInv'
<1>1. lock \in [Queue -> Thread \union {None}] /\ None \notin Thread
  BY ConstantsOK DEF TypeOK, QueueTypes
<1>2. ASSUME NEW u \in Thread, NEW q \in Queue
      PROVE  lock'[q] = u <=> pc'[u] \in Locking /\ at'[u] = q
  <2>1. lock[q] = u <=> pc[u] \in Locking /\ at[u] = q
    BY DEF LockInv, Locking
  <2>2. lock[at[t]] = t <=> pc[t] \in Locking
    BY DEF LockInv, Locking
  <2>3. CASE u = t
    BY <1>1, <2>1, <2>2, <2>3
  <2>4. CASE u # t
    <3>1. pc'[u] = pc[u] /\ at'[u] = at[u]
      BY <2>4 DEF SameLocals
    <3> QED BY <1>1, <2>1, <2>2, <2>4, <3>1
  <2> QED BY <2>3, <2>4
<1> QED BY <1>2 DEF LockInv, Locking

\* A step outside of the two loops, or within one, keeps LockInv.
LEMMA KeepsLock ==
  ASSUME LockInv, NEW t \in Thread, lock' = lock,
         \/ pc'[t] = pc[t] /\ at'[t] = at[t]
         \/ pc[t] \notin Locking /\ pc'[t] \notin Locking,
         \A u \in Thread \ {t} : SameLocals(u)
  PROVE  LockInv'
  BY DEF LockInv, SameLocals, Locking

\* Where Return and Resume leave the thread.
LEMMA ReturnPlace ==
  ASSUME LocalTypes, NEW t \in Thread, Return(t)
  PROVE  /\ pc'[t] = "idle" /\ after'[t] = "idle" /\ at'[t] = None /\ ev'[t] = None
         /\ todo'[t] = {}
  BY DEF Return, Go, LocalTypes

\* Where Resume leaves the thread.
LEMMA ResumePlace ==
  ASSUME LocalTypes, NEW t \in Thread, Resume(t)
  PROVE  /\ pc'[t] = after[t]
         /\ \/ Return(t)
            \/ after[t] # "idle" /\ after'[t] = after[t] /\ at'[t] = at[t] /\ ev'[t] = ev[t]
                 /\ todo'[t] = todo[t]
<1>1. CASE Return(t)
  BY <1>1, ReturnPlace DEF Resume, Go, LocalTypes
<1>2. CASE ~Return(t)
  BY <1>2 DEF Resume, Go, LocalTypes, callVars, waitVars
<1> QED BY <1>1, <1>2

\* The worker always resumes cleanEvents, a host thread never a loop.
LEMMA AfterPlace ==
  ASSUME FrameInv, NEW t \in Thread, pc[t] # "idle"
  PROVE  IF t = Worker THEN after[t] = "clean" ELSE after[t] \in {"idle", "wait", "flushQueues"}
  BY ConstantsOK DEF FrameInv, HostFrame, WorkerFrame, Thread

\* A step keeps the mutex and the places of the threads in agreement.
LEMMA LockStep ==
  ASSUME TypeOK, FrameInv, LockInv, NEW t \in Thread, ThreadStep(t)
  PROVE  LockInv'
<1>1. \A u \in Thread \ {t} : SameLocals(u)
  BY OneThread
<1>2. LocalTypes /\ pc \in [Thread -> Places] /\ at \in [Thread -> Queue \union {None}]
  BY DEF TypeOK, LocalTypes
<1>3. pc[t] # "idle" => after[t] \notin Locking
  BY AfterPlace DEF Locking
<1>4. pc[t] \in InQueue => at[t] \in Queue
  BY AtQueue
<1> USE DEF Locking, Go
<1>5. CASE Push(t)
  <2>1. CASE PushLock(t)
    BY <1>1, <1>2, <1>4, <2>1, Acquire DEF PushLock, InQueue, localVars, callVars
  <2>2. CASE ScanEnd(t) \/ ScanBehind(t) \/ ScanWaitForEvents(t)
    <3>1. pc[t] = "scan" /\ Resume(t) /\ lock' = [lock EXCEPT ![at[t]] = None]
      BY <2>2 DEF ScanEnd, ScanBehind, ScanWaitForEvents, PushReturn, Scanning
    <3> QED BY <1>1, <1>2, <1>3, <1>4, <3>1, ResumePlace, Release DEF InQueue
  <2>3. CASE ScanLook(t) \/ ScanDone(t) \/ ScanBusy(t) \/ ScanSkip(t) \/ ScanSubmit(t)
    BY <1>1, <1>2, <2>3, KeepsLock DEF ScanLook, ScanDone, ScanBusy, LookAway, ScanSkip, ScanSubmit, queueVars, callVars
  <2>4. CASE ScanDummy(t)
    BY <1>1, <1>2, <1>4, <2>4, Release DEF ScanDummy, Scanning, InQueue
  <2>5. CASE Settle(t)
    BY <1>1, <1>2, <2>5, KeepsLock DEF Settle, queueVars
  <2> QED BY <1>5, <2>1, <2>2, <2>3, <2>4, <2>5 DEF Push
<1>6. CASE Clean(t)
  <2>1. CASE CleanLock(t)
    BY <1>1, <1>2, <1>4, <2>1, Acquire DEF CleanLock, InQueue, localVars, callVars
  <2>2. CASE EraseFinished(t) \/ EraseSkip(t)
    BY <1>1, <1>2, <2>2, KeepsLock DEF EraseFinished, EraseSkip, Erasing, callVars
  <2>3. CASE EraseEnd(t)
    BY <1>1, <1>2, <1>4, <2>3, Release DEF EraseEnd, Erasing, InQueue
  <2>4. CASE Cleaned(t)
    BY <1>1, <1>2, <2>4, ReturnPlace, KeepsLock DEF Cleaned, queueVars
  <2> QED BY <1>6, <2>1, <2>2, <2>3, <2>4 DEF Clean
<1>7. CASE Start(t)
  <2>1. CASE CreateUserEvent(t)
    BY <1>1, <2>1, KeepsLock DEF CreateUserEvent, queueVars, localVars, callVars
  <2>2. CASE ~CreateUserEvent(t)
    <3>1. pc[t] = "idle" /\ lock' = lock /\ pc'[t] \notin Locking
      BY <1>2, <1>7, <2>2 DEF Start, Enqueue, FlushCall, FinishCall, WaitCall, SetUserCall,
                               Begin, queueVars
    <3> QED BY <1>1, <3>1, KeepsLock
  <2> QED BY <2>1, <2>2
<1>8. CASE Continue(t) /\ ~Push(t) /\ ~Clean(t)
  <2>1. pc[t] \notin Locking /\ lock' = lock
    BY <1>8 DEF Continue, InitFails, QueueEvent, FlushTest, FlushWait, FinishStore, FinishFails,
                FinishCode, FinishWait, WaitCheck, WaitSpin, SetUser, FlushQueues, queueVars
  <2>2. pc'[t] \notin Locking
    <3>1. CASE InitFails(t) \/ WaitSpin(t) \/ FinishCode(t)
      BY <1>2, <3>1, ReturnPlace DEF InitFails, WaitSpin, FinishCode, FinishReturn
    <3>2. CASE QueueEvent(t) \/ SetUser(t) \/ FinishStore(t) \/ FinishFails(t)
      BY <1>2, <3>2 DEF QueueEvent, SetUser, FinishStore, FinishFails
    <3>3. CASE FlushTest(t) \/ FlushWait(t)
      BY <1>2, <1>3, <3>3, ResumePlace DEF FlushTest, FlushWait, FlushReturn
    <3>4. CASE FinishWait(t)
      BY <1>2, <3>4, ReturnPlace DEF FinishWait, FinishReturn
    <3>5. CASE (\E e \in Event : WaitCheck(t, e)) \/ FlushQueues(t)
      BY <1>2, <3>5, ReturnPlace DEF WaitCheck, FlushQueues
    <3> QED BY <1>8, <3>1, <3>2, <3>3, <3>4, <3>5 DEF Continue
  <2> QED BY <1>1, <2>1, <2>2, KeepsLock
<1>9. CASE SpuriousWakeup(t)
  BY <1>1, <1>9, KeepsLock DEF SpuriousWakeup, localVars, callVars
<1>10. CASE t = Worker /\ (WorkerGet \/ WorkerCompletes \/ WorkerFails)
  BY <1>1, <1>2, <1>10, KeepsLock DEF WorkerGet, WorkerCompletes, WorkerFails, queueVars
<1> QED BY <1>5, <1>6, <1>7, <1>8, <1>9, <1>10 DEF ThreadStep, Work

-----------------------------------------------------------------------------
(* What no step takes back: an issued event keeps its kind, queue, wait list *)
(* and predecessors, and a finished one its status.                          *)

\* The event that an action of the queue or of the worker works on is issued.
LEMMA CurrentIssued ==
  ASSUME TypeOK, FrameInv, ListInv, NEW t \in Thread, pc[t] \in {"scan", "erase"}, ~AtEnd(t)
  PROVE  Current(t) \in issued /\ at[t] \in Queue /\ home[Current(t)] = at[t]
<1>1. at[t] \in Queue
  BY AtQueue DEF InQueue
<1> QED BY <1>1, CurrentInList DEF ListInv

\* What the worker executes was submitted.
LEMMA WorkerEvent ==
  ASSUME FrameInv, pc[Worker] = "run"
  PROVE  /\ ev[Worker] \in issued /\ status[ev[Worker]] = "Submitted"
         /\ kind[ev[Worker]] \in DeviceKinds /\ at[Worker] = home[ev[Worker]]
  BY DEF FrameInv, WorkerFrame

\* An issued event keeps its kind, queue, wait list and predecessors, and its final status.
LEMMA IssuedStable ==
  ASSUME TypeOK, FrameInv, EventInv, SettleInv, NEW t \in Thread, ThreadStep(t), NEW e \in issued
  PROVE  /\ e \in issued'
         /\ kind'[e] = kind[e] /\ home'[e] = home[e] /\ waits'[e] = waits[e] /\ pred'[e] = pred[e]
         /\ Finished(e) => status'[e] = status[e]
<1>0. /\ e \in Event /\ status[e] # "None" /\ kind[e] # "User"
      /\ status \in [Event -> Statuses] /\ kind \in [Event -> Kinds]
      /\ home \in [Event -> Queue \union {None}] /\ waits \in [Event -> SUBSET Event]
      /\ pred \in [Event -> SUBSET Event]
  BY DEF TypeOK, EventTypes, GhostTypes, EventInv
<1> USE DEF Finished
<1>1. CASE UNCHANGED dataVars
  BY <1>1 DEF dataVars, eventVars
<1>2. CASE t \in Host /\ CreateUserEvent(t)
  BY <1>0, <1>2 DEF CreateUserEvent, Fresh, ghostVars
<1>3. CASE t \in Host /\ Enqueue(t)
  <2>1. PICK d \in Event, q \in Queue, k \in Kind, W \in SUBSET Event : Construct(d, q, k, W)
    BY <1>3 DEF Enqueue
  <2> QED BY <1>0, <1>3, <2>1 DEF Construct, Fresh, Enqueue, ghostVars
<1>4. CASE t \in Host /\ InitFails(t)
  <2>1. ev[t] \notin issued
    BY <1>4 DEF InitFails, FrameInv, HostFrame
  <2> QED BY <1>0, <1>4, <2>1 DEF InitFails, ghostVars
<1>5. CASE t \in Host /\ QueueEvent(t)
  <2>1. ev[t] \notin issued
    BY <1>5 DEF QueueEvent, FrameInv, HostFrame
  <2> QED BY <1>0, <1>5, <2>1 DEF QueueEvent, eventVars
<1>6. CASE t \in Host /\ SetUser(t)
  <2>1. kind[ev[t]] = "User"
    BY <1>6 DEF SetUser, FrameInv, HostFrame
  <2> QED BY <1>0, <1>6, <2>1 DEF SetUser, ghostVars
<1>7. CASE ScanSubmit(t)
  BY <1>0, <1>7 DEF ScanSubmit, Pushable, Scanning, ghostVars
<1>8. CASE Settle(t)
  <2>1. dummy[t] \in issued /\ status[dummy[t]] \in {"Queued", "Complete"}
    BY <1>8 DEF Settle, SettleInv, EventInv, IsDummy, TypeOK, GhostTypes
  <2> QED BY <1>0, <1>8, <2>1 DEF Settle, ghostVars
<1>9. CASE EraseFinished(t)
  BY <1>9 DEF EraseFinished, Erasing, eventVars, ghostVars
<1>10. CASE WorkerGet
  BY <1>10 DEF WorkerGet, eventVars, ghostVars
<1>11. CASE WorkerCompletes
  BY <1>0, <1>11, WorkerEvent DEF WorkerCompletes, ghostVars
<1>12. CASE WorkerFails
  BY <1>0, <1>12, WorkerEvent DEF WorkerFails, ghostVars
<1> QED
  BY <1>1, <1>2, <1>3, <1>4, <1>5, <1>6, <1>7, <1>8, <1>9, <1>10, <1>11, <1>12, DataSteps
     DEF DataStep

\* A user event stays one, and stays complete.
LEMMA UserStable ==
  ASSUME TypeOK, FrameInv, EventInv, ListInv, SettleInv, NEW t \in Thread, ThreadStep(t),
         NEW e \in Event, status[e] # "None", kind[e] = "User"
  PROVE  /\ status'[e] # "None" /\ kind'[e] = "User"
         /\ status[e] = "Complete" => status'[e] = "Complete"
<1>0. /\ e \notin issued
      /\ status \in [Event -> Statuses] /\ kind \in [Event -> Kinds]
  BY DEF TypeOK, EventTypes, EventInv
<1>1. CASE UNCHANGED dataVars
  BY <1>1 DEF dataVars, eventVars
<1>2. CASE t \in Host /\ CreateUserEvent(t)
  BY <1>0, <1>2 DEF CreateUserEvent, Fresh
<1>3. CASE t \in Host /\ Enqueue(t)
  <2>1. PICK d \in Event, q \in Queue, k \in Kind, W \in SUBSET Event : Construct(d, q, k, W)
    BY <1>3 DEF Enqueue
  <2> QED BY <1>0, <2>1 DEF Construct, Fresh
<1>4. CASE t \in Host /\ InitFails(t)
  BY <1>0, <1>4 DEF InitFails
<1>5. CASE t \in Host /\ QueueEvent(t)
  BY <1>5 DEF QueueEvent, eventVars
<1>6. CASE t \in Host /\ SetUser(t)
  BY <1>0, <1>6 DEF SetUser
<1>7. CASE ScanSubmit(t)
  BY <1>0, <1>7, CurrentIssued DEF ScanSubmit, Pushable, Scanning
<1>8. CASE Settle(t)
  BY <1>0, <1>8 DEF Settle, SettleInv
<1>9. CASE EraseFinished(t)
  BY <1>9 DEF EraseFinished, Erasing, eventVars
<1>10. CASE WorkerGet
  BY <1>10 DEF WorkerGet, eventVars
<1>11. CASE WorkerCompletes
  BY <1>0, <1>11 DEF WorkerCompletes
<1>12. CASE WorkerFails
  BY <1>0, <1>12, WorkerEvent DEF WorkerFails
<1> QED
  BY <1>1, <1>2, <1>3, <1>4, <1>5, <1>6, <1>7, <1>8, <1>9, <1>10, <1>11, <1>12, DataSteps
     DEF DataStep

\* An event another thread is about to queue.
LEMMA PrivateStable ==
  ASSUME TypeOK, FrameInv, EventInv, AppendInv, ListInv, SettleInv,
         NEW t \in Thread, ThreadStep(t),
         NEW u \in Host \ {t}, pc[u] = "append", NEW e, e = ev[u]
  PROVE  /\ e \notin issued' /\ status'[e] = "Queued"
         /\ kind'[e] = kind[e] /\ home'[e] = home[e]
<1>0. /\ e \in Event /\ e \notin issued /\ status[e] = "Queued" /\ kind[e] # "User"
      /\ status \in [Event -> Statuses] /\ kind \in [Event -> Kinds]
      /\ home \in [Event -> Queue \union {None}]
  BY DEF TypeOK, EventTypes, FrameInv, HostFrame
<1>1. CASE UNCHANGED dataVars
  BY <1>0, <1>1 DEF dataVars, eventVars
<1>2. CASE t \in Host /\ CreateUserEvent(t)
  BY <1>0, <1>2 DEF CreateUserEvent, Fresh, ghostVars
<1>3. CASE t \in Host /\ Enqueue(t)
  <2>1. PICK d \in Event, q \in Queue, k \in Kind, W \in SUBSET Event : Construct(d, q, k, W)
    BY <1>3 DEF Enqueue
  <2> QED BY <1>0, <1>3, <2>1 DEF Construct, Fresh, Enqueue, ghostVars
<1>4. CASE t \in Host /\ InitFails(t)
  BY <1>0, <1>4 DEF InitFails, AppendInv, ghostVars
<1>5. CASE t \in Host /\ QueueEvent(t)
  BY <1>0, <1>5 DEF QueueEvent, eventVars, AppendInv
<1>6. CASE t \in Host /\ SetUser(t)
  BY <1>0, <1>6 DEF SetUser, ghostVars, FrameInv, HostFrame
<1>7. CASE ScanSubmit(t)
  BY <1>0, <1>7, CurrentIssued DEF ScanSubmit, Pushable, Scanning, ghostVars
<1>8. CASE Settle(t)
  BY <1>0, <1>8 DEF Settle, SettleInv, ghostVars
<1>9. CASE EraseFinished(t)
  BY <1>0, <1>9 DEF EraseFinished, Erasing, eventVars, ghostVars
<1>10. CASE WorkerGet
  BY <1>0, <1>10 DEF WorkerGet, eventVars, ghostVars
<1>11. CASE WorkerCompletes
  BY <1>0, <1>11, WorkerEvent DEF WorkerCompletes, ghostVars
<1>12. CASE WorkerFails
  BY <1>0, <1>12, WorkerEvent DEF WorkerFails, ghostVars
<1> QED
  BY <1>1, <1>2, <1>3, <1>4, <1>5, <1>6, <1>7, <1>8, <1>9, <1>10, <1>11, <1>12, DataSteps
     DEF DataStep

\* A finished event stays as it is, queued or user event.
LEMMA FinishedStable ==
  ASSUME TypeOK, FrameInv, EventInv, ListInv, SettleInv, NEW t \in Thread, ThreadStep(t),
         NEW e \in Event, Finished(e)
  PROVE  status'[e] = status[e]
<1>1. CASE e \in issued
  BY <1>1, IssuedStable
<1>2. CASE e \notin issued
  BY <1>2, UserStable DEF EventInv, Finished
<1> QED BY <1>1, <1>2

-----------------------------------------------------------------------------
(* The local variables.                                                      *)

\* Only the worker ends a submitted event.
LEMMA SubmittedStable ==
  ASSUME TypeOK, FrameInv, EventInv, SettleInv, NEW t \in Thread, ThreadStep(t),
         NEW e \in issued, status[e] = "Submitted",
         ~(t = Worker /\ pc[Worker] = "run" /\ ev[Worker] = e)
  PROVE  status'[e] = "Submitted"
<1>0. /\ e \in Event /\ kind[e] # "User" /\ status \in [Event -> Statuses]
  BY DEF TypeOK, EventTypes, GhostTypes, EventInv
<1>1. CASE UNCHANGED dataVars
  BY <1>1 DEF dataVars, eventVars
<1>2. CASE t \in Host /\ CreateUserEvent(t)
  BY <1>0, <1>2 DEF CreateUserEvent, Fresh
<1>3. CASE t \in Host /\ Enqueue(t)
  <2>1. PICK d \in Event, q \in Queue, k \in Kind, W \in SUBSET Event : Construct(d, q, k, W)
    BY <1>3 DEF Enqueue
  <2> QED BY <1>0, <2>1 DEF Construct, Fresh
<1>4. CASE t \in Host /\ InitFails(t)
  BY <1>0, <1>4 DEF InitFails, FrameInv, HostFrame
<1>5. CASE t \in Host /\ QueueEvent(t)
  BY <1>5 DEF QueueEvent, eventVars
<1>6. CASE t \in Host /\ SetUser(t)
  BY <1>0, <1>6 DEF SetUser, FrameInv, HostFrame
<1>7. CASE ScanSubmit(t)
  BY <1>0, <1>7 DEF ScanSubmit
<1>8. CASE Settle(t)
  <2>1. dummy[t] \in issued /\ status[dummy[t]] \in {"Queued", "Complete"}
    BY <1>8 DEF Settle, SettleInv, EventInv, IsDummy, TypeOK, GhostTypes
  <2> QED BY <1>0, <1>8, <2>1 DEF Settle
<1>9. CASE EraseFinished(t)
  BY <1>9 DEF EraseFinished, Erasing, eventVars
<1>10. CASE WorkerGet
  BY <1>10 DEF WorkerGet, eventVars
<1>11. CASE t = Worker /\ (WorkerCompletes \/ WorkerFails)
  BY <1>0, <1>11 DEF WorkerCompletes, WorkerFails
<1> QED
  BY <1>1, <1>2, <1>3, <1>4, <1>5, <1>6, <1>7, <1>8, <1>9, <1>10, <1>11, DataSteps
     DEF DataStep

\* No event is taken back from the issued ones.
LEMMA IssuedGrows ==
  ASSUME TypeOK, FrameInv, EventInv, SettleInv, NEW t \in Thread, ThreadStep(t)
  PROVE  issued \subseteq issued'
  BY IssuedStable

\* A host thread that does nothing.
LEMMA FrameOthers ==
  ASSUME TypeOK, FrameInv, EventInv, AppendInv, ListInv, SettleInv,
         NEW t \in Thread, ThreadStep(t), NEW u \in Host \ {t}
  PROVE  HostFrame(u)'
<1>1. SameLocals(u)
  BY OneThread DEF Thread
<1>2. HostFrame(u)
  BY DEF FrameInv
<1>3. issued \subseteq issued'
  BY IssuedGrows
<1>4. CASE pc[u] = "append"
  BY <1>1, <1>2, <1>3, <1>4, PrivateStable DEF HostFrame, SameLocals, InQueue
<1>5. CASE pc[u] # "append"
  <2>1. pc[u] \in {"setUser", "flushQueues"} \/ after[u] = "flushQueues" =>
          status'[ev[u]] # "None" /\ kind'[ev[u]] = "User"
    BY <1>2, UserStable DEF HostFrame
  <2> QED BY <1>1, <1>2, <1>3, <1>5, <2>1 DEF HostFrame, SameLocals
<1> QED BY <1>4, <1>5

\* A host thread that returns, or goes on inside a member function of a queue.
LEMMA FrameReturns ==
  ASSUME TypeOK, NEW t \in Host, Return(t)
  PROVE  HostFrame(t)'
  BY ReturnPlace DEF HostFrame, InQueue, TypeOK, Thread

\* A host thread that goes on inside a member function of a queue.
LEMMA FrameKeeps ==
  ASSUME TypeOK, FrameInv, EventInv, ListInv, SettleInv, NEW t \in Host, ThreadStep(t),
         pc[t] # "append", pc'[t] \in InQueue \ {"append"}, at'[t] \in Queue,
         after'[t] = after[t], ev'[t] = ev[t], todo'[t] \subseteq todo[t]
  PROVE  HostFrame(t)'
<1>1. HostFrame(t) /\ t \in Thread
  BY DEF FrameInv, Thread
<1>2. issued \subseteq issued'
  BY <1>1, IssuedGrows
<1>3. after[t] = "flushQueues" => status'[ev[t]] # "None" /\ kind'[ev[t]] = "User"
  BY <1>1, UserStable DEF HostFrame
<1> QED BY <1>1, <1>2, <1>3 DEF HostFrame, InQueue

\* A host thread that resumes the caller of pushEventsOnDevice or flush.
LEMMA FrameResumes ==
  ASSUME TypeOK, FrameInv, EventInv, ListInv, SettleInv, NEW t \in Host, ThreadStep(t),
         pc[t] \in InQueue \ {"append"}, Resume(t)
  PROVE  HostFrame(t)'
<1>1. CASE Return(t)
  BY <1>1, FrameReturns
<1>2. CASE ~Return(t)
  <2>1. HostFrame(t) /\ t \in Thread /\ LocalTypes
    BY DEF FrameInv, Thread, TypeOK
  <2>2. /\ pc'[t] = after[t] /\ after'[t] = after[t] /\ at'[t] = at[t] /\ ev'[t] = ev[t]
        /\ todo'[t] = todo[t] /\ after[t] # "idle"
    BY <1>2, <2>1, ResumePlace
  <2>3. issued \subseteq issued'
    BY <2>1, IssuedGrows
  <2>4. after[t] = "flushQueues" => status'[ev[t]] # "None" /\ kind'[ev[t]] = "User"
    BY <2>1, UserStable DEF HostFrame
  <2> QED BY <2>1, <2>2, <2>3, <2>4 DEF HostFrame, InQueue
<1> QED BY <1>1, <1>2

\* A host thread inside pushEventsOnDevice.
LEMMA FramePush ==
  ASSUME TypeOK, FrameInv, EventInv, ListInv, SettleInv, NEW t \in Host, ThreadStep(t), Push(t)
  PROVE  HostFrame(t)'
<1>0. t \in Thread /\ LocalTypes
  BY DEF Thread, TypeOK
<1>1. pc[t] \in {"push", "scan", "settle"}
  BY DEF Push, PushLock, ScanEnd, ScanLook, ScanDone, ScanBehind, ScanBusy, LookAway, ScanSkip,
         ScanWaitForEvents, ScanSubmit, ScanDummy, Settle, Scanning
<1>2. at[t] \in Queue
  BY <1>0, <1>1, AtQueue DEF InQueue
<1>3. CASE ScanEnd(t) \/ ScanBehind(t) \/ ScanWaitForEvents(t)
  BY <1>1, <1>3, FrameResumes DEF ScanEnd, ScanBehind, ScanWaitForEvents, PushReturn, InQueue
<1>4. CASE ~(ScanEnd(t) \/ ScanBehind(t) \/ ScanWaitForEvents(t))
  <2>1. /\ pc'[t] \in {"push", "scan", "settle"} /\ at'[t] = at[t]
        /\ after'[t] = after[t] /\ ev'[t] = ev[t] /\ todo'[t] = todo[t]
    BY <1>0, <1>1, <1>4 DEF Push, PushLock, ScanLook, ScanDone, ScanBusy, LookAway, ScanSkip, ScanSubmit, ScanDummy, Settle,
         Go, LocalTypes, localVars, callVars, waitVars
  <2> QED BY <1>1, <1>2, <2>1, FrameKeeps DEF InQueue
<1> QED BY <1>3, <1>4

\* A host thread inside cleanEvents.
LEMMA FrameClean ==
  ASSUME TypeOK, FrameInv, EventInv, ListInv, SettleInv, NEW t \in Host, ThreadStep(t), Clean(t)
  PROVE  HostFrame(t)'
<1>0. t \in Thread /\ LocalTypes
  BY DEF Thread, TypeOK
<1>1. pc[t] \in {"clean", "erase", "cleaned"}
  BY DEF Clean, CleanLock, EraseFinished, EraseSkip, EraseEnd, Cleaned, Erasing
<1>2. at[t] \in Queue
  BY <1>0, <1>1, AtQueue DEF InQueue
<1>3. /\ pc'[t] \in {"clean", "erase", "cleaned", "finishOK", "finishFailed"} /\ at'[t] = at[t]
      /\ after'[t] = after[t] /\ ev'[t] = ev[t] /\ todo'[t] = todo[t]
  BY <1>0, <1>1, ConstantsOK DEF Clean, CleanLock, EraseFinished, EraseSkip, EraseEnd, Cleaned, Erasing,
       Go, LocalTypes, localVars, callVars, waitVars
<1> QED BY <1>1, <1>2, <1>3, FrameKeeps DEF InQueue

\* A host thread that begins an API call.
LEMMA FrameStart ==
  ASSUME TypeOK, FrameInv, EventInv, ListInv, SettleInv, NEW t \in Host, ThreadStep(t), Start(t)
  PROVE  HostFrame(t)'
<1>0. t \in Thread /\ LocalTypes /\ HostFrame(t)
  BY DEF Thread, TypeOK, FrameInv
<1>1. pc[t] = "idle"
  BY DEF Start, CreateUserEvent, Enqueue, FlushCall, FinishCall, WaitCall, SetUserCall, Begin
<1>2. issued \subseteq issued'
  BY <1>0, IssuedGrows
<1>3. after[t] = "flushQueues" => status'[ev[t]] # "None" /\ kind'[ev[t]] = "User"
  BY <1>0, UserStable DEF HostFrame
<1>4. CASE CreateUserEvent(t)
  BY <1>0, <1>1, <1>2, <1>3, <1>4 DEF CreateUserEvent, HostFrame, localVars, callVars, waitVars, InQueue
<1>5. CASE Enqueue(t)
  <2>1. PICK e \in Event, q \in Queue, k \in Kind \ {"User"}, W \in SUBSET Event, b \in BOOLEAN :
          /\ Construct(e, q, k, W)
          /\ at' = [at EXCEPT ![t] = q]
          /\ ev' = [ev EXCEPT ![t] = e]
          /\ after' = [after EXCEPT ![t] = IF b THEN "wait" ELSE "idle"]
          /\ todo' = [todo EXCEPT ![t] = IF b THEN {e} ELSE {}]
    BY <1>5 DEF Enqueue
  <2>2. /\ pc'[t] = "append" /\ at'[t] = q /\ ev'[t] = e /\ after'[t] \in {"idle", "wait"}
        /\ todo'[t] \subseteq {e}
    BY <1>0, <1>5, <2>1 DEF Enqueue, Go, LocalTypes
  <2>3. e \notin issued /\ issued' = issued
    BY <1>5, <2>1 DEF Construct, Fresh, EventInv, Enqueue, ghostVars
  <2>4. status'[e] = "Queued" /\ home'[e] = q /\ kind'[e] # "User"
    BY <2>1 DEF Construct, TypeOK, EventTypes
  <2> QED BY <2>1, <2>2, <2>3, <2>4 DEF HostFrame, InQueue
<1>6. CASE FlushCall(t) \/ FinishCall(t)
  BY <1>0, <1>1, <1>6, FrameKeeps
     DEF FlushCall, FinishCall, Go, LocalTypes, loopVars, waitVars, InQueue
<1>7. CASE WaitCall(t)
  <2>1. PICK W \in SUBSET Handles : /\ \A e \in W : kind[e] # "User"
                                    /\ todo' = [todo EXCEPT ![t] = W]
    BY <1>7 DEF WaitCall
  <2>2. W \subseteq issued
    BY <2>1 DEF Handles
  <2>3. pc'[t] = "wait" /\ after'[t] = "wait" /\ todo'[t] = W
    BY <1>0, <1>7, <2>1 DEF WaitCall, Go, LocalTypes
  <2> QED BY <1>2, <2>2, <2>3 DEF HostFrame, InQueue
<1>8. CASE SetUserCall(t)
  <2>1. PICK u \in Event : kind[u] = "User" /\ status[u] = "Submitted" /\ ev' = [ev EXCEPT ![t] = u]
    BY <1>8 DEF SetUserCall
  <2>2. pc'[t] = "setUser" /\ after'[t] = "flushQueues" /\ ev'[t] = u /\ todo'[t] = todo[t]
    BY <1>0, <1>8, <2>1 DEF SetUserCall, Go, LocalTypes, waitVars
  <2>3. status'[u] # "None" /\ kind'[u] = "User"
    BY <1>0, <2>1, UserStable
  <2> QED BY <1>0, <1>1, <1>2, <2>1, <2>2, <2>3 DEF HostFrame, InQueue
<1> QED BY <1>4, <1>5, <1>6, <1>7, <1>8 DEF Start

\* A host thread that goes on with an API call.
LEMMA FrameContinue ==
  ASSUME TypeOK, FrameInv, EventInv, ListInv, SettleInv, NEW t \in Host, ThreadStep(t),
         Continue(t), ~Push(t), ~Clean(t)
  PROVE  HostFrame(t)'
<1>0. t \in Thread /\ LocalTypes /\ HostFrame(t)
  BY DEF Thread, TypeOK, FrameInv
<1>1. pc[t] \in InQueue => at[t] \in Queue
  BY <1>0, AtQueue
<1>2. issued \subseteq issued'
  BY <1>0, IssuedGrows
<1>3. pc[t] \in {"setUser", "flushQueues"} \/ after[t] = "flushQueues" =>
        status'[ev[t]] # "None" /\ kind'[ev[t]] = "User"
  BY <1>0, UserStable DEF HostFrame
<1>4. CASE InitFails(t) \/ WaitSpin(t) \/ FinishCode(t)
  BY <1>4, FrameReturns DEF InitFails, WaitSpin, FinishCode, FinishReturn
<1>5. CASE QueueEvent(t)
  <2>1. /\ pc'[t] = "push" /\ after'[t] = after[t] /\ at'[t] = at[t] /\ ev'[t] = ev[t]
        /\ todo'[t] = todo[t] /\ issued' = issued \union {ev[t]} /\ pc[t] = "append"
    BY <1>0, <1>5 DEF QueueEvent, Go, LocalTypes, localVars, callVars, waitVars
  <2> QED BY <1>0, <1>1, <2>1 DEF HostFrame, InQueue
<1>6. CASE FlushTest(t)
  BY <1>0, <1>1, <1>6, FrameResumes, FrameKeeps
     DEF FlushTest, FlushReturn, Go, LocalTypes, localVars, callVars, waitVars, InQueue
<1>7. CASE FlushWait(t)
  <2>1. CASE Resume(t)
    BY <1>7, <2>1, FrameResumes DEF FlushWait, InQueue
  <2>2. CASE UNCHANGED <<pc, localVars>>
    BY <1>0, <1>1, <1>7, <2>2, FrameKeeps DEF FlushWait, localVars, callVars, waitVars, InQueue
  <2> QED BY <1>7, <2>1, <2>2 DEF FlushWait, FlushReturn
<1>8. CASE FinishStore(t) \/ FinishFails(t)
  BY <1>0, <1>1, <1>8, FrameKeeps
     DEF FinishStore, FinishFails, Go, LocalTypes, localVars, callVars, waitVars, InQueue
<1>9. CASE FinishWait(t)
  <2>1. CASE Return(t)
    BY <2>1, FrameReturns
  <2>2. CASE ~Return(t)
    BY <1>0, <1>1, <1>9, <2>2, FrameKeeps
       DEF FinishWait, FinishReturn, Go, LocalTypes, localVars, callVars, waitVars, InQueue
  <2> QED BY <2>1, <2>2
<1>10. ASSUME NEW e \in Event, WaitCheck(t, e) PROVE HostFrame(t)'
  <2>1. CASE Return(t)
    BY <2>1, FrameReturns
  <2>2. CASE ~Return(t)
    <3>1. home[e] \in Queue
      BY <1>10 DEF WaitCheck, FrameInv, HostFrame, EventInv
    <3>2. /\ pc[t] = "wait" /\ after'[t] = after[t] /\ ev'[t] = ev[t] /\ todo'[t] \subseteq todo[t]
          /\ \/ pc'[t] = "wait" /\ at'[t] = at[t]
             \/ pc'[t] = "flush" /\ at'[t] = home[e]
      BY <1>0, <1>10, <2>2 DEF WaitCheck, Go, LocalTypes, loopVars
    <3>3. CASE pc'[t] = "wait"
      BY <1>0, <1>2, <3>2, <3>3 DEF HostFrame, InQueue
    <3>4. CASE pc'[t] = "flush"
      BY <3>1, <3>2, <3>4, FrameKeeps DEF InQueue
    <3> QED BY <3>2, <3>3, <3>4
  <2> QED BY <2>1, <2>2
<1>11. CASE SetUser(t)
  <2>1. /\ pc'[t] = "flushQueues" /\ after'[t] = after[t] /\ ev'[t] = ev[t] /\ todo'[t] = todo[t]
    BY <1>0, <1>11 DEF SetUser, Go, LocalTypes, localVars, callVars, waitVars
  <2> QED BY <1>0, <1>2, <1>3, <1>11, <2>1 DEF SetUser, HostFrame, InQueue
<1>12. CASE FlushQueues(t)
  <2>1. CASE Return(t)
    BY <2>1, FrameReturns
  <2>2. CASE ~Return(t)
    <3>1. deps[ev[t]] \subseteq Queue
      BY <1>0, <1>12 DEF FlushQueues, HostFrame, TypeOK, EventTypes
    <3>2. /\ pc'[t] = "push" /\ at'[t] \in Queue /\ after'[t] = after[t] /\ ev'[t] = ev[t]
          /\ todo'[t] = todo[t]
      BY <1>0, <1>12, <2>2, <3>1 DEF FlushQueues, Go, LocalTypes, loopVars
    <3> QED BY <1>12, <3>2, FrameKeeps DEF FlushQueues, InQueue
  <2> QED BY <2>1, <2>2
<1> QED BY <1>4, <1>5, <1>6, <1>7, <1>8, <1>9, <1>10, <1>11, <1>12 DEF Continue

\* The worker while another thread steps.
LEMMA WorkerKeeps ==
  ASSUME TypeOK, FrameInv, EventInv, SettleInv, NEW t \in Host, ThreadStep(t)
  PROVE  WorkerFrame'
<1>1. t \in Thread /\ t # Worker /\ Worker \in Thread
  BY ConstantsOK DEF Thread
<1>2. SameLocals(Worker)
  BY <1>1, OneThread
<1>3. pc[Worker] # "idle" => ev[Worker] \in issued'
  BY <1>1, IssuedStable DEF FrameInv, WorkerFrame
<1>4. pc[Worker] = "run" => /\ kind'[ev[Worker]] \in DeviceKinds
                            /\ status'[ev[Worker]] = "Submitted"
                            /\ at[Worker] = home'[ev[Worker]]
  BY <1>1, IssuedStable, SubmittedStable, WorkerEvent
<1> QED BY <1>2, <1>3, <1>4 DEF FrameInv, WorkerFrame, SameLocals

\* The worker when it steps.
LEMMA WorkerSteps ==
  ASSUME TypeOK, FrameInv, EventInv, SettleInv, DeviceInv, Work
  PROVE  WorkerFrame'
<1>0. LocalTypes /\ Worker \in Thread /\ ThreadStep(Worker)
  BY DEF TypeOK, Thread, ThreadStep
<1>1. pc[Worker] # "idle" => ev[Worker] \in issued'
  BY <1>0, IssuedStable DEF FrameInv, WorkerFrame
<1>2. CASE WorkerGet
  <2>1. Head(devq) = devq[1] /\ 1 \in DOMAIN devq
    BY <1>2 DEF WorkerGet, TypeOK, QueueTypes
  <2>2. /\ Head(devq) \in issued /\ kind[Head(devq)] \in DeviceKinds
        /\ status[Head(devq)] = "Submitted" /\ home[Head(devq)] \in Queue
    BY <2>1 DEF DeviceInv, EventInv, TypeOK, GhostTypes
  <2>3. /\ pc'[Worker] = "run" /\ ev'[Worker] = Head(devq) /\ at'[Worker] = home[Head(devq)]
        /\ after'[Worker] = "clean"
    BY <1>0, <1>2 DEF WorkerGet, Go, LocalTypes
  <2> QED BY <1>2, <2>2, <2>3 DEF WorkerGet, WorkerFrame, eventVars, ghostVars
<1>3. CASE WorkerCompletes \/ WorkerFails
  BY <1>0, <1>1, <1>3 DEF WorkerCompletes, WorkerFails, FrameInv, WorkerFrame, Go, LocalTypes,
                          localVars, callVars
<1>4. CASE Push(Worker)
  <2>1. CASE Resume(Worker)
    <3>1. pc[Worker] # "idle" /\ after[Worker] = "clean"
      BY <1>4, AfterPlace, <1>0 DEF Push, PushLock, ScanEnd, ScanLook, ScanDone, ScanBehind, ScanBusy, LookAway, ScanSkip,
         ScanWaitForEvents, ScanSubmit, ScanDummy, Settle, Scanning
    <3> QED BY <1>0, <1>1, <2>1, <3>1, ResumePlace, ReturnPlace DEF FrameInv, WorkerFrame
  <2>2. CASE ~Resume(Worker)
    BY <1>0, <1>1, <1>4, <2>2
       DEF Push, PushLock, ScanEnd, ScanLook, ScanDone, ScanBehind, ScanBusy, LookAway, ScanSkip, ScanWaitForEvents,
           ScanSubmit, ScanDummy, Settle, Scanning, PushReturn, Go, LocalTypes, FrameInv, WorkerFrame,
           localVars, callVars
  <2> QED BY <2>1, <2>2
<1>5. CASE Clean(Worker)
  <2>1. CASE Return(Worker)
    BY <1>0, <2>1, ReturnPlace DEF WorkerFrame
  <2>2. CASE ~Return(Worker)
    BY <1>0, <1>1, <1>5, <2>2
       DEF Clean, CleanLock, EraseFinished, EraseSkip, EraseEnd, Cleaned, Erasing, Go, LocalTypes,
           FrameInv, WorkerFrame, localVars, callVars
  <2> QED BY <2>1, <2>2
<1> QED BY <1>2, <1>3, <1>4, <1>5 DEF Work

\* A step keeps what is known of every thread's local variables.
LEMMA FrameStep ==
  ASSUME TypeOK, FrameInv, EventInv, AppendInv, ListInv, SettleInv, DeviceInv,
         NEW t \in Thread, ThreadStep(t)
  PROVE  FrameInv'
<1>1. WorkerFrame'
  BY WorkerKeeps, WorkerSteps DEF ThreadStep, Thread
<1>2. ASSUME NEW u \in Host PROVE HostFrame(u)'
  <2>1. CASE u # t
    BY <2>1, FrameOthers
  <2>2. CASE u = t
    <3>1. CASE SpuriousWakeup(t)
      <4>1. UNCHANGED <<pc, localVars, status, kind, home, issued>>
        BY <3>1 DEF SpuriousWakeup, eventVars, ghostVars
      <4> QED BY <2>2, <4>1 DEF FrameInv, HostFrame, localVars, callVars, waitVars, InQueue
    <3>2. CASE Start(t) \/ Continue(t)
      BY <2>2, <3>2, FrameStart, FramePush, FrameClean, FrameContinue
    <3> QED BY <2>2, <3>1, <3>2, ConstantsOK DEF ThreadStep
  <2> QED BY <2>1, <2>2
<1> QED BY <1>1, <1>2 DEF FrameInv

\* A step never makes two threads enqueue the same event.
LEMMA AppendStep ==
  ASSUME TypeOK, FrameInv, AppendInv, EventInv, NEW t \in Thread, ThreadStep(t)
  PROVE  AppendInv'
<1>1. \A u \in Thread \ {t} : SameLocals(u)
  BY OneThread
<1>2. t \in Host /\ pc'[t] = "append" =>
        \/ pc[t] = "append" /\ ev'[t] = ev[t]
        \/ status[ev'[t]] = "None"
  <2>0. LocalTypes
    BY DEF TypeOK
  <2>1. CASE Push(t)
    <3>1. pc[t] # "idle" /\ (Resume(t) \/ pc'[t] # "append")
      BY <2>0, <2>1
         DEF Push, PushLock, ScanEnd, ScanLook, ScanDone, ScanBehind, ScanBusy, LookAway, ScanSkip, ScanWaitForEvents,
             ScanSubmit, ScanDummy, Settle, Scanning, PushReturn, Go, LocalTypes
    <3> QED BY <2>0, <3>1, ResumePlace, AfterPlace
  <2>2. CASE Clean(t)
    BY <2>0, <2>2, ReturnPlace
       DEF Clean, CleanLock, EraseFinished, EraseSkip, EraseEnd, Cleaned, Erasing, Go, LocalTypes
  <2>3. CASE Enqueue(t)
    BY <2>0, <2>3 DEF Enqueue, Construct, Fresh, LocalTypes
  <2>4. CASE Start(t) /\ ~Enqueue(t)
    BY <2>0, <2>4 DEF Start, CreateUserEvent, FlushCall, FinishCall, WaitCall, SetUserCall, Begin, Go,
                      LocalTypes
  <2>5. CASE Continue(t) /\ ~Push(t) /\ ~Clean(t)
    <3>1. pc[t] # "idle"
      BY <2>5 DEF Continue, InitFails, QueueEvent, FlushTest, FlushWait, FinishStore, FinishFails,
                FinishCode, FinishWait, WaitCheck, WaitSpin, SetUser, FlushQueues
    <3>2. Resume(t) \/ Return(t) \/ pc'[t] # "append"
      BY <2>0, <2>5 DEF Continue, InitFails, QueueEvent, FlushTest, FlushWait, FinishStore, FinishFails,
                FinishCode, FinishWait, WaitCheck, WaitSpin, SetUser, FlushQueues, FlushReturn,
                FinishReturn, Go, LocalTypes
    <3> QED BY <2>0, <3>1, <3>2, ResumePlace, ReturnPlace, AfterPlace
  <2>6. CASE SpuriousWakeup(t)
    BY <2>6 DEF SpuriousWakeup, localVars, callVars
  <2> QED BY <2>1, <2>2, <2>3, <2>4, <2>5, <2>6, ConstantsOK DEF ThreadStep
<1>3. ASSUME NEW u \in Host, pc[u] = "append" PROVE status[ev[u]] = "Queued"
  BY <1>3 DEF FrameInv, HostFrame
<1> QED BY <1>1, <1>2, <1>3 DEF AppendInv, SameLocals, Thread

LoopFresh(u) == /\ pc[u] \notin {"scan", "erase"} => pos[u] = 1
                /\ pc[u] # "scan" => first[u] = TRUE

\* The acting thread leaves a loop with a fresh iterator and flag.
LEMMA LoopActor ==
  ASSUME TypeOK, FrameInv, LoopInv, NEW t \in Thread, ThreadStep(t)
  PROVE  LoopFresh(t)'
<1> USE DEF LoopFresh
<1>0. LocalTypes /\ LoopFresh(t)
  BY DEF TypeOK, LoopInv
<1>1. ASSUME Return(t) PROVE LoopFresh(t)'
  BY <1>0, <1>1 DEF Return, Go, LocalTypes
<1>2. ASSUME Resume(t) PROVE LoopFresh(t)'
  <2>1. CASE Return(t)
    BY <1>1, <2>1
  <2>2. CASE ~Return(t)
    BY <1>0, <1>2, <2>2 DEF Resume, LocalTypes
  <2> QED BY <2>1, <2>2
<1>3. CASE Push(t)
  <2>1. CASE ScanEnd(t) \/ ScanBehind(t) \/ ScanWaitForEvents(t)
    BY <1>2, <2>1 DEF ScanEnd, ScanBehind, ScanWaitForEvents, PushReturn
  <2>2. CASE ~(ScanEnd(t) \/ ScanBehind(t) \/ ScanWaitForEvents(t))
    BY <1>0, <1>3, <2>2 DEF Push, PushLock, ScanLook, ScanDone, ScanBusy, LookAway, ScanSkip, ScanSubmit, ScanDummy, Settle,
       Scanning, Go, LocalTypes, localVars, loopVars
  <2> QED BY <2>1, <2>2
<1>4. CASE Clean(t)
  <2>1. CASE Return(t)
    BY <1>1, <2>1
  <2>2. CASE ~Return(t)
    BY <1>0, <1>4, <2>2 DEF Clean, CleanLock, EraseFinished, EraseSkip, EraseEnd, Cleaned, Erasing, Go,
       LocalTypes, localVars, loopVars
  <2> QED BY <2>1, <2>2
<1>5. CASE Start(t)
  BY <1>0, <1>5 DEF Start, CreateUserEvent, Enqueue, FlushCall, FinishCall, WaitCall, SetUserCall, Begin,
     Go, LocalTypes, localVars, loopVars
<1>6. CASE Continue(t) /\ ~Push(t) /\ ~Clean(t)
  <2>1. CASE Resume(t) \/ Return(t)
    BY <1>1, <1>2, <2>1
  <2>2. CASE ~Resume(t) /\ ~Return(t)
    BY <1>0, <1>6, <2>2 DEF Continue, InitFails, QueueEvent, FlushTest, FlushWait, FinishStore, FinishFails,
       FinishCode, FinishWait, WaitCheck, WaitSpin, SetUser, FlushQueues, FlushReturn, FinishReturn, Go,
       LocalTypes, localVars, loopVars
  <2> QED BY <2>1, <2>2
<1>7. CASE SpuriousWakeup(t)
  BY <1>0, <1>7 DEF SpuriousWakeup, localVars, loopVars
<1>8. CASE t = Worker /\ (WorkerGet \/ WorkerCompletes \/ WorkerFails)
  BY <1>0, <1>8 DEF WorkerGet, WorkerCompletes, WorkerFails, Go, LocalTypes, localVars, loopVars
<1> QED BY <1>3, <1>4, <1>5, <1>6, <1>7, <1>8 DEF ThreadStep, Work

\* A step keeps the iterators and flags fresh outside of the loops.
LEMMA LoopStep ==
  ASSUME TypeOK, FrameInv, LoopInv, NEW t \in Thread, ThreadStep(t)
  PROVE  LoopInv'
<1>1. ASSUME NEW u \in Thread \ {t} PROVE LoopFresh(u)'
  BY OneThread DEF SameLocals, LoopInv, LoopFresh
<1> QED BY <1>1, LoopActor DEF LoopInv, LoopFresh

-----------------------------------------------------------------------------
(* Events and the device.                                                    *)

\* A step keeps every event in a state of its kind.
LEMMA EventStep ==
  ASSUME TypeOK, FrameInv, EventInv, ListInv, SettleInv, NEW t \in Thread, ThreadStep(t)
  PROVE  EventInv'
<1>0. /\ status \in [Event -> Statuses] /\ kind \in [Event -> Kinds] /\ issued \subseteq Event
      /\ home \in [Event -> Queue \union {None}] /\ waits \in [Event -> SUBSET Event]
      /\ pred \in [Event -> SUBSET Event]
  BY DEF TypeOK, EventTypes, GhostTypes
<1> DEFINE Ok(e) ==
      /\ status[e] = "None" => e \notin issued /\ home[e] = None /\ waits[e] = {}
      /\ e \in issued => home[e] \in Queue /\ kind[e] # "User"
      /\ status[e] # "None" /\ kind[e] = "User" => status[e] \in {"Submitted", "Complete"}
      /\ status[e] # "None" /\ kind[e] # "User" /\ e \notin issued => status[e] = "Queued"
      /\ e \in issued /\ kind[e] \in DummyKinds => status[e] \in {"Queued", "Complete"}
      /\ kind[e] = "Barrier" => waits[e] = {}
      /\ pred[e] \subseteq issued
<1>1. EventInv <=> \A e \in Event : Ok(e)
  BY DEF EventInv, IsDummy
<1>2. EventInv' <=> \A e \in Event : Ok(e)'
  BY DEF EventInv, IsDummy
<1> SUFFICES ASSUME NEW e \in Event PROVE Ok(e)'
  BY <1>2
<1>3. Ok(e)
  BY <1>1
<1>4. CASE UNCHANGED dataVars
  BY <1>3, <1>4 DEF dataVars, eventVars
<1>5. CASE t \in Host /\ CreateUserEvent(t)
  BY <1>0, <1>3, <1>5 DEF CreateUserEvent, Fresh, ghostVars
<1>6. CASE t \in Host /\ Enqueue(t)
  <2>1. PICK d \in Event, q \in Queue, k \in Kind \ {"User"}, W \in SUBSET Event : Construct(d, q, k, W)
    BY <1>6 DEF Enqueue
  <2>2. k = "Barrier" => W = {}
    BY <2>1 DEF Construct, WaitListFor
  <2> QED BY <1>0, <1>3, <1>6, <2>1, <2>2 DEF Construct, Fresh, Enqueue, ghostVars
<1>7. CASE t \in Host /\ InitFails(t)
  <2>1. ev[t] \notin issued
    BY <1>7 DEF InitFails, FrameInv, HostFrame
  <2> QED BY <1>0, <1>3, <1>7, <2>1 DEF InitFails, ghostVars
<1>8. CASE t \in Host /\ QueueEvent(t)
  <2>1. status[ev[t]] = "Queued" /\ kind[ev[t]] # "User" /\ home[ev[t]] \in Queue
    BY <1>8 DEF QueueEvent, FrameInv, HostFrame, InQueue
  <2>2. e \in issued' => e \in issued \/ e = ev[t]
    BY <1>8 DEF QueueEvent
  <2>3. pred'[e] \subseteq issued'
    BY <1>0, <1>3, <1>8 DEF QueueEvent
  <2> QED BY <1>0, <1>3, <1>8, <2>1, <2>2, <2>3 DEF QueueEvent, eventVars
<1>9. CASE t \in Host /\ SetUser(t)
  BY <1>0, <1>3, <1>9 DEF SetUser, ghostVars, FrameInv, HostFrame
<1>10. CASE ScanSubmit(t)
  <2>1. Current(t) \in issued /\ kind[Current(t)] \notin DummyKinds
    BY <1>10, CurrentIssued DEF ScanSubmit, Pushable, Scanning, IsDummy
  <2> QED BY <1>0, <1>3, <1>10, <2>1 DEF ScanSubmit, Scanning, ghostVars, DummyKinds
<1>11. CASE Settle(t)
  <2>1. dummy[t] \in issued
    BY <1>11 DEF Settle, SettleInv
  <2> QED BY <1>0, <1>3, <1>11, <2>1 DEF Settle, ghostVars
<1>12. CASE EraseFinished(t)
  BY <1>3, <1>12 DEF EraseFinished, Erasing, eventVars, ghostVars
<1>13. CASE WorkerGet
  BY <1>3, <1>13 DEF WorkerGet, eventVars, ghostVars
<1>14. CASE WorkerCompletes \/ WorkerFails
  BY <1>0, <1>3, <1>14, WorkerEvent
     DEF WorkerCompletes, WorkerFails, ghostVars, DeviceKinds, DummyKinds
<1> QED
  BY <1>4, <1>5, <1>6, <1>7, <1>8, <1>9, <1>10, <1>11, <1>12, <1>13, <1>14, DataSteps DEF DataStep

\* The worker begins to execute an event only by taking it from the device.
LEMMA RunPlace ==
  ASSUME TypeOK, FrameInv, NEW t \in Thread, ThreadStep(t), pc'[Worker] = "run",
         ~(t = Worker /\ WorkerGet)
  PROVE  pc[Worker] = "run" /\ ev'[Worker] = ev[Worker] /\ t # Worker
<1>0. LocalTypes /\ Worker \in Thread
  BY DEF TypeOK, Thread
<1>1. CASE t # Worker
  BY <1>0, <1>1, OneThread DEF SameLocals
<1>2. CASE t = Worker
  <2>1. CASE Push(Worker)
    <3>1. pc[Worker] # "idle" /\ (Resume(Worker) \/ pc'[Worker] # "run")
      BY <1>0, <2>1
         DEF Push, PushLock, ScanEnd, ScanLook, ScanDone, ScanBehind, ScanBusy, LookAway, ScanSkip, ScanWaitForEvents,
             ScanSubmit, ScanDummy, Settle, Scanning, PushReturn, Go, LocalTypes
    <3> QED BY <1>0, <3>1, ResumePlace, AfterPlace
  <2>2. CASE Clean(Worker)
    BY <1>0, <2>2, ReturnPlace
       DEF Clean, CleanLock, EraseFinished, EraseSkip, EraseEnd, Cleaned, Erasing, Go, LocalTypes
  <2>3. CASE WorkerCompletes \/ WorkerFails
    BY <1>0, <2>3 DEF WorkerCompletes, WorkerFails, Go, LocalTypes
  <2> QED BY <1>2, <2>1, <2>2, <2>3, ConstantsOK DEF ThreadStep, Work
<1> QED BY <1>1, <1>2

\* Only the scan loop submits, and only the worker takes events from the device.
LEMMA NothingSubmitted ==
  ASSUME TypeOK, FrameInv, EventInv, ListInv, SettleInv, NEW t \in Thread, ThreadStep(t),
         ~ScanSubmit(t), ~(t = Worker /\ (WorkerGet \/ WorkerCompletes \/ WorkerFails))
  PROVE  /\ devq' = devq
         /\ \A e \in issued' : status'[e] = "Submitted" => e \in issued /\ status[e] = "Submitted"
<1>0. status \in [Event -> Statuses] /\ issued \subseteq Event
  BY DEF TypeOK, EventTypes, GhostTypes
<1>1. CASE UNCHANGED dataVars
  BY <1>1 DEF dataVars, eventVars
<1>2. CASE t \in Host /\ CreateUserEvent(t)
  BY <1>0, <1>2 DEF CreateUserEvent, Fresh, ghostVars, EventInv
<1>3. CASE t \in Host /\ Enqueue(t)
  <2>1. PICK d \in Event, q \in Queue, k \in Kind, W \in SUBSET Event : Construct(d, q, k, W)
    BY <1>3 DEF Enqueue
  <2> QED BY <1>0, <1>3, <2>1 DEF Construct, Enqueue, ghostVars
<1>4. CASE t \in Host /\ InitFails(t)
  BY <1>0, <1>4 DEF InitFails, ghostVars
<1>5. CASE t \in Host /\ QueueEvent(t)
  <2>1. status[ev[t]] = "Queued"
    BY <1>5 DEF QueueEvent, FrameInv, HostFrame
  <2> QED BY <1>0, <1>5, <2>1 DEF QueueEvent, eventVars
<1>6. CASE t \in Host /\ SetUser(t)
  BY <1>0, <1>6 DEF SetUser, ghostVars
<1>7. CASE Settle(t)
  BY <1>0, <1>7 DEF Settle, ghostVars
<1>8. CASE EraseFinished(t)
  BY <1>8 DEF EraseFinished, Erasing, eventVars, ghostVars
<1> QED BY <1>1, <1>2, <1>3, <1>4, <1>5, <1>6, <1>7, <1>8, DataSteps DEF DataStep

\* A step keeps the device's list in agreement with the submitted events.
LEMMA DeviceStep ==
  ASSUME TypeOK, FrameInv, EventInv, ListInv, SettleInv, DeviceInv, NEW t \in Thread, ThreadStep(t)
  PROVE  DeviceInv'
<1>0. devq \in Seq(Event) /\ issued \subseteq Event /\ status \in [Event -> Statuses]
      /\ kind \in [Event -> Kinds] /\ LocalTypes /\ Worker \in Thread
  BY DEF TypeOK, QueueTypes, EventTypes, GhostTypes, Thread
\* What is in the list stays submitted, issued and of its kind.
<1>1. ASSUME NEW i \in DOMAIN devq
      PROVE  devq[i] \in issued' /\ kind'[devq[i]] \in DeviceKinds /\ status'[devq[i]] = "Submitted"
  BY <1>1, SubmittedStable, IssuedStable DEF DeviceInv
<1>2. CASE devq' = devq /\ ~(t = Worker /\ WorkerGet)
           /\ (t # Worker \/ pc[Worker] # "run")
           /\ \A e \in issued' : status'[e] = "Submitted" => e \in issued /\ status[e] = "Submitted"
  <2>1. pc'[Worker] = "run" <=> pc[Worker] = "run"
    BY <1>0, <1>2, RunPlace, OneThread DEF SameLocals
  <2>2. pc[Worker] = "run" => ev'[Worker] = ev[Worker]
    BY <1>2, <2>1, RunPlace
  <2> QED BY <1>1, <1>2, <2>1, <2>2 DEF DeviceInv
<1>3. CASE t = Worker /\ (WorkerCompletes \/ WorkerFails)
  <2>1. pc'[Worker] # "run" /\ pc[Worker] = "run"
    BY <1>0, <1>3 DEF WorkerCompletes, WorkerFails, Go, LocalTypes
  <2>2. devq' = devq /\ issued' = issued
        /\ \A e \in issued : status'[e] = "Submitted" => status[e] = "Submitted" /\ e # ev[Worker]
    BY <1>0, <1>3 DEF WorkerCompletes, WorkerFails, ghostVars
  <2> QED BY <1>1, <2>1, <2>2 DEF DeviceInv
<1>4. CASE t = Worker /\ WorkerGet
  <2>1. /\ pc[Worker] = "idle" /\ devq # <<>> /\ devq' = Tail(devq) /\ ev'[Worker] = devq[1]
        /\ UNCHANGED <<status, issued, kind>>
    BY <1>0, <1>4 DEF WorkerGet, eventVars, ghostVars, LocalTypes
  <2>2. \A i \in DOMAIN devq' : i \in Nat /\ i + 1 \in DOMAIN devq /\ devq'[i] = devq[i + 1]
    BY <1>0, <2>1
  <2>3. \A i \in DOMAIN devq : i = 1 \/ (i - 1 \in DOMAIN devq' /\ devq'[i - 1] = devq[i])
    BY <1>0, <2>1
  <2>4. 1 \in DOMAIN devq /\ pc'[Worker] = "run"
    BY <1>0, <1>4, <2>1 DEF WorkerGet, Go, LocalTypes
  <2>5. ASSUME NEW i \in DOMAIN devq'
        PROVE  /\ devq'[i] \in issued' /\ kind'[devq'[i]] \in DeviceKinds
               /\ status'[devq'[i]] = "Submitted" /\ devq'[i] # devq[1]
    <3>1. i + 1 \in DOMAIN devq /\ i + 1 # 1 /\ devq'[i] = devq[i + 1]
      BY <1>0, <2>1
    <3> QED BY <1>1, <3>1, <2>4 DEF DeviceInv
  <2>6. ASSUME NEW i \in DOMAIN devq', NEW j \in DOMAIN devq', i # j PROVE devq'[i] # devq'[j]
    BY <2>2, <2>6 DEF DeviceInv
  <2>7. ASSUME NEW e \in issued', status'[e] = "Submitted"
        PROVE  e = devq[1] \/ \E i \in DOMAIN devq' : devq'[i] = e
    BY <2>1, <2>3, <2>7 DEF DeviceInv
  <2> QED BY <2>1, <2>4, <2>5, <2>6, <2>7 DEF DeviceInv
<1>5. CASE ScanSubmit(t)
  <2> DEFINE c == Current(t)
  <2>1. c \in issued /\ status[c] = "Queued" /\ kind[c] \in DeviceKinds
    BY <1>0, <1>5, CurrentIssued DEF ScanSubmit, Pushable, Scanning, IsDummy, Kinds
  <2>2. /\ devq' = Append(devq, c) /\ status' = [status EXCEPT ![c] = "Submitted"]
        /\ UNCHANGED <<kind, issued, pc, ev>>
    BY <1>5 DEF ScanSubmit, Scanning, callVars, ghostVars
  <2> HIDE DEF c
  <2>3. \A i \in DOMAIN devq' : (i \in DOMAIN devq /\ devq'[i] = devq[i]) \/ (i = Len(devq) + 1 /\ devq'[i] = c)
    <3>1. DOMAIN devq' = 1..(Len(devq) + 1) /\ DOMAIN devq = 1..Len(devq) /\ Len(devq) \in Nat
      BY <1>0, <2>1, <2>2
    <3>2. ASSUME NEW i \in 1..(Len(devq) + 1) PROVE i \in 1..Len(devq) \/ i = Len(devq) + 1
      BY <3>1
    <3>3. \A i \in 1..Len(devq) : devq'[i] = devq[i]
      BY <1>0, <2>1, <2>2
    <3>4. devq'[Len(devq) + 1] = c
      BY <1>0, <2>1, <2>2
    <3>5. TAKE i \in DOMAIN devq'
    <3>6. CASE i \in 1..Len(devq)
      <4>1. i \in DOMAIN devq
        BY <3>1, <3>6
      <4>2. devq'[i] = devq[i]
        BY <3>3, <3>6
      <4> QED BY <4>1, <4>2
    <3>7. CASE i = Len(devq) + 1
      BY <3>4, <3>7
    <3> QED BY <3>1, <3>2, <3>6, <3>7
  <2>4. \A i \in DOMAIN devq : i \in DOMAIN devq' /\ devq'[i] = devq[i] /\ devq[i] # c
    BY <1>0, <2>1, <2>2 DEF DeviceInv
  <2>5. Len(devq) + 1 \in DOMAIN devq' /\ devq'[Len(devq) + 1] = c
    BY <1>0, <2>1, <2>2
  <2>6. pc[Worker] = "run" => ev[Worker] # c
    BY <2>1, WorkerEvent
  <2>7. ASSUME NEW i \in DOMAIN devq'
        PROVE  /\ devq'[i] \in issued' /\ kind'[devq'[i]] \in DeviceKinds
               /\ status'[devq'[i]] = "Submitted"
               /\ ~(pc'[Worker] = "run" /\ ev'[Worker] = devq'[i])
    BY <1>0, <1>1, <2>1, <2>2, <2>3, <2>6 DEF DeviceInv
  <2>8. ASSUME NEW i \in DOMAIN devq', NEW j \in DOMAIN devq', i # j PROVE devq'[i] # devq'[j]
    BY <2>3, <2>4, <2>8 DEF DeviceInv
  <2>9. ASSUME NEW e \in issued', status'[e] = "Submitted"
        PROVE  \/ \E i \in DOMAIN devq' : devq'[i] = e
               \/ pc'[Worker] = "run" /\ ev'[Worker] = e
    <3>1. e = c \/ status[e] = "Submitted"
      BY <1>0, <2>2, <2>9
    <3> QED BY <2>2, <2>4, <2>5, <2>9, <3>1 DEF DeviceInv
  <2> QED BY <2>7, <2>8, <2>9 DEF DeviceInv
\* Every other step leaves the list alone and submits nothing.
<1>6. CASE ~ScanSubmit(t) /\ ~(t = Worker /\ (WorkerGet \/ WorkerCompletes \/ WorkerFails))
  <2>1. t # Worker \/ pc[Worker] # "run"
    BY <1>6, ConstantsOK
       DEF ThreadStep, Work, Push, PushLock, ScanEnd, ScanLook, ScanDone, ScanBehind, ScanBusy, LookAway, ScanSkip,
           ScanWaitForEvents, ScanDummy, Settle, Scanning, Clean, CleanLock, EraseFinished,
           EraseSkip, EraseEnd, Cleaned, Erasing
  <2> QED BY <1>2, <1>6, <2>1, NothingSubmitted
<1> QED BY <1>3, <1>4, <1>5, <1>6

-----------------------------------------------------------------------------
(* The lists of the queues.                                                  *)

\* A list is a sequence of events.
LEMMA ListTypeAt == ASSUME TypeOK, NEW q \in Queue PROVE list[q] \in Seq(Event)
  BY DEF TypeOK, QueueTypes

\* Steps that leave the lists alone.
LEMMA ListKept ==
  ASSUME TypeOK, FrameInv, EventInv, ListInv, SettleInv, NEW t \in Thread, ThreadStep(t),
         NEW q \in Queue, list'[q] = list[q],
         \A e \in issued' : e \in issued \/ home'[e] # q
  PROVE  /\ \A j \in DOMAIN list'[q] :
              /\ list'[q][j] \in issued' /\ home'[list'[q][j]] = q
              /\ \A p \in pred'[list'[q][j]] :
                   Finished(p)' \/ \E i \in 1..(j - 1) : list'[q][i] = p
         /\ \A e \in issued' : home'[e] = q /\ ~Finished(e)' =>
              \E i \in DOMAIN list'[q] : list'[q][i] = e
<1>0. \A e \in issued : e \in Event /\ pred[e] \subseteq Event
  BY DEF TypeOK, GhostTypes
<1>1. \A e \in Event : Finished(e) => Finished(e)'
  BY FinishedStable DEF Finished
<1>2. ASSUME NEW j \in DOMAIN list[q]
      PROVE  /\ list[q][j] \in issued' /\ home'[list[q][j]] = q
             /\ \A p \in pred'[list[q][j]] :
                  Finished(p)' \/ \E i \in 1..(j - 1) : list[q][i] = p
  <2>1. list[q][j] \in issued /\ home[list[q][j]] = q
    BY DEF ListInv
  <2>2. \A p \in pred[list[q][j]] : Finished(p) \/ \E i \in 1..(j - 1) : list[q][i] = p
    BY DEF ListInv
  <2> QED BY <1>0, <1>1, <2>1, <2>2, IssuedStable
<1>3. ASSUME NEW e \in issued', home'[e] = q, ~Finished(e)'
      PROVE  \E i \in DOMAIN list[q] : list[q][i] = e
  <2>1. e \in issued /\ home[e] = q /\ ~Finished(e)
    BY <1>0, <1>1, <1>3, IssuedStable
  <2> QED BY <2>1 DEF ListInv
<1> QED BY <1>2, <1>3

\* queueEvent: the new event stands behind every unfinished event of its queue.
LEMMA ListAppend ==
  ASSUME TypeOK, FrameInv, EventInv, ListInv, SettleInv, NEW t \in Host, ThreadStep(t), QueueEvent(t)
  PROVE  ListInv'
<1> DEFINE q == at[t]
           c == ev[t]
           n == Len(list[q])
<1>0. /\ t \in Thread /\ q \in Queue /\ c \in Event /\ c \notin issued /\ home[c] = q
      /\ issued \subseteq Event /\ pred \in [Event -> SUBSET Event]
      /\ list \in [Queue -> Seq(Event)] /\ list[q] \in Seq(Event) /\ n \in Nat
  <2>1. /\ t \in Thread /\ q \in Queue /\ c \in Event /\ c \notin issued /\ home[c] = q
    BY DEF Thread, QueueEvent, FrameInv, HostFrame, InQueue
  <2>2. /\ issued \subseteq Event /\ pred \in [Event -> SUBSET Event]
        /\ list \in [Queue -> Seq(Event)]
    BY DEF TypeOK, QueueTypes, GhostTypes
  <2> QED BY <2>1, <2>2
<1>1. /\ list' = [list EXCEPT ![q] = Append(@, c)] /\ issued' = issued \union {c}
      /\ UNCHANGED eventVars /\ pred' = [pred EXCEPT ![c] = {d \in issued : home[d] = q}]
  BY DEF QueueEvent
<1>2. \A e \in Event : Finished(e)' <=> Finished(e)
  BY <1>1 DEF Finished, eventVars
<1>3. home' = home
  BY <1>1 DEF eventVars
<1> HIDE DEF q, c, n
<1>4. list'[q] = Append(list[q], c)
  BY <1>0, <1>1
<1>5. /\ DOMAIN list'[q] = 1..(n + 1) /\ DOMAIN list[q] = 1..n
      /\ \A i \in 1..n : list'[q][i] = list[q][i]
      /\ list'[q][n + 1] = c
  BY <1>0, <1>4 DEF n
<1>a. \A j \in DOMAIN list[q] :
        /\ list[q][j] \in issued /\ home[list[q][j]] = q
        /\ \A p \in pred[list[q][j]] :
             Finished(p) \/ \E i \in 1..(j - 1) : list[q][i] = p
  BY <1>0 DEF ListInv
<1>6. ASSUME NEW j \in 1..n
      PROVE  /\ list'[q][j] \in issued' /\ home'[list'[q][j]] = q
             /\ \A p \in pred'[list'[q][j]] :
                  Finished(p)' \/ \E i \in 1..(j - 1) : list'[q][i] = p
  <2>0. j \in DOMAIN list[q]
    BY <1>5
  <2>1. list[q][j] \in issued /\ home[list[q][j]] = q /\ list[q][j] # c
    BY <1>0, <1>a, <2>0
  <2>2. \A p \in pred[list[q][j]] : Finished(p) \/ \E i \in 1..(j - 1) : list[q][i] = p
    BY <1>a, <2>0
  <2>3. pred'[list[q][j]] = pred[list[q][j]] /\ pred[list[q][j]] \subseteq Event
    BY <1>0, <1>1, <2>1
  <2>4. 1..(j - 1) \subseteq 1..n
    BY <1>0
  <2>5. list'[q][j] = list[q][j]
    BY <1>5
  <2>6. list'[q][j] \in issued' /\ home'[list'[q][j]] = q
    <3>1. list[q][j] \in issued'
      BY <1>1, <2>1
    <3>2. home'[list[q][j]] = q
      BY <1>3, <2>1
    <3> QED BY <2>5, <3>1, <3>2
  <2>7. ASSUME NEW p \in pred[list[q][j]], ~Finished(p)
        PROVE  \E i \in 1..(j - 1) : list'[q][i] = p
    <3>1. PICK i \in 1..(j - 1) : list[q][i] = p
      BY <2>2, <2>7
    <3> QED BY <1>5, <2>4, <3>1
  <2> QED BY <1>2, <2>3, <2>5, <2>6, <2>7
<1>7. /\ list'[q][n + 1] \in issued' /\ home'[list'[q][n + 1]] = q
      /\ \A p \in pred'[list'[q][n + 1]] :
           Finished(p)' \/ \E i \in 1..n : list'[q][i] = p
  <2>1. pred'[c] = {d \in issued : home[d] = q}
    BY <1>0, <1>1
  <2>2. \A d \in issued : home[d] = q /\ ~Finished(d) => \E i \in 1..n : list[q][i] = d
    BY <1>0, <1>5 DEF ListInv
  <2> QED BY <1>0, <1>1, <1>2, <1>3, <1>5, <2>1, <2>2
<1>8. ASSUME NEW e \in issued', home'[e] = q, ~Finished(e)'
      PROVE  \E i \in 1..(n + 1) : list'[q][i] = e
  <2>1. CASE e = c
    <3>1. n + 1 \in 1..(n + 1)
      BY <1>0
    <3> QED BY <1>5, <2>1, <3>1
  <2>2. CASE e \in issued
    <3>1. PICK i \in 1..n : list[q][i] = e
      BY <1>0, <1>2, <1>3, <1>5, <1>8, <2>2 DEF ListInv
    <3>2. i \in 1..(n + 1)
      BY <1>0
    <3> QED BY <1>5, <3>1, <3>2
  <2> QED BY <1>1, <2>1, <2>2
<1>9. ASSUME NEW r \in Queue, r # q
      PROVE  /\ list'[r] = list[r]
             /\ \A e \in issued' : e \in issued \/ home'[e] # r
  BY <1>0, <1>1, <1>3, <1>9
<1>10. ASSUME NEW j \in 1..(n + 1)
       PROVE  /\ list'[q][j] \in issued' /\ home'[list'[q][j]] = q
              /\ \A p \in pred'[list'[q][j]] :
                   Finished(p)' \/ \E i \in 1..(j - 1) : list'[q][i] = p
  <2>1. j \in 1..n \/ (j = n + 1 /\ j - 1 = n)
    BY <1>0
  <2> QED BY <1>6, <1>7, <2>1
<1>11. ASSUME NEW r \in Queue
       PROVE  /\ \A j \in DOMAIN list'[r] :
                   /\ list'[r][j] \in issued' /\ home'[list'[r][j]] = r
                   /\ \A p \in pred'[list'[r][j]] :
                        Finished(p)' \/ \E i \in 1..(j - 1) : list'[r][i] = p
              /\ \A e \in issued' : home'[e] = r /\ ~Finished(e)' =>
                   \E i \in DOMAIN list'[r] : list'[r][i] = e
  <2>1. CASE r = q
    <3>1. DOMAIN list'[r] = 1..(n + 1)
      BY <1>5, <2>1
    <3>2. ASSUME NEW j \in 1..(n + 1)
          PROVE  /\ list'[r][j] \in issued' /\ home'[list'[r][j]] = r
                 /\ \A p \in pred'[list'[r][j]] :
                      Finished(p)' \/ \E i \in 1..(j - 1) : list'[r][i] = p
      BY <1>10, <2>1
    <3>3. ASSUME NEW e \in issued', home'[e] = r, ~Finished(e)'
          PROVE  \E i \in 1..(n + 1) : list'[r][i] = e
      BY <1>8, <2>1, <3>3
    <3> QED BY <3>1, <3>2, <3>3
  <2>2. CASE r # q
    BY <1>0, <1>9, <2>2, ListKept
  <2> QED BY <2>1, <2>2
<1> QED BY <1>11 DEF ListInv

\* cleanEvents: erasing a finished event loses no predecessor that matters.
LEMMA ListErase ==
  ASSUME TypeOK, FrameInv, EventInv, ListInv, SettleInv, NEW t \in Thread, ThreadStep(t), EraseFinished(t)
  PROVE  ListInv'
<1> DEFINE q == at[t]
           k == pos[t]
           n == Len(list[q])
           c == Current(t)
<1>0. /\ q \in Queue /\ issued \subseteq Event /\ pred \in [Event -> SUBSET Event]
      /\ list \in [Queue -> Seq(Event)] /\ list[q] \in Seq(Event) /\ n \in Nat /\ k \in 1..n
  <2>1. q \in Queue
    BY AtQueue DEF EraseFinished, Erasing, InQueue
  <2>2. /\ issued \subseteq Event /\ pred \in [Event -> SUBSET Event]
        /\ list \in [Queue -> Seq(Event)]
    BY DEF TypeOK, QueueTypes, GhostTypes
  <2>3. k \in Nat \ {0}
    BY DEF TypeOK, LocalTypes
  <2> QED BY <2>1, <2>2, <2>3 DEF EraseFinished, AtEnd
<1>1. /\ list' = [list EXCEPT ![q] = RemoveAt(@, k)]
      /\ UNCHANGED <<eventVars, ghostVars>> /\ Finished(c)
  BY DEF EraseFinished, Erasing
<1>2. /\ home' = home /\ issued' = issued /\ pred' = pred
      /\ \A e \in Event : Finished(e)' <=> Finished(e)
  BY <1>1 DEF Finished, eventVars, ghostVars
<1>3. c = list[q][k]
  BY DEF Current
<1> HIDE DEF q, k, n, c
<1>4. list'[q] = RemoveAt(list[q], k)
  BY <1>0, <1>1
<1>5. /\ DOMAIN list'[q] = 1..(n - 1) /\ DOMAIN list[q] = 1..n
      /\ \A j \in 1..(n - 1) : list'[q][j] = IF j < k THEN list[q][j] ELSE list[q][j + 1]
  <2>1. Len(list'[q]) = n - 1 /\ list'[q] \in Seq(Event)
    BY <1>0, <1>4, RemoveAtProperties DEF n
  <2>2. \A j \in 1..(n - 1) : list'[q][j] = IF j < k THEN list[q][j] ELSE list[q][j + 1]
    BY <1>0, <1>4, RemoveAtProperties DEF n
  <2> QED BY <1>0, <2>1, <2>2 DEF n
\* Where an event other than the erased one went.
<1>6. ASSUME NEW i \in 1..n, list[q][i] # c
      PROVE  LET m == IF i < k THEN i ELSE i - 1 IN m \in 1..(n - 1) /\ list'[q][m] = list[q][i]
  <2>1. i # k
    BY <1>3, <1>6
  <2>2. CASE i < k
    BY <1>0, <1>5, <2>2
  <2>3. CASE i > k
    <3>1. i - 1 \in 1..(n - 1) /\ ~(i - 1 < k) /\ (i - 1) + 1 = i
      BY <1>0, <2>3
    <3> QED BY <1>0, <1>5, <2>3, <3>1
  <2> QED BY <1>0, <2>1, <2>2, <2>3
<1>7. ASSUME NEW j \in 1..(n - 1)
      PROVE  /\ list'[q][j] \in issued' /\ home'[list'[q][j]] = q
             /\ \A p \in pred'[list'[q][j]] :
                  Finished(p)' \/ \E i \in 1..(j - 1) : list'[q][i] = p
  <2> DEFINE o == IF j < k THEN j ELSE j + 1
  <2>1. o \in 1..n /\ list'[q][j] = list[q][o]
    BY <1>0, <1>5
  <2>2. /\ list[q][o] \in issued /\ home[list[q][o]] = q
        /\ \A p \in pred[list[q][o]] : Finished(p) \/ \E i \in 1..(o - 1) : list[q][i] = p
    BY <1>0, <1>5, <2>1 DEF ListInv
  <2>3. ASSUME NEW p \in pred[list[q][o]], ~Finished(p)
        PROVE  \E i \in 1..(j - 1) : list'[q][i] = p
    <3>1. PICK i \in 1..(o - 1) : list[q][i] = p
      BY <2>2, <2>3
    <3>2. list[q][i] # c /\ i \in 1..n
      BY <1>0, <1>1, <2>1, <2>3, <3>1
    <3> DEFINE m == IF i < k THEN i ELSE i - 1
    <3>3. m \in 1..(n - 1) /\ list'[q][m] = p
      BY <1>6, <3>1, <3>2
    <3>4. i # k
      BY <1>3, <3>2
    <3>5. m \in 1..(j - 1)
      BY <1>0, <3>3, <3>4
    <3> QED BY <3>3, <3>5
  <2>4. pred[list[q][o]] \subseteq Event
    BY <1>0, <2>2
  <2> QED BY <1>2, <2>1, <2>2, <2>3, <2>4
<1>8. ASSUME NEW e \in issued', home'[e] = q, ~Finished(e)'
      PROVE  \E i \in 1..(n - 1) : list'[q][i] = e
  <2>1. e \in issued /\ home[e] = q /\ ~Finished(e)
    BY <1>0, <1>2, <1>8
  <2>2. PICK i \in 1..n : list[q][i] = e
    BY <1>0, <1>5, <2>1 DEF ListInv
  <2> QED BY <1>1, <1>6, <2>1, <2>2
<1>9. ASSUME NEW r \in Queue, r # q
      PROVE  list'[r] = list[r] /\ \A e \in issued' : e \in issued \/ home'[e] # r
  BY <1>0, <1>1, <1>2, <1>9
<1>10. ASSUME NEW r \in Queue
       PROVE  /\ \A j \in DOMAIN list'[r] :
                   /\ list'[r][j] \in issued' /\ home'[list'[r][j]] = r
                   /\ \A p \in pred'[list'[r][j]] :
                        Finished(p)' \/ \E i \in 1..(j - 1) : list'[r][i] = p
              /\ \A e \in issued' : home'[e] = r /\ ~Finished(e)' =>
                   \E i \in DOMAIN list'[r] : list'[r][i] = e
  <2>1. CASE r = q
    <3>1. DOMAIN list'[r] = 1..(n - 1)
      BY <1>5, <2>1
    <3>2. ASSUME NEW j \in 1..(n - 1)
          PROVE  /\ list'[r][j] \in issued' /\ home'[list'[r][j]] = r
                 /\ \A p \in pred'[list'[r][j]] :
                      Finished(p)' \/ \E i \in 1..(j - 1) : list'[r][i] = p
      BY <1>7, <2>1
    <3>3. ASSUME NEW e \in issued', home'[e] = r, ~Finished(e)'
          PROVE  \E i \in 1..(n - 1) : list'[r][i] = e
      BY <1>8, <2>1, <3>3
    <3> QED BY <3>1, <3>2, <3>3
  <2>2. CASE r # q
    BY <1>9, <2>2, ListKept
  <2> QED BY <2>1, <2>2
<1> QED BY <1>10 DEF ListInv

\* A step keeps the lists complete and in order.
LEMMA ListStep ==
  ASSUME TypeOK, FrameInv, EventInv, ListInv, SettleInv, NEW t \in Thread, ThreadStep(t)
  PROVE  ListInv'
<1>1. CASE t \in Host /\ QueueEvent(t)
  BY <1>1, ListAppend
<1>2. CASE EraseFinished(t)
  BY <1>2, ListErase
<1>3. CASE ~(t \in Host /\ QueueEvent(t)) /\ ~EraseFinished(t)
  <2>1. list' = list /\ issued' = issued
    BY <1>3, DataSteps
       DEF DataStep, dataVars, CreateUserEvent, Enqueue, InitFails, SetUser, ScanSubmit, Scanning, Settle,
           WorkerGet, WorkerCompletes, WorkerFails, queueVars, ghostVars
  <2> QED BY <2>1, ListKept DEF ListInv
<1> QED BY <1>1, <1>2, <1>3

-----------------------------------------------------------------------------
(* When an event may be taken up.                                            *)

\* Once nothing keeps an event back, nothing ever will.
LEMMA CanStartStable ==
  ASSUME TypeOK, FrameInv, EventInv, ListInv, SettleInv, NEW t \in Thread, ThreadStep(t),
         NEW e \in issued, CanStart(e)
  PROVE  CanStart(e)'
<1>1. /\ kind'[e] = kind[e] /\ home'[e] = home[e] /\ waits'[e] = waits[e] /\ pred'[e] = pred[e]
  BY IssuedStable
<1>2. e \in Event /\ waits[e] \subseteq Event /\ pred[e] \subseteq issued /\ issued \subseteq Event
  BY DEF TypeOK, EventTypes, GhostTypes, EventInv
<1>3. \A d \in Event : status[d] = "Complete" => status'[d] = "Complete"
  BY FinishedStable DEF Finished
<1>4. \A d \in Event : Finished(d) => Finished(d)'
  BY FinishedStable DEF Finished
<1>5. WaitListDone(e)'
  BY <1>1, <1>2, <1>3 DEF WaitListDone, CanStart
<1>6. (home[e] \in InOrder \/ kind[e] = "Barrier") => \A p \in pred[e] : Finished(p)'
  BY <1>2, <1>4 DEF CanStart
<1>7. \A p \in pred[e] : kind'[p] = kind[p]
  BY <1>2, IssuedStable
<1>8. \A p \in pred[e] : kind'[p] \in {"Barrier", "WaitForEvents"} => status'[p] = "Complete"
  BY <1>2, <1>3, <1>7 DEF CanStart
<1> QED BY <1>1, <1>5, <1>6, <1>8 DEF CanStart

\* The tests of the loop let only such events pass.
LEMMA ScanReady ==
  ASSUME TypeOK, FrameInv, EventInv, ListInv, ScanInv, NEW t \in Thread, pc[t] = "scan", Pushable(t),
         WaitListDone(Current(t))
  PROVE  CanStart(Current(t))
<1> DEFINE c == Current(t)
           l == list[at[t]]
           k == pos[t]
<1>1. c \in issued /\ at[t] \in Queue /\ home[c] = at[t]
  BY CurrentIssued DEF Pushable
<1>2. l \in Seq(Event) /\ k \in Nat \ {0} /\ k \in DOMAIN l /\ c = l[k] /\ issued \subseteq Event
  <2>1. l \in Seq(Event) /\ k \in Nat \ {0} /\ issued \subseteq Event
    BY <1>1 DEF TypeOK, QueueTypes, LocalTypes, GhostTypes
  <2>2. k \in DOMAIN l
    BY <2>1 DEF Pushable, AtEnd
  <2> QED BY <2>1, <2>2 DEF Current
<1>3. \A p \in pred[c] : Finished(p) \/ \E i \in 1..(k - 1) : l[i] = p
  BY <1>1, <1>2 DEF ListInv
<1>4. \A i \in 1..(k - 1) :
        /\ first[t] => status[l[i]] = "Complete"
        /\ kind[l[i]] \in {"Barrier", "WaitForEvents"} => status[l[i]] = "Complete"
  <2>1. TAKE i \in 1..(k - 1)
  <2>2. i \in DOMAIN l /\ i < k
    BY <1>2
  <2> QED BY <2>2 DEF ScanInv
<1>5. pred[c] \subseteq issued
  BY <1>1, <1>2 DEF EventInv
<1> HIDE DEF c, l, k
<1>6. ASSUME NEW p \in pred[c], first[t] PROVE Finished(p)
  BY <1>3, <1>4, <1>6 DEF Finished
<1>7. (home[c] \in InOrder \/ kind[c] = "Barrier") => first[t]
  BY <1>1 DEF Pushable, Behind, c
<1>8. ASSUME NEW p \in pred[c], kind[p] \in {"Barrier", "WaitForEvents"} PROVE status[p] = "Complete"
  <2>1. CASE Finished(p)
    BY <1>2, <1>5, <1>8, <2>1 DEF Finished, EventInv, IsDummy, DummyKinds
  <2>2. CASE ~Finished(p)
    BY <1>3, <1>4, <1>8, <2>2
  <2> QED BY <2>1, <2>2
<1>9. WaitListDone(c)
  BY DEF c
<1>10. CanStart(c)
  BY <1>6, <1>7, <1>8, <1>9 DEF CanStart
<1> QED BY <1>10 DEF c

\* What was decided about a dummy event under the mutex stays right after it.
LEMMA SettleStep ==
  ASSUME TypeOK, FrameInv, EventInv, ListInv, ScanInv, SettleInv, NEW t \in Thread, ThreadStep(t)
  PROVE  SettleInv'
<1>0. LocalTypes /\ issued \subseteq Event
  BY DEF TypeOK, GhostTypes
<1>1. ASSUME NEW u \in Thread, pc[u] = "settle", dummy'[u] = dummy[u], at'[u] = at[u]
      PROVE  /\ dummy'[u] \in issued' /\ kind'[dummy'[u]] \in DummyKinds
             /\ at'[u] = home'[dummy'[u]]
             /\ CanStart(dummy[u])'
  BY <1>1, IssuedStable, CanStartStable DEF SettleInv
<1>2. ASSUME NEW u \in Thread \ {t}, pc'[u] = "settle"
      PROVE  pc[u] = "settle" /\ dummy'[u] = dummy[u] /\ at'[u] = at[u]
  BY <1>2, OneThread DEF SameLocals
<1>3. CASE ScanDummy(t)
  <2> DEFINE c == Current(t)
  <2>1. pc[t] = "scan" /\ Pushable(t) /\ WaitListDone(c) /\ kind[c] \in DummyKinds /\ ~AtEnd(t)
    BY <1>3 DEF ScanDummy, Scanning, IsDummy, Pushable
  <2>2. c \in issued /\ home[c] = at[t]
    BY <2>1, CurrentIssued
  <2>3. dummy'[t] = c /\ at'[t] = at[t] /\ UNCHANGED <<issued, kind, home, status, waits, pred>>
    BY <1>0, <1>3 DEF ScanDummy, Scanning, LocalTypes, callVars, eventVars, ghostVars
  <2>4. /\ dummy'[t] \in issued' /\ kind'[dummy'[t]] \in DummyKinds
        /\ at'[t] = home'[dummy'[t]]
    BY <2>1, <2>2, <2>3
  <2>5. CanStart(c)
    BY <2>1, ScanReady
  <2> HIDE DEF c
  <2>6. CanStart(dummy[t])'
    BY <2>3, <2>5 DEF CanStart, WaitListDone, Finished
  <2> QED BY <1>1, <1>2, <2>4, <2>6 DEF SettleInv
<1>4. CASE ~ScanDummy(t)
  <2>1. pc'[t] = "settle" => pc[t] = "settle" /\ dummy'[t] = dummy[t] /\ at'[t] = at[t]
    <3>1. CASE pc[t] # "idle" /\ (Resume(t) \/ Return(t))
      <4>1. pc'[t] \in {"idle", after[t]}
        BY <1>0, <3>1, ResumePlace, ReturnPlace
      <4>2. after[t] # "settle"
        BY <3>1, AfterPlace
      <4> QED BY <4>1, <4>2
    <3>2. CASE pc[t] = "idle" \/ (~Resume(t) /\ ~Return(t))
      <4>1. CASE Push(t)
        BY <1>0, <1>4, <3>2, <4>1
           DEF Push, PushLock, ScanEnd, ScanLook, ScanDone, ScanBehind, ScanBusy, LookAway, ScanSkip, ScanWaitForEvents,
               ScanSubmit, Settle, Scanning, PushReturn, Go, LocalTypes
      <4>2. CASE Clean(t)
        BY <1>0, <3>2, <4>2
           DEF Clean, CleanLock, EraseFinished, EraseSkip, EraseEnd, Cleaned, Erasing, Go, LocalTypes
      <4>3. CASE Start(t)
        BY <1>0, <4>3
           DEF Start, CreateUserEvent, Enqueue, FlushCall, FinishCall, WaitCall, SetUserCall, Begin, Go,
               LocalTypes
      <4>4. CASE Continue(t) /\ ~Push(t) /\ ~Clean(t)
        BY <1>0, <3>2, <4>4
           DEF Continue, InitFails, QueueEvent, FlushTest, FlushWait, FinishStore, FinishFails, FinishCode,
               FinishWait, WaitCheck, WaitSpin, SetUser, FlushQueues, FlushReturn, FinishReturn, Go,
               LocalTypes, localVars, callVars, loopVars
      <4>5. CASE SpuriousWakeup(t)
        BY <4>5 DEF SpuriousWakeup, localVars, callVars, loopVars
      <4>6. CASE t = Worker /\ (WorkerGet \/ WorkerCompletes \/ WorkerFails)
        BY <1>0, <4>6 DEF WorkerGet, WorkerCompletes, WorkerFails, Go, LocalTypes
      <4> QED BY <4>1, <4>2, <4>3, <4>4, <4>5, <4>6 DEF ThreadStep, Work
    <3> QED BY <3>1, <3>2
  <2>2. ASSUME NEW u \in Thread, pc'[u] = "settle"
        PROVE  /\ dummy'[u] \in issued' /\ kind'[dummy'[u]] \in DummyKinds
               /\ at'[u] = home'[dummy'[u]]
               /\ CanStart(dummy[u])'
    <3>1. pc[u] = "settle" /\ dummy'[u] = dummy[u] /\ at'[u] = at[u]
      BY <1>2, <2>1, <2>2
    <3> QED BY <1>1, <3>1
  <2> QED BY <2>2 DEF SettleInv
<1> QED BY <1>3, <1>4

\* What ScanInv says of one thread.
ScanOK(t) ==
  \A i \in DOMAIN list[at[t]] : i < pos[t] =>
    /\ first[t] => status[list[at[t]][i]] = "Complete"
    /\ kind[list[at[t]][i]] \in {"Barrier", "WaitForEvents"} =>
         status[list[at[t]][i]] = "Complete"

\* Nobody touches a list while another thread holds its mutex.
LEMMA ListUntouched ==
  ASSUME TypeOK, LockInv, FrameInv, NEW t \in Thread, ThreadStep(t), NEW u \in Thread \ {t},
         pc[u] = "scan"
  PROVE  list'[at[u]] = list[at[u]]
<1>0. at[u] \in Queue /\ lock[at[u]] = u /\ u # None /\ list \in [Queue -> Seq(Event)]
  BY AtQueue, ConstantsOK DEF LockInv, InQueue, TypeOK, QueueTypes
<1>1. CASE t \in Host /\ QueueEvent(t)
  BY <1>0, <1>1 DEF QueueEvent
<1>2. CASE EraseFinished(t)
  <2>1. pc[t] = "erase" /\ at[t] \in Queue
    BY <1>2, AtQueue DEF EraseFinished, Erasing, InQueue
  <2>2. lock[at[t]] = t
    BY <2>1 DEF LockInv
  <2> QED BY <1>0, <1>2, <2>2 DEF EraseFinished
<1>3. CASE ~(t \in Host /\ QueueEvent(t)) /\ ~EraseFinished(t)
  BY <1>3, DataSteps
     DEF DataStep, dataVars, CreateUserEvent, Enqueue, InitFails, SetUser, ScanSubmit, Scanning, Settle,
         WorkerGet, WorkerCompletes, WorkerFails, queueVars
<1> QED BY <1>1, <1>2, <1>3

\* What the loop knows of the events it passed stays true while it stands still.
LEMMA ScanStands ==
  ASSUME TypeOK, FrameInv, EventInv, ListInv, ScanInv, SettleInv, NEW t \in Thread, ThreadStep(t),
         NEW u \in Thread, pc[u] = "scan", list'[at[u]] = list[at[u]],
         at'[u] = at[u], pos'[u] = pos[u], first'[u] => first[u]
  PROVE  ScanOK(u)'
<1>0. at[u] \in Queue
  BY AtQueue DEF InQueue
<1>1. ASSUME NEW i \in DOMAIN list[at[u]], i < pos[u]
      PROVE  LET e == list[at[u]][i]
             IN  /\ first'[u] => status'[e] = "Complete"
                 /\ kind'[e] \in {"Barrier", "WaitForEvents"} => status'[e] = "Complete"
  <2> DEFINE e == list[at[u]][i]
  <2>1. e \in issued /\ e \in Event
    BY <1>0 DEF ListInv, TypeOK, GhostTypes
  <2>2. /\ first[u] => status[e] = "Complete"
        /\ kind[e] \in {"Barrier", "WaitForEvents"} => status[e] = "Complete"
    BY <1>1 DEF ScanInv
  <2>3. status[e] = "Complete" => status'[e] = "Complete"
    BY <2>1, FinishedStable DEF Finished
  <2>4. kind'[e] = kind[e]
    BY <2>1, IssuedStable
  <2> QED BY <2>2, <2>3, <2>4
<1> QED BY <1>1 DEF ScanOK

\* The iterator goes past the current event.
LEMMA ScanAdvances ==
  ASSUME TypeOK, FrameInv, EventInv, ListInv, ScanInv, NEW t \in Thread, pc[t] = "scan",
         ~AtEnd(t), Advance(t), at'[t] = at[t], UNCHANGED <<list, status, kind>>,
         first'[t] => first[t] /\ status[Current(t)] = "Complete",
         kind[Current(t)] \in {"Barrier", "WaitForEvents"} => status[Current(t)] = "Complete"
  PROVE  ScanOK(t)'
<1>0. pos'[t] = pos[t] + 1 /\ pos[t] \in Nat /\ at[t] \in Queue /\ list[at[t]] \in Seq(Event)
  BY AtQueue DEF Advance, TypeOK, LocalTypes, QueueTypes, InQueue
<1>1. ASSUME NEW i \in DOMAIN list[at[t]], i < pos[t] + 1
      PROVE  LET e == list[at[t]][i]
             IN  /\ first'[t] => status[e] = "Complete"
                 /\ kind[e] \in {"Barrier", "WaitForEvents"} => status[e] = "Complete"
  <2>1. i < pos[t] \/ i = pos[t]
    BY <1>0, <1>1
  <2>2. CASE i < pos[t]
    BY <2>2 DEF ScanInv
  <2>3. CASE i = pos[t]
    BY <2>3 DEF Current
  <2> QED BY <2>1, <2>2, <2>3
<1> QED BY <1>0, <1>1 DEF ScanOK

\* A thread is in the loop because it has just taken the mutex or was in it.
LEMMA ScanPlace ==
  ASSUME TypeOK, FrameInv, LoopInv, NEW t \in Thread, ThreadStep(t), pc'[t] = "scan"
  PROVE  \/ PushLock(t) \/ ScanLook(t) \/ ScanDone(t) \/ ScanBusy(t) \/ ScanSkip(t) \/ ScanSubmit(t)
         \/ pc[t] = "scan" /\ UNCHANGED <<dataVars, pc, at, pos, first>>
<1>0. LocalTypes
  BY DEF TypeOK
<1>1. CASE pc[t] # "idle" /\ (Resume(t) \/ Return(t))
  <2>1. pc'[t] \in {"idle", after[t]}
    BY <1>0, <1>1, ResumePlace, ReturnPlace
  <2>2. after[t] # "scan"
    BY <1>1, AfterPlace
  <2> QED BY <2>1, <2>2
<1>2. CASE pc[t] = "idle" \/ (~Resume(t) /\ ~Return(t))
  <2>1. CASE Push(t)
    BY <1>0, <1>2, <2>1
       DEF Push, ScanEnd, ScanBehind, ScanWaitForEvents, ScanDummy, Settle, Scanning, PushReturn, Go,
           LocalTypes
  <2>2. CASE Clean(t)
    BY <1>0, <1>2, <2>2
       DEF Clean, CleanLock, EraseFinished, EraseSkip, EraseEnd, Cleaned, Erasing, Go, LocalTypes
  <2>3. CASE Start(t)
    BY <1>0, <2>3
       DEF Start, CreateUserEvent, Enqueue, FlushCall, FinishCall, WaitCall, SetUserCall, Begin, Go,
           LocalTypes
  <2>4. CASE Continue(t) /\ ~Push(t) /\ ~Clean(t)
    BY <1>0, <1>2, <2>4
       DEF Continue, InitFails, QueueEvent, FlushTest, FlushWait, FinishStore, FinishFails, FinishCode,
           FinishWait, WaitCheck, WaitSpin, SetUser, FlushQueues, FlushReturn, FinishReturn, Go,
           LocalTypes
  <2>5. CASE SpuriousWakeup(t)
    BY <2>5 DEF SpuriousWakeup, localVars, callVars, loopVars, dataVars, ghostVars
  <2>6. CASE t = Worker /\ (WorkerGet \/ WorkerCompletes \/ WorkerFails)
    BY <1>0, <2>6 DEF WorkerGet, WorkerCompletes, WorkerFails, Go, LocalTypes
  <2> QED BY <2>1, <2>2, <2>3, <2>4, <2>5, <2>6 DEF ThreadStep, Work
<1> QED BY <1>1, <1>2

\* A step keeps what every running loop knows of the events it passed.
LEMMA ScanStep ==
  ASSUME TypeOK, LockInv, FrameInv, LoopInv, EventInv, ListInv, ScanInv, SettleInv,
         NEW t \in Thread, ThreadStep(t)
  PROVE  ScanInv'
<1>0. LocalTypes
  BY DEF TypeOK
<1>1. ASSUME NEW u \in Thread \ {t}, pc'[u] = "scan" PROVE ScanOK(u)'
  BY <1>1, OneThread, ListUntouched, ScanStands DEF SameLocals
<1>2. ASSUME pc'[t] = "scan" PROVE ScanOK(t)'
  <2>1. CASE PushLock(t)
    <3>1. pos'[t] = 1
      BY <1>0, <2>1 DEF PushLock, LoopInv, localVars, loopVars
    <3>2. DOMAIN list'[at'[t]] \subseteq Nat \ {0}
      <4>1. at'[t] \in Queue /\ list' = list
        BY <2>1, AtQueue DEF PushLock, InQueue, localVars, callVars
      <4>2. list[at'[t]] \in Seq(Event)
        BY <4>1 DEF TypeOK, QueueTypes
      <4> QED BY <4>1, <4>2
    <3> QED BY <3>1, <3>2 DEF ScanOK
  <2>7. CASE ScanLook(t)
    <3>1. /\ pc[t] = "scan" /\ list' = list /\ at'[t] = at[t] /\ pos'[t] = pos[t] /\ first'[t] = first[t]
      BY <2>7 DEF ScanLook, Scanning, queueVars, callVars
    <3> QED BY <3>1, ScanStands
  <2>2. CASE ScanDone(t)
    BY <2>2, ScanAdvances DEF ScanLook, ScanDone, Scanning, Done, callVars, queueVars, eventVars
  <2>3. CASE ScanBusy(t)
    <3>1. kind[Current(t)] \in {"Barrier", "WaitForEvents"} => status[Current(t)] = "Complete"
      <4>1. Current(t) \in issued /\ Current(t) \in Event
        BY <2>3, CurrentIssued DEF ScanBusy, LookAway, Scanning, TypeOK, GhostTypes
      <4> QED BY <2>3, <4>1 DEF ScanBusy, EventInv, IsDummy, DummyKinds
    <3>2. ~first'[t]
      BY <1>0, <2>3 DEF ScanBusy, LookAway, LocalTypes
    <3> QED BY <2>3, <3>1, <3>2, ScanAdvances DEF ScanBusy, LookAway, Scanning, callVars, queueVars, eventVars
  <2>4. CASE ScanSkip(t)
    <3>1. kind[Current(t)] \notin {"Barrier", "WaitForEvents"}
      <4>1. Current(t) \in Event
        BY <2>4, CurrentIssued DEF ScanSkip, Scanning, Pushable, TypeOK, GhostTypes
      <4> QED BY <2>4, <4>1 DEF ScanSkip, EventInv, WaitListDone
    <3>2. ~first'[t]
      BY <1>0, <2>4 DEF ScanSkip, LocalTypes
    <3> QED BY <2>4, <3>1, <3>2, ScanAdvances DEF ScanSkip, Scanning, Pushable, callVars, eventVars
  <2>5. CASE ScanSubmit(t)
    <3>1. /\ pc[t] = "scan" /\ list' = list /\ at'[t] = at[t] /\ pos'[t] = pos[t] /\ ~first'[t]
      BY <1>0, <2>5 DEF ScanSubmit, Scanning, queueVars, callVars, LocalTypes
    <3> QED BY <3>1, ScanStands
  <2>6. CASE pc[t] = "scan" /\ UNCHANGED <<dataVars, pc, at, pos, first>>
    BY <2>6, ScanStands DEF dataVars
  <2> QED BY <1>2, <2>1, <2>2, <2>3, <2>4, <2>5, <2>6, <2>7, ScanPlace
<1> QED BY <1>1, <1>2 DEF ScanInv, ScanOK

\* A step takes up only events that nothing keeps back.
LEMMA StartStep ==
  ASSUME TypeOK, FrameInv, EventInv, ListInv, ScanInv, SettleInv, StartInv,
         NEW t \in Thread, ThreadStep(t)
  PROVE  StartInv'
<1>0. status \in [Event -> Statuses] /\ issued \subseteq Event
  BY DEF TypeOK, EventTypes, GhostTypes
\* Only the two steps that take an event up make it start.
<1>1. ASSUME NEW e \in issued', status'[e] # "Queued"
      PROVE  /\ e \in issued
             /\ \/ status[e] # "Queued"
                \/ ScanSubmit(t) /\ e = Current(t)
                \/ Settle(t) /\ e = dummy[t]
  <2>1. CASE UNCHANGED dataVars
    BY <1>1, <2>1 DEF dataVars, eventVars
  <2>2. CASE t \in Host /\ CreateUserEvent(t)
    BY <1>0, <1>1, <2>2 DEF CreateUserEvent, Fresh, ghostVars, EventInv
  <2>3. CASE t \in Host /\ Enqueue(t)
    <3>1. PICK d \in Event, q \in Queue, k \in Kind, W \in SUBSET Event : Construct(d, q, k, W)
      BY <2>3 DEF Enqueue
    <3> QED BY <1>0, <1>1, <2>3, <3>1 DEF Construct, Enqueue, ghostVars
  <2>4. CASE t \in Host /\ InitFails(t)
    <3>1. ev[t] \notin issued
      BY <2>4 DEF InitFails, FrameInv, HostFrame
    <3> QED BY <1>0, <1>1, <2>4, <3>1 DEF InitFails, ghostVars
  <2>5. CASE t \in Host /\ QueueEvent(t)
    <3>1. status[ev[t]] = "Queued"
      BY <2>5 DEF QueueEvent, FrameInv, HostFrame
    <3> QED BY <1>0, <1>1, <2>5, <3>1 DEF QueueEvent, eventVars
  <2>6. CASE t \in Host /\ SetUser(t)
    <3>1. kind[ev[t]] = "User"
      BY <2>6 DEF SetUser, FrameInv, HostFrame
    <3> QED BY <1>0, <1>1, <2>6, <3>1 DEF SetUser, ghostVars, EventInv
  <2>7. CASE ScanSubmit(t)
    BY <1>0, <1>1, <2>7 DEF ScanSubmit, Scanning, ghostVars
  <2>8. CASE Settle(t)
    BY <1>0, <1>1, <2>8 DEF Settle, ghostVars
  <2>9. CASE EraseFinished(t)
    BY <1>1, <2>9 DEF EraseFinished, Erasing, eventVars, ghostVars
  <2>10. CASE WorkerGet
    BY <1>1, <2>10 DEF WorkerGet, eventVars, ghostVars
  <2>11. CASE WorkerCompletes \/ WorkerFails
    BY <1>0, <1>1, <2>11, WorkerEvent DEF WorkerCompletes, WorkerFails, ghostVars
  <2> QED
    BY <2>1, <2>2, <2>3, <2>4, <2>5, <2>6, <2>7, <2>8, <2>9, <2>10, <2>11, DataSteps DEF DataStep
<1>2. ASSUME NEW e \in issued', status'[e] # "Queued" PROVE CanStart(e)
  <2>1. CASE status[e] # "Queued"
    BY <1>0, <1>1, <1>2, <2>1 DEF StartInv, Started
  <2>2. CASE ScanSubmit(t) /\ e = Current(t)
    BY <2>2, ScanReady DEF ScanSubmit, Scanning
  <2>3. CASE Settle(t) /\ e = dummy[t]
    BY <2>3 DEF Settle, SettleInv
  <2> QED BY <1>1, <1>2, <2>1, <2>2, <2>3
<1>3. ASSUME NEW e \in issued', status'[e] # "Queued" PROVE CanStart(e)'
  BY <1>1, <1>2, <1>3, CanStartStable
<1> QED BY <1>3 DEF StartInv, Started
=============================================================================
