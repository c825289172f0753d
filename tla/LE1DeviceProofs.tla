--------------------------- MODULE LE1DeviceProofs --------------------------
(***************************************************************************)
(* Proofs about LE1Device for any number of threads and events, under the  *)
(* assumption OneCreator: command queues are created by one thread.        *)
(*                                                                         *)
(* IInv is inductive.  A step pushes an event, takes one, settles one or   *)
(* is quiet, that is, neither the list, the results nor the event in the   *)
(* worker's hands change (StepKinds, QuietSteps); the invariant about the  *)
(* events and the implementation of DeviceService are proved once for each *)
(* of the four, the other conjuncts of IInv action by action.              *)
(***************************************************************************)
EXTENDS LE1Device, TLAPS

-----------------------------------------------------------------------------
(* Sequences.                                                              *)

\* Append(s, e) keeps the elements of s and puts e behind them, as the
\* p_events.push_back of pushEvent does.

LEMMA AppendFacts ==
  ASSUME NEW S, NEW s \in Seq(S), NEW e \in S
  PROVE  /\ Append(s, e) \in Seq(S)
         /\ DOMAIN s = 1 .. Len(s) /\ Len(s) \in Nat
         /\ DOMAIN Append(s, e) = 1 .. Len(s) + 1
         /\ \A i \in 1 .. Len(s) : Append(s, e)[i] = s[i]
         /\ Append(s, e)[Len(s) + 1] = e
  OBVIOUS

\* Tail(s) is s without its first element, with the others moved by one, as the
\* pop_front of getEvent leaves the list.
LEMMA TailFacts ==
  ASSUME NEW S, NEW s \in Seq(S), s # <<>>
  PROVE  /\ Head(s) \in S /\ Head(s) = s[1] /\ 1 \in DOMAIN s
         /\ Tail(s) \in Seq(S)
         /\ DOMAIN s = 1 .. Len(s) /\ Len(s) \in Nat
         /\ DOMAIN Tail(s) = 1 .. Len(s) - 1
         /\ \A i \in DOMAIN Tail(s) : i + 1 \in DOMAIN s /\ Tail(s)[i] = s[i + 1]
         /\ \A i \in DOMAIN s : i = 1 \/ i - 1 \in DOMAIN Tail(s)
  OBVIOUS

-----------------------------------------------------------------------------
(* The four kinds of steps.                                                *)

\* What a step leaves alone that neither pushes, takes nor settles an event.
Quiet ==
  /\ events' = events /\ result' = result
  /\ \A e \in Event : kmutex'[e] \in {kmutex[e], None}
  /\ \A w \in Worker : pc'[w] \in Busy <=> pc[w] \in Busy
  /\ \A w \in Worker : pc[w] \in Busy => cur'[w] = cur[w]

\* getEvent takes an event off the list; setStatus gives it its result.
Taking(w)  == Reserve(w) \/ GetOther(w)
Settling(w) == Complete(w) \/ Fail(w)
QuietStep ==
  \/ \E t \in Creator : InitCall(t) \/ Initialise(t)
  \/ \E t \in Host : StopWorkers(t) \/ Destroy(t)
  \/ \E w \in Worker : \/ GetWaits(w) \/ GetStops(w) \/ GetKernel(w) \/ RunOther(w)
                       \/ TransferLock(w) \/ TransferUnlock(w) \/ RunKernel(w)
                       \/ Loop(w) \/ SpuriousWakeup(w)

\* Every step of the device pushes, takes or settles an event or is one of the
\* quiet actions.
LEMMA StepKinds ==
  Next => \/ \E t \in Thread : PushEvent(t)
          \/ \E w \in Worker : Taking(w) \/ Settling(w)
          \/ QuietStep
  BY DEF Next, QuietStep, Taking, Settling, Work, GetEvent, Thread

\* The quiet actions are quiet: init, the waiting in getEvent, the execution of
\* commands and the destructor leave the list and the results alone.
LEMMA QuietSteps == ASSUME TypeOK, QuietStep PROVE Quiet
<1> USE DeviceConstants DEF TypeOK, Thread, Busy, HostPlaces, Quiet, Go, initVars, listVars, simVars, eventVars
<1>1. ASSUME NEW t \in Creator, InitCall(t) \/ InitDevice(t) \/ InitSimulator(t) \/ InitDone(t) PROVE Quiet
  BY <1>1 DEF InitCall, InitDevice, InitSimulator, InitDone
<1>2. ASSUME NEW t \in Creator, Spawn(t) PROVE Quiet
  BY <1>2 DEF Spawn
<1>3. ASSUME NEW t \in Host, StopWorkers(t) \/ Destroy(t) PROVE Quiet
  BY <1>3 DEF StopWorkers, Destroy
<1>4. ASSUME NEW w \in Worker, GetWaits(w) \/ GetStops(w) \/ GetKernel(w) \/ SpuriousWakeup(w) \/ Loop(w)
      PROVE  Quiet
  BY <1>4 DEF GetWaits, GetStops, GetKernel, SpuriousWakeup, Loop
<1>5. ASSUME NEW w \in Worker, RunOther(w) \/ TransferLock(w) \/ TransferUnlock(w) \/ KernelLock(w) \/ Finished(w)
      PROVE  Quiet
  BY <1>5 DEF RunOther, TransferLock, TransferUnlock, KernelLock, Finished
<1>6. ASSUME NEW w \in Worker, PrepareDone(w) \/ PrepareFails(w) \/ SimulateDone(w) \/ SimulateFails(w)
      PROVE  Quiet
  BY <1>6 DEF PrepareDone, PrepareFails, SimulateDone, SimulateFails, Running, UnlockKernel
<1>7. ASSUME NEW w \in Worker, ResultsRead(w) \/ ResultsUnhandled(w) \/ ResultsAbandoned(w) PROVE Quiet
  BY <1>7 DEF ResultsRead, ResultsUnhandled, ResultsAbandoned, Running, UnlockKernel
<1>8. QED
  BY <1>1, <1>2, <1>3, <1>4, <1>5, <1>6, <1>7 DEF QuietStep, Initialise, RunKernel

-----------------------------------------------------------------------------
(* EventsInv.                                                              *)

\* A quiet step keeps EventsInv: a kernel's mutex may be released in it.
LEMMA EventsKept == ASSUME TypeOK, EventsInv, Quiet PROVE EventsInv'
  BY DEF TypeOK, EventsInv, Quiet

\* pushEvent appends a new event, of some kind, to the list.
LEMMA PushAppends ==
  ASSUME NEW t \in Thread, PushEvent(t)
  PROVE  /\ \E e \in Event, k \in Kinds :
              /\ result[e] = "new" /\ events' = Append(events, e)
              /\ result' = [result EXCEPT ![e] = "pushed"]
              /\ kind' = [kind EXCEPT ![e] = k]
         /\ UNCHANGED <<stop, simulator, simLock, kmutex, pc, cur, using>>
  BY DEF PushEvent, Fresh, initVars, simVars

\* pushEvent keeps EventsInv: the new event is not in the list already.
LEMMA EventsPushed ==
  ASSUME TypeOK, EventsInv, NEW t \in Thread, PushEvent(t) PROVE EventsInv'
<1>1. PICK e \in Event :
         /\ result[e] = "new" /\ events' = Append(events, e)
         /\ result' = [result EXCEPT ![e] = "pushed"]
  BY PushAppends
<1>2. UNCHANGED <<kmutex, pc, cur>>
  BY PushAppends
<1> DEFINE n == Len(events)
<1>3. /\ DOMAIN events = 1 .. n /\ n \in Nat /\ DOMAIN events' = 1 .. n + 1
      /\ \A i \in 1 .. n : events'[i] = events[i]
      /\ events'[n + 1] = e
  BY <1>1, AppendFacts DEF TypeOK
<1>4. \A i \in 1 .. n : events[i] # e /\ events[i] \in Event
  BY <1>1, <1>3 DEF EventsInv, TypeOK
<1>5. \A w \in Worker : pc[w] \in Busy => cur[w] # e
  BY <1>1 DEF EventsInv
<1>6. \A d \in Event : result'[d] = IF d = e THEN "pushed" ELSE result[d]
  BY <1>1 DEF TypeOK
<1> HIDE DEF n
<1>7. \A i \in DOMAIN events' : result'[events'[i]] = "pushed" /\ kmutex'[events'[i]] = None
  BY <1>1, <1>2, <1>3, <1>4, <1>6 DEF EventsInv
<1>8. \A i, j \in DOMAIN events' : i # j => events'[i] # events'[j]
  BY <1>3, <1>4 DEF EventsInv
<1>9. \A w \in Worker : pc'[w] \in Busy =>
        /\ cur'[w] \in Event /\ result'[cur'[w]] = "pushed"
        /\ \A i \in DOMAIN events' : events'[i] # cur'[w]
  BY <1>2, <1>3, <1>5, <1>6 DEF EventsInv
<1>10. \A d \in Event : result'[d] = "new" => kmutex'[d] = None
  BY <1>2, <1>6 DEF EventsInv
<1>11. \A d \in Event : result'[d] = "pushed" =>
         \/ \E i \in DOMAIN events' : events'[i] = d
         \/ \E w \in Worker : pc'[w] \in Busy /\ cur'[w] = d
  BY <1>2, <1>3, <1>6 DEF EventsInv
<1> QED
  BY <1>7, <1>8, <1>9, <1>10, <1>11 DEF EventsInv

\* Taking the head of the list keeps EventsInv: it moves to the worker's hands,
\* and nothing else in the list is equal to it.
LEMMA EventsTaken ==
  ASSUME OneCreator, IInv, NEW w \in Worker, Taking(w) PROVE EventsInv'
<1> DEFINE h == Head(events)
<1>1. /\ events # <<>> /\ events' = Tail(events) /\ result' = result /\ cur'[w] = h
      /\ \A v \in Worker : v # w => cur'[v] = cur[v] /\ pc'[v] = pc[v]
      /\ pc[w] \notin Busy /\ pc'[w] \in Busy
      /\ \A e \in Event : e # h => kmutex'[e] = kmutex[e]
  BY DeviceConstants DEF Taking, Reserve, GetOther, Getting, Go, Busy, IInv, RunInv, TypeOK, Thread,
                         eventVars
<1>2. /\ h \in Event /\ h = events[1] /\ 1 \in DOMAIN events
      /\ \A i \in DOMAIN events' : i + 1 \in DOMAIN events /\ events'[i] = events[i + 1]
                                   /\ i \in Nat \ {0}
      /\ \A i \in DOMAIN events : i = 1 \/ i - 1 \in DOMAIN events'
      /\ DOMAIN events \subseteq Nat
  BY <1>1, TailFacts DEF IInv, TypeOK
<1>3. \A i \in DOMAIN events : events[i] \in Event
  BY DEF IInv, TypeOK
<1> HIDE DEF h
<1>4. \A i \in DOMAIN events' : events'[i] # h
  BY <1>2 DEF IInv, EventsInv
<1>5. \A i \in DOMAIN events' : result'[events'[i]] = "pushed" /\ kmutex'[events'[i]] = None
  <2> SUFFICES ASSUME NEW i \in DOMAIN events'
               PROVE  result'[events'[i]] = "pushed" /\ kmutex'[events'[i]] = None
    OBVIOUS
  <2>1. i + 1 \in DOMAIN events /\ events'[i] = events[i + 1]
    BY <1>2
  <2>2. result[events[i + 1]] = "pushed" /\ kmutex[events[i + 1]] = None
    BY <2>1 DEF IInv, EventsInv
  <2> QED
    BY <1>1, <1>3, <1>4, <2>1, <2>2
<1>6. \A i, j \in DOMAIN events' : i # j => events'[i] # events'[j]
  BY <1>2 DEF IInv, EventsInv
<1>7. \A v \in Worker : pc'[v] \in Busy =>
        /\ cur'[v] \in Event /\ result'[cur'[v]] = "pushed"
        /\ \A i \in DOMAIN events' : events'[i] # cur'[v]
  BY <1>1, <1>2, <1>4 DEF IInv, EventsInv
<1>8. \A d \in Event : result'[d] = "new" => kmutex'[d] = None
  BY <1>1, <1>2 DEF IInv, EventsInv
<1>9. \A d \in Event : result'[d] = "pushed" =>
         \/ \E i \in DOMAIN events' : events'[i] = d
         \/ \E v \in Worker : pc'[v] \in Busy /\ cur'[v] = d
  <2> SUFFICES ASSUME NEW d \in Event, result[d] = "pushed", d # h
               PROVE  \/ \E i \in DOMAIN events' : events'[i] = d
                      \/ \E v \in Worker : pc'[v] \in Busy /\ cur'[v] = d
    BY <1>1
  <2>1. CASE \E i \in DOMAIN events : events[i] = d
    BY <2>1, <1>2
  <2>2. CASE \E v \in Worker : pc[v] \in Busy /\ cur[v] = d
    BY <2>2, <1>1
  <2> QED
    BY <2>1, <2>2 DEF IInv, EventsInv
<1> QED
  BY <1>5, <1>6, <1>7, <1>8, <1>9 DEF EventsInv

\* Complete and Fail keep EventsInv: the event they settle is in no list.
LEMMA EventsSettled ==
  ASSUME IInv, NEW w \in Worker, Settling(w) PROVE EventsInv'
<1>1. /\ UNCHANGED <<events, kmutex, cur>>
      /\ pc[w] \in Busy /\ pc'[w] \notin Busy
      /\ \A v \in Worker : v # w => pc'[v] = pc[v] /\ pc[v] = "none"
      /\ \A e \in Event : e # cur[w] => result'[e] = result[e]
      /\ result'[cur[w]] \in {"Complete", "Failed"}
  BY DeviceConstants DEF Settling, Complete, Fail, Go, Busy, IInv, InitInv, EventsInv, TypeOK, Thread,
                         listVars, eventVars
<1> QED
  BY <1>1 DEF IInv, EventsInv, Busy, TypeOK

-----------------------------------------------------------------------------
(* The other conjuncts of IInv, action by action.                          *)

\* Each action assigns values of the right type; the list is not empty where
\* getEvent takes its head.
LEMMA TypeOKStep == ASSUME IInv, Next PROVE TypeOK'
<1> USE DeviceConstants DEF IInv, TypeOK, RunInv,
      Thread, Kinds, HostPlaces, Busy, initVars, listVars, simVars, eventVars
<1>1. ASSUME NEW t \in Creator, InitCall(t) PROVE TypeOK'
  BY <1>1 DEF InitCall, Go
<1>2. ASSUME NEW t \in Creator, InitDevice(t) PROVE TypeOK'
  BY <1>2 DEF InitDevice, Go
<1>3. ASSUME NEW t \in Creator, InitSimulator(t) PROVE TypeOK'
  BY <1>3 DEF InitSimulator, Go
<1>4. ASSUME NEW t \in Creator, Spawn(t) PROVE TypeOK'
  <2>1. PICK w \in Worker : pc' = [pc EXCEPT ![t] = "spawned", ![w] = "get"]
    BY <1>4 DEF Spawn
  <2>2. pc' \in [Thread -> HostPlaces \union Busy \union {"none", "get", "reserve", "done"}]
    BY <2>1
  <2> QED
    BY <1>4, <2>2 DEF Spawn
<1>5. ASSUME NEW t \in Creator, InitDone(t) PROVE TypeOK'
  BY <1>5 DEF InitDone, Go
<1>6. ASSUME NEW t \in Host, StopWorkers(t) PROVE TypeOK'
  BY <1>6 DEF StopWorkers, Go
<1>7. ASSUME NEW t \in Host, Destroy(t) PROVE TypeOK'
  BY <1>7 DEF Destroy, Go
<1>8. ASSUME NEW t \in Thread, PushEvent(t) PROVE TypeOK'
  BY <1>8 DEF PushEvent
<1>9. ASSUME NEW w \in Worker, GetWaits(w) PROVE TypeOK'
  BY <1>9 DEF GetWaits, Getting
<1>10. ASSUME NEW w \in Worker, GetStops(w) PROVE TypeOK'
  BY <1>10 DEF GetStops, Getting, Go
<1>11. ASSUME NEW w \in Worker, GetKernel(w) PROVE TypeOK'
  BY <1>11 DEF GetKernel, Getting, Go
<1>12. ASSUME NEW w \in Worker, Reserve(w) PROVE TypeOK'
  BY <1>12 DEF Reserve, Go
<1>13. ASSUME NEW w \in Worker, GetOther(w) PROVE TypeOK'
  BY <1>13 DEF GetOther, Getting, Go
<1>14. ASSUME NEW w \in Worker, RunOther(w) PROVE TypeOK'
  BY <1>14 DEF RunOther, Go
<1>15. ASSUME NEW w \in Worker, TransferLock(w) PROVE TypeOK'
  BY <1>15 DEF TransferLock, Go
<1>16. ASSUME NEW w \in Worker, TransferUnlock(w) PROVE TypeOK'
  BY <1>16 DEF TransferUnlock, Go
<1>17. ASSUME NEW w \in Worker, KernelLock(w) PROVE TypeOK'
  BY <1>17 DEF KernelLock, Go
<1>18. ASSUME NEW w \in Worker, PrepareDone(w) PROVE TypeOK'
  BY <1>18 DEF PrepareDone, Go, Running
<1>19. ASSUME NEW w \in Worker, PrepareFails(w) PROVE TypeOK'
  <2>1. kmutex' \in [Event -> Worker \union {None}]
    <3>1. CASE UnlockKernel(w)
      BY <3>1 DEF UnlockKernel
    <3>2. CASE UNCHANGED kmutex
      BY <3>2
    <3> QED
      BY <1>19, <3>1, <3>2 DEF PrepareFails
  <2> QED
    BY <1>19, <2>1 DEF PrepareFails, Go, Running, UnlockSimulator
<1>20. ASSUME NEW w \in Worker, SimulateDone(w) PROVE TypeOK'
  BY <1>20 DEF SimulateDone, Go, Running
<1>21. ASSUME NEW w \in Worker, SimulateFails(w) PROVE TypeOK'
  BY <1>21 DEF SimulateFails, Go, Running, UnlockSimulator, UnlockKernel
<1>22. ASSUME NEW w \in Worker, ResultsRead(w) PROVE TypeOK'
  BY <1>22 DEF ResultsRead, Go, Running, UnlockSimulator, UnlockKernel
<1>23. ASSUME NEW w \in Worker, ResultsUnhandled(w) PROVE TypeOK'
  BY <1>23 DEF ResultsUnhandled, Go, Running, UnlockSimulator, UnlockKernel
<1>24. ASSUME NEW w \in Worker, ResultsAbandoned(w) PROVE TypeOK'
  BY <1>24 DEF ResultsAbandoned, Go, Running
<1>25. ASSUME NEW w \in Worker, Finished(w) PROVE TypeOK'
  BY <1>25 DEF Finished, Go
<1>26. ASSUME NEW w \in Worker, Complete(w) PROVE TypeOK'
  BY <1>26 DEF Complete, Go
<1>27. ASSUME NEW w \in Worker, Fail(w) PROVE TypeOK'
  BY <1>27 DEF Fail, Go
<1>28. ASSUME NEW w \in Worker, Loop(w) PROVE TypeOK'
  BY <1>28 DEF Loop, Go
<1>29. ASSUME NEW w \in Worker, SpuriousWakeup(w) PROVE TypeOK'
  BY <1>29 DEF SpuriousWakeup
<1>30. QED
    BY <1>1, <1>2, <1>3, <1>4, <1>5, <1>6, <1>7, <1>8, <1>9, <1>10, <1>11, <1>12, <1>13, <1>14,
     <1>15, <1>16, <1>17, <1>18, <1>19, <1>20, <1>21, <1>22, <1>23, <1>24, <1>25, <1>26, <1>27,
     <1>28, <1>29      DEF Next, Initialise, Work, GetEvent, RunKernel

\* Only init creates the worker and the simulator, and with one creator it does
\* so once.
LEMMA InitInvStep == ASSUME IInv, OneCreator, Next PROVE InitInv'
<1> USE DeviceConstants DEF IInv, TypeOK, InitInv, RunInv, OneCreator,
      Thread, Simulating, initVars, listVars, simVars, eventVars
<1>1. ASSUME NEW t \in Creator, InitCall(t) PROVE InitInv'
  BY <1>1 DEF InitCall, Go
<1>2. ASSUME NEW t \in Creator, InitDevice(t) PROVE InitInv'
  BY <1>2 DEF InitDevice, Go
<1>3. ASSUME NEW t \in Creator, InitSimulator(t) PROVE InitInv'
  BY <1>3 DEF InitSimulator, Go
<1>4. ASSUME NEW t \in Creator, Spawn(t) PROVE InitInv'
  BY <1>4 DEF Spawn
<1>5. ASSUME NEW t \in Creator, InitDone(t) PROVE InitInv'
  BY <1>5 DEF InitDone, Go
<1>6. ASSUME NEW t \in Host, StopWorkers(t) PROVE InitInv'
  BY <1>6 DEF StopWorkers, Go
<1>7. ASSUME NEW t \in Host, Destroy(t) PROVE InitInv'
  BY <1>7 DEF Destroy, Go
<1>8. ASSUME NEW t \in Thread, PushEvent(t) PROVE InitInv'
  BY <1>8 DEF PushEvent
<1>9. ASSUME NEW w \in Worker, GetWaits(w) PROVE InitInv'
  BY <1>9 DEF GetWaits, Getting
<1>10. ASSUME NEW w \in Worker, GetStops(w) PROVE InitInv'
  BY <1>10 DEF GetStops, Getting, Go
<1>11. ASSUME NEW w \in Worker, GetKernel(w) PROVE InitInv'
  BY <1>11 DEF GetKernel, Getting, Go
<1>12. ASSUME NEW w \in Worker, Reserve(w) PROVE InitInv'
  BY <1>12 DEF Reserve, Go
<1>13. ASSUME NEW w \in Worker, GetOther(w) PROVE InitInv'
  BY <1>13 DEF GetOther, Getting, Go
<1>14. ASSUME NEW w \in Worker, RunOther(w) PROVE InitInv'
  BY <1>14 DEF RunOther, Go
<1>15. ASSUME NEW w \in Worker, TransferLock(w) PROVE InitInv'
  BY <1>15 DEF TransferLock, Go
<1>16. ASSUME NEW w \in Worker, TransferUnlock(w) PROVE InitInv'
  BY <1>16 DEF TransferUnlock, Go
<1>17. ASSUME NEW w \in Worker, KernelLock(w) PROVE InitInv'
  BY <1>17 DEF KernelLock, Go
<1>18. ASSUME NEW w \in Worker, PrepareDone(w) PROVE InitInv'
  BY <1>18 DEF PrepareDone, Go, Running
<1>19. ASSUME NEW w \in Worker, PrepareFails(w) PROVE InitInv'
  BY <1>19 DEF PrepareFails, Go, Running, UnlockSimulator, UnlockKernel
<1>20. ASSUME NEW w \in Worker, SimulateDone(w) PROVE InitInv'
  BY <1>20 DEF SimulateDone, Go, Running
<1>21. ASSUME NEW w \in Worker, SimulateFails(w) PROVE InitInv'
  BY <1>21 DEF SimulateFails, Go, Running, UnlockSimulator, UnlockKernel
<1>22. ASSUME NEW w \in Worker, ResultsRead(w) PROVE InitInv'
  BY <1>22 DEF ResultsRead, Go, Running, UnlockSimulator, UnlockKernel
<1>23. ASSUME NEW w \in Worker, ResultsUnhandled(w) PROVE InitInv'
  BY <1>23 DEF ResultsUnhandled, Go, Running, UnlockSimulator, UnlockKernel
<1>24. ASSUME NEW w \in Worker, ResultsAbandoned(w) PROVE InitInv'
  BY <1>24 DEF ResultsAbandoned, Go, Running
<1>25. ASSUME NEW w \in Worker, Finished(w) PROVE InitInv'
  BY <1>25 DEF Finished, Go
<1>26. ASSUME NEW w \in Worker, Complete(w) PROVE InitInv'
  BY <1>26 DEF Complete, Go
<1>27. ASSUME NEW w \in Worker, Fail(w) PROVE InitInv'
  BY <1>27 DEF Fail, Go
<1>28. ASSUME NEW w \in Worker, Loop(w) PROVE InitInv'
  BY <1>28 DEF Loop, Go
<1>29. ASSUME NEW w \in Worker, SpuriousWakeup(w) PROVE InitInv'
  BY <1>29 DEF SpuriousWakeup
<1>30. QED
    BY <1>1, <1>2, <1>3, <1>4, <1>5, <1>6, <1>7, <1>8, <1>9, <1>10, <1>11, <1>12, <1>13, <1>14,
     <1>15, <1>16, <1>17, <1>18, <1>19, <1>20, <1>21, <1>22, <1>23, <1>24, <1>25, <1>26, <1>27,
     <1>28, <1>29      DEF Next, Initialise, Work, GetEvent, RunKernel

\* p_events_mutex is held between two steps only from GetKernel to Reserve, and
\* a worker waits on the condition only while the list is empty.
LEMMA MutexInvStep == ASSUME IInv, OneCreator, Next PROVE MutexInv'
<1> USE DeviceConstants DEF IInv, TypeOK, InitInv, MutexInv,
      Thread, initVars, listVars, simVars, eventVars
<1>1. ASSUME NEW t \in Creator, InitCall(t) PROVE MutexInv'
  BY <1>1 DEF InitCall, Go
<1>2. ASSUME NEW t \in Creator, InitDevice(t) PROVE MutexInv'
  BY <1>2 DEF InitDevice, Go, OneCreator
<1>3. ASSUME NEW t \in Creator, InitSimulator(t) PROVE MutexInv'
  BY <1>3 DEF InitSimulator, Go
<1>4. ASSUME NEW t \in Creator, Spawn(t) PROVE MutexInv'
  BY <1>4 DEF Spawn
<1>5. ASSUME NEW t \in Creator, InitDone(t) PROVE MutexInv'
  BY <1>5 DEF InitDone, Go
<1>6. ASSUME NEW t \in Host, StopWorkers(t) PROVE MutexInv'
  BY <1>6 DEF StopWorkers, Go
<1>7. ASSUME NEW t \in Host, Destroy(t) PROVE MutexInv'
  BY <1>7 DEF Destroy, Go
<1>8. ASSUME NEW t \in Thread, PushEvent(t) PROVE MutexInv'
  BY <1>8 DEF PushEvent
<1>9. ASSUME NEW w \in Worker, GetWaits(w) PROVE MutexInv'
  BY <1>9 DEF GetWaits, Getting
<1>10. ASSUME NEW w \in Worker, GetStops(w) PROVE MutexInv'
  BY <1>10 DEF GetStops, Getting, Go
<1>11. ASSUME NEW w \in Worker, GetKernel(w) PROVE MutexInv'
  BY <1>11 DEF GetKernel, Getting, Go
<1>12. ASSUME NEW w \in Worker, Reserve(w) PROVE MutexInv'
  BY <1>12 DEF Reserve, Go
<1>13. ASSUME NEW w \in Worker, GetOther(w) PROVE MutexInv'
  BY <1>13 DEF GetOther, Getting, Go
<1>14. ASSUME NEW w \in Worker, RunOther(w) PROVE MutexInv'
  BY <1>14 DEF RunOther, Go
<1>15. ASSUME NEW w \in Worker, TransferLock(w) PROVE MutexInv'
  BY <1>15 DEF TransferLock, Go
<1>16. ASSUME NEW w \in Worker, TransferUnlock(w) PROVE MutexInv'
  BY <1>16 DEF TransferUnlock, Go
<1>17. ASSUME NEW w \in Worker, KernelLock(w) PROVE MutexInv'
  BY <1>17 DEF KernelLock, Go
<1>18. ASSUME NEW w \in Worker, PrepareDone(w) PROVE MutexInv'
  BY <1>18 DEF PrepareDone, Go, Running
<1>19. ASSUME NEW w \in Worker, PrepareFails(w) PROVE MutexInv'
  BY <1>19 DEF PrepareFails, Go, Running, UnlockSimulator, UnlockKernel
<1>20. ASSUME NEW w \in Worker, SimulateDone(w) PROVE MutexInv'
  BY <1>20 DEF SimulateDone, Go, Running
<1>21. ASSUME NEW w \in Worker, SimulateFails(w) PROVE MutexInv'
  BY <1>21 DEF SimulateFails, Go, Running, UnlockSimulator, UnlockKernel
<1>22. ASSUME NEW w \in Worker, ResultsRead(w) PROVE MutexInv'
  BY <1>22 DEF ResultsRead, Go, Running, UnlockSimulator, UnlockKernel
<1>23. ASSUME NEW w \in Worker, ResultsUnhandled(w) PROVE MutexInv'
  BY <1>23 DEF ResultsUnhandled, Go, Running, UnlockSimulator, UnlockKernel
<1>24. ASSUME NEW w \in Worker, ResultsAbandoned(w) PROVE MutexInv'
  BY <1>24 DEF ResultsAbandoned, Go, Running
<1>25. ASSUME NEW w \in Worker, Finished(w) PROVE MutexInv'
  BY <1>25 DEF Finished, Go
<1>26. ASSUME NEW w \in Worker, Complete(w) PROVE MutexInv'
  BY <1>26 DEF Complete, Go
<1>27. ASSUME NEW w \in Worker, Fail(w) PROVE MutexInv'
  BY <1>27 DEF Fail, Go
<1>28. ASSUME NEW w \in Worker, Loop(w) PROVE MutexInv'
  BY <1>28 DEF Loop, Go
<1>29. ASSUME NEW w \in Worker, SpuriousWakeup(w) PROVE MutexInv'
  BY <1>29 DEF SpuriousWakeup
<1>30. QED
    BY <1>1, <1>2, <1>3, <1>4, <1>5, <1>6, <1>7, <1>8, <1>9, <1>10, <1>11, <1>12, <1>13, <1>14,
     <1>15, <1>16, <1>17, <1>18, <1>19, <1>20, <1>21, <1>22, <1>23, <1>24, <1>25, <1>26, <1>27,
     <1>28, <1>29      DEF Next, Initialise, Work, GetEvent, RunKernel

\* The worker holds the simulator's and the kernel's mutex where run() means it.
LEMMA RunInvStep == ASSUME IInv, OneCreator, Next PROVE RunInv'
<1> USE DeviceConstants DEF IInv, TypeOK, InitInv, MutexInv, EventsInv, RunInv,
      Thread, Busy, Simulating, Kinds, initVars, listVars, simVars, eventVars
<1>1. ASSUME NEW t \in Creator, InitCall(t) PROVE RunInv'
  BY <1>1 DEF InitCall, Go
<1>2. ASSUME NEW t \in Creator, InitDevice(t) PROVE RunInv'
  BY <1>2 DEF InitDevice, Go, OneCreator
<1>3. ASSUME NEW t \in Creator, InitSimulator(t) PROVE RunInv'
  BY <1>3 DEF InitSimulator, Go
<1>4. ASSUME NEW t \in Creator, Spawn(t) PROVE RunInv'
  BY <1>4 DEF Spawn
<1>5. ASSUME NEW t \in Creator, InitDone(t) PROVE RunInv'
  BY <1>5 DEF InitDone, Go
<1>6. ASSUME NEW t \in Host, StopWorkers(t) PROVE RunInv'
  BY <1>6 DEF StopWorkers, Go
<1>7. ASSUME NEW t \in Host, Destroy(t) PROVE RunInv'
  BY <1>7 DEF Destroy, Go
<1>8. ASSUME NEW t \in Thread, PushEvent(t) PROVE RunInv'
  <2>1. PICK e \in Event, k \in Kinds :
          /\ result[e] = "new" /\ events' = Append(events, e) /\ kind' = [kind EXCEPT ![e] = k]
    BY <1>8, PushAppends
  <2>2. events # <<>> => events' # <<>> /\ Head(events') = Head(events)
    BY <2>1
  <2>3. \A w \in Worker : pc[w] \in {"reserve", "run"} => kind'[cur[w]] = kind[cur[w]]
    <3>1. \A w \in Worker : pc[w] \in {"reserve", "run"} => result[cur[w]] = "pushed"
      BY TailFacts
    <3> QED
      BY <2>1, <3>1
  <2>4. UNCHANGED <<stop, simVars, kmutex, pc, cur, using>>
    BY <1>8, PushAppends
  <2> QED
    BY <2>2, <2>3, <2>4
<1>9. ASSUME NEW w \in Worker, GetWaits(w) PROVE RunInv'
  BY <1>9 DEF GetWaits, Getting
<1>10. ASSUME NEW w \in Worker, GetStops(w) PROVE RunInv'
  BY <1>10 DEF GetStops, Getting, Go
<1>11. ASSUME NEW w \in Worker, GetKernel(w) PROVE RunInv'
  BY <1>11 DEF GetKernel, Getting, Go
<1>12. ASSUME NEW w \in Worker, Reserve(w) PROVE RunInv'
  BY <1>12 DEF Reserve, Go
<1>13. ASSUME NEW w \in Worker, GetOther(w) PROVE RunInv'
  BY <1>13 DEF GetOther, Getting, Go
<1>14. ASSUME NEW w \in Worker, RunOther(w) PROVE RunInv'
  BY <1>14 DEF RunOther, Go
<1>15. ASSUME NEW w \in Worker, TransferLock(w) PROVE RunInv'
  BY <1>15 DEF TransferLock, Go
<1>16. ASSUME NEW w \in Worker, TransferUnlock(w) PROVE RunInv'
  BY <1>16 DEF TransferUnlock, Go
<1>17. ASSUME NEW w \in Worker, KernelLock(w) PROVE RunInv'
  BY <1>17 DEF KernelLock, Go
<1>18. ASSUME NEW w \in Worker, PrepareDone(w) PROVE RunInv'
  BY <1>18 DEF PrepareDone, Go, Running
<1>19. ASSUME NEW w \in Worker, PrepareFails(w) PROVE RunInv'
  BY <1>19 DEF PrepareFails, Go, Running, UnlockSimulator, UnlockKernel
<1>20. ASSUME NEW w \in Worker, SimulateDone(w) PROVE RunInv'
  BY <1>20 DEF SimulateDone, Go, Running
<1>21. ASSUME NEW w \in Worker, SimulateFails(w) PROVE RunInv'
  BY <1>21 DEF SimulateFails, Go, Running, UnlockSimulator, UnlockKernel
<1>22. ASSUME NEW w \in Worker, ResultsRead(w) PROVE RunInv'
  BY <1>22 DEF ResultsRead, Go, Running, UnlockSimulator, UnlockKernel
<1>23. ASSUME NEW w \in Worker, ResultsUnhandled(w) PROVE RunInv'
  BY <1>23 DEF ResultsUnhandled, Go, Running, UnlockSimulator, UnlockKernel
<1>24. ASSUME NEW w \in Worker, ResultsAbandoned(w) PROVE RunInv'
  BY <1>24 DEF ResultsAbandoned, Go, Running
<1>25. ASSUME NEW w \in Worker, Finished(w) PROVE RunInv'
  BY <1>25 DEF Finished, Go
<1>26. ASSUME NEW w \in Worker, Complete(w) PROVE RunInv'
  BY <1>26 DEF Complete, Go
<1>27. ASSUME NEW w \in Worker, Fail(w) PROVE RunInv'
  BY <1>27 DEF Fail, Go
<1>28. ASSUME NEW w \in Worker, Loop(w) PROVE RunInv'
  BY <1>28 DEF Loop, Go
<1>29. ASSUME NEW w \in Worker, SpuriousWakeup(w) PROVE RunInv'
  BY <1>29 DEF SpuriousWakeup
<1>30. QED
    BY <1>1, <1>2, <1>3, <1>4, <1>5, <1>6, <1>7, <1>8, <1>9, <1>10, <1>11, <1>12, <1>13, <1>14,
     <1>15, <1>16, <1>17, <1>18, <1>19, <1>20, <1>21, <1>22, <1>23, <1>24, <1>25, <1>26, <1>27,
     <1>28, <1>29      DEF Next, Initialise, Work, GetEvent, RunKernel

-----------------------------------------------------------------------------
(* The invariant and what follows from it.                                 *)

\* Every step of the device keeps IInv.
LEMMA Inductive == ASSUME OneCreator, IInv, [Next]_vars PROVE IInv'
<1>1. CASE UNCHANGED vars
  BY <1>1 DEF vars, initVars, listVars, simVars, eventVars, IInv, TypeOK, InitInv, MutexInv, EventsInv,
              RunInv
<1>2. CASE Next
  <2>1. TypeOK' /\ InitInv' /\ MutexInv' /\ RunInv'
    BY <1>2, TypeOKStep, InitInvStep, MutexInvStep, RunInvStep
  <2>2. EventsInv'
    BY <1>2, StepKinds, QuietSteps, EventsKept, EventsPushed, EventsTaken, EventsSettled DEF IInv
  <2> QED
    BY <2>1, <2>2 DEF IInv
<1> QED
  BY <1>1, <1>2

\* Before the first call of init the invariant holds.
LEMMA Initially == Init => IInv
<1> SUFFICES ASSUME Init PROVE IInv
  OBVIOUS
<1>1. /\ \A t \in Host : pc[t] = "idle"
      /\ \A w \in Worker : pc[w] = "none"
  BY DeviceConstants DEF Init, Thread
<1>2. TypeOK
  <2>1. pc \in [Thread -> HostPlaces \union Busy \union {"none", "get", "reserve", "done"}]
    BY DEF Init, HostPlaces
  <2>0. initialized \in BOOLEAN /\ stop \in BOOLEAN /\ gone \in BOOLEAN
    BY Zenon DEF Init
  <2>2. /\ mutex \in Worker \union {None} /\ waiting \in SUBSET Worker /\ events \in Seq(Event)
        /\ simulator \in Creator \union {None}
    BY DEF Init
  <2>3. /\ simLock \in [Creator -> Worker \union {None}]
        /\ kind \in [Event -> Kinds]
        /\ result \in [Event -> {"new", "pushed", "Complete", "Failed"}]
        /\ kmutex \in [Event -> Worker \union {None}]
        /\ cur \in [Worker -> Event \union {None}]
        /\ using \in [Worker -> Creator \union {None}]
    BY DEF Init, Kinds
  <2> QED
    BY <2>0, <2>1, <2>2, <2>3 DEF TypeOK
<1>3. InitInv
  BY <1>1, DeviceConstants DEF Init, InitInv, Thread
<1>4. MutexInv /\ EventsInv /\ RunInv
  BY <1>1, DeviceConstants DEF Init, MutexInv, EventsInv, RunInv, Busy, Simulating, Thread
<1> QED
  BY <1>2, <1>3, <1>4 DEF IInv

\* IInv holds in every state the device reaches.
THEOREM Invariance == OneCreator => (Spec => []IInv)
<1> SUFFICES ASSUME OneCreator PROVE Spec => []IInv
  OBVIOUS
<1>1. Init => IInv
  BY Initially
<1>2. IInv /\ [Next]_vars => IInv'
  BY Inductive
<1> QED
  BY <1>1, <1>2, PTL DEF Spec

\* The event that getEvent reserves is in the list, where no event's mutex is
\* held; run() released the mutex before finished() asks for it.
LEMMA Free == IInv => KernelMutexFree
<1> SUFFICES ASSUME IInv, NEW w \in Worker, pc[w] \in {"reserve", "finished"}
             PROVE  kmutex[cur[w]] = None
  BY DEF KernelMutexFree
<1>1. CASE pc[w] = "reserve"
  <2>1. events # <<>> /\ cur[w] = Head(events)
    BY <1>1 DEF IInv, RunInv
  <2>2. 1 \in DOMAIN events /\ Head(events) = events[1]
    BY <2>1, TailFacts DEF IInv, TypeOK
  <2> QED
    BY <2>1, <2>2 DEF IInv, EventsInv
<1>2. CASE pc[w] = "finished"
  BY <1>2 DEF IInv, RunInv
<1> QED
  BY <1>1, <1>2

\* The worker never waits for an event's own mutex, although error paths of
\* run() leave it locked.
THEOREM KernelMutex_Free == OneCreator => (Spec => []KernelMutexFree)
  BY Invariance, Free, PTL

\* An event is taken up only by getEvent, which has looked at p_stop under the
\* mutex it still holds.
LEMMA TakesOnlyRunning ==
  ASSUME IInv, [Next]_vars, NEW w \in Worker, Takes(w) PROVE ~stop
<1>1. Next
  BY DEF Takes, vars
<1>2. CASE QuietStep
  BY <1>2, QuietSteps DEF IInv, Quiet, Takes
<1>3. ASSUME NEW t \in Thread, PushEvent(t) PROVE ~stop
  BY <1>3 DEF PushEvent, Takes
<1>4. ASSUME NEW v \in Worker, Settling(v) PROVE ~stop
  BY <1>4, DeviceConstants DEF Settling, Complete, Fail, Go, Takes, Busy, IInv, TypeOK, Thread
<1>5. ASSUME NEW v \in Worker, Taking(v) PROVE ~stop
  BY <1>5 DEF Taking, Reserve, GetOther, Go, IInv, RunInv
<1> QED
  BY <1>1, <1>2, <1>3, <1>4, <1>5, StepKinds

\* No event is taken up after the destructor has set p_stop.
THEOREM Stop_Final == OneCreator => (Spec => StopIsFinal)
<1>1. IInv /\ [Next]_vars => [\A w \in Worker : Takes(w) => ~stop]_vars
  BY TakesOnlyRunning
<1> QED
  BY <1>1, Invariance, PTL DEF Spec, StopIsFinal

-----------------------------------------------------------------------------
(* The device implements DeviceService.                                    *)

\* init creates one worker.
LEMMA OneWorker ==
  ASSUME InitInv, NEW v \in Worker, NEW w \in Worker, pc[v] # "none", pc[w] # "none"
  PROVE  v = w
  BY DEF InitInv

\* The event in hand is that of the one worker ...
LEMMA ActiveIs ==
  ASSUME InitInv, NEW w \in Worker, pc[w] # "none"
  PROVE  Active = IF pc[w] \in Busy THEN cur[w] ELSE None
<1>1. \A v \in Worker : pc[v] \in Busy => v = w
  BY OneWorker DEF Busy
<1> QED
  BY <1>1 DEF Active

\* ... in the next state too.
LEMMA ActiveNext ==
  ASSUME InitInv', NEW w \in Worker, pc'[w] # "none"
  PROVE  Active' = IF pc'[w] \in Busy THEN cur'[w] ELSE None
<1>1. \A v \in Worker : pc'[v] \in Busy => v = w
  BY DEF InitInv, Busy
<1> QED
  BY <1>1 DEF Active

\* A quiet step leaves the event in hand alone.
LEMMA QuietActive ==
  ASSUME InitInv, InitInv', Quiet PROVE Active' = Active
<1>1. CASE \E w \in Worker : pc[w] \in Busy
  <2>1. PICK w \in Worker : pc[w] \in Busy
    BY <1>1
  <2> QED
    BY <2>1, ActiveIs, ActiveNext DEF Quiet, Busy
<1>2. CASE \A w \in Worker : pc[w] \notin Busy
  BY <1>2 DEF Active, Quiet
<1> QED
  BY <1>1, <1>2

\* Pushing is Submit, taking is Take, settling is Finish; the rest stutters.
LEMMA StepServes ==
  ASSUME OneCreator, IInv, IInv', Next
  PROVE  Service!DNext \/ UNCHANGED <<events, Active, {e \in Event : result[e] # "new"}>>
<1> DEFINE Seen == {e \in Event : result[e] # "new"}
<1>1. CASE QuietStep
  BY <1>1, QuietSteps, QuietActive DEF IInv, Quiet
<1>2. ASSUME NEW t \in Thread, PushEvent(t) PROVE Service!DNext
  <2>1. PICK e \in Event :
          /\ result[e] = "new" /\ events' = Append(events, e)
          /\ result' = [result EXCEPT ![e] = "pushed"]
    BY <1>2, PushAppends
  <2>2. Active' = Active
    BY <1>2, PushAppends DEF Active
  <2>3. e \notin Seen /\ Seen' = Seen \union {e}
    BY <2>1 DEF IInv, TypeOK
  <2> QED
    BY <2>1, <2>2, <2>3 DEF Service!DNext, Service!Submit
<1>3. ASSUME NEW w \in Worker, Settling(w) PROVE Service!DNext
  <2>1. /\ UNCHANGED <<events, cur>>
        /\ pc[w] \in Busy /\ pc[w] # "none" /\ pc'[w] = "done" /\ cur[w] \in Event
        /\ \A e \in Event : result'[e] # "new" <=> result[e] # "new"
    BY <1>3, DeviceConstants DEF Settling, Complete, Fail, Go, Busy, IInv, EventsInv, TypeOK, Thread,
                                 listVars
  <2>2. Active # None /\ Active' = None
    BY <2>1, ActiveIs, ActiveNext, DeviceConstants DEF IInv, Busy, Thread
  <2>3. Seen' = Seen
    BY <2>1
  <2> QED
    BY <2>1, <2>2, <2>3 DEF Service!DNext, Service!Finish
<1>4. ASSUME NEW w \in Worker, Taking(w) PROVE Service!DNext
  <2>1. /\ events # <<>> /\ events' = Tail(events) /\ result' = result /\ cur'[w] = Head(events)
        /\ pc[w] \in {"get", "reserve"} /\ pc'[w] = "run"
    BY <1>4, DeviceConstants DEF Taking, Reserve, GetOther, Getting, Go, Busy, IInv, RunInv, TypeOK,
                                 Thread, eventVars
  <2>2. Active = None /\ Active' = Head(events)
    BY <2>1, ActiveIs, ActiveNext DEF IInv, Busy
  <2> QED
    BY <2>1, <2>2 DEF Service!DNext, Service!Take
<1> QED
  BY <1>1, <1>2, <1>3, <1>4, StepKinds

\* The device, with its mutexes, its condition variable and its worker, takes up
\* every event once, in the order of pushing, and one at a time.
THEOREM Refinement == OneCreator => (Spec => ImplementsService)
<1> SUFFICES ASSUME OneCreator PROVE Spec => ImplementsService
  OBVIOUS
<1>1. Init => Service!DInit
  BY DEF Init, Service!DInit, Active, Busy, Thread
<1>2. IInv /\ IInv' /\ [Next]_vars => [Service!DNext]_(Service!dvars)
  <2>1. ASSUME UNCHANGED vars PROVE UNCHANGED Service!dvars
    BY <2>1 DEF vars, listVars, eventVars, Service!dvars, Active
  <2> QED
    BY <2>1, StepServes DEF Service!dvars
<1> QED
  BY <1>1, <1>2, Invariance, PTL DEF Spec, ImplementsService, Service!DSpec
=============================================================================
