-------------------------- MODULE CommandQueueInv ---------------------------
(***************************************************************************)
(* The inductive invariant behind the order of execution: what the mutex,  *)
(* the local variables of the threads and the lists must satisfy between   *)
(* any two steps for the safety properties of CommandQueue to be preserved *)
(* by every step.  CommandQueueProofs proves it.                           *)
(***************************************************************************)
EXTENDS CommandQueue

InQueue == {"append", "push", "scan", "settle", "clean", "erase", "cleaned",
            "flush", "flushWait", "finishOK", "finishFailed", "finishTest", "finishWait",
            "finishReturn"}

\* p_event_list_mutex is held exactly by the thread inside one of the two loops.
LockInv ==
  \A t \in Thread, q \in Queue :
    lock[q] = t <=> pc[t] \in {"scan", "erase"} /\ at[t] = q

\* What each thread's local variables hold at each place.
HostFrame(t) ==
  /\ pc[t] # "run" /\ after[t] \in {"idle", "wait", "flushQueues"}
  /\ pc[t] \in InQueue => at[t] \in Queue
  /\ todo[t] \subseteq issued \union (IF pc[t] = "append" THEN {ev[t]} ELSE {})
  /\ pc[t] = "append" =>
       /\ ev[t] \in Event /\ ev[t] \notin issued
       /\ status[ev[t]] = "Queued" /\ home[ev[t]] = at[t]
       /\ kind[ev[t]] # "User"
       /\ after[t] \in {"idle", "wait"}
  /\ pc[t] \in {"setUser", "flushQueues"} \/ after[t] = "flushQueues" =>
       /\ ev[t] \in Event /\ kind[ev[t]] = "User"
       /\ status[ev[t]] # "None"
  /\ pc[t] = "wait" => after[t] # "flushQueues"

WorkerFrame ==
  /\ pc[Worker] \in {"idle", "run", "push", "scan", "settle", "clean", "erase", "cleaned"}
  /\ pc[Worker] # "idle" => /\ after[Worker] = "clean"
                               /\ at[Worker] \in Queue
                               /\ ev[Worker] \in issued
  /\ pc[Worker] = "run" => /\ kind[ev[Worker]] \in DeviceKinds
                              /\ status[ev[Worker]] = "Submitted"
                              /\ at[Worker] = home[ev[Worker]]

FrameInv == WorkerFrame /\ \A t \in Host : HostFrame(t)

\* The iterator and the flag of a loop are fresh whenever no loop is running.
LoopInv ==
  \A t \in Thread :
    /\ pc[t] \notin {"scan", "erase"} => pos[t] = 1
    /\ pc[t] # "scan" => first[t] = TRUE

\* No event is being enqueued by two threads.
AppendInv ==
  \A t, u \in Host :
    t # u /\ pc[t] = "append" /\ pc[u] = "append" => ev[t] # ev[u]

\* The states an event can be in, by its kind.
EventInv ==
  \A e \in Event :
    /\ status[e] = "None" => e \notin issued /\ home[e] = None /\ waits[e] = {}
    /\ e \in issued => home[e] \in Queue /\ kind[e] # "User"
    /\ status[e] # "None" /\ kind[e] = "User" => status[e] \in {"Submitted", "Complete"}
    /\ status[e] # "None" /\ kind[e] # "User" /\ e \notin issued => status[e] = "Queued"
    /\ e \in issued /\ IsDummy(e) => status[e] \in {"Queued", "Complete"}
    /\ kind[e] = "Barrier" => waits[e] = {}
    /\ pred[e] \subseteq issued

\* What is in the device's list was submitted to it, once.
DeviceInv ==
  /\ \A i \in DOMAIN devq : /\ devq[i] \in issued
                            /\ kind[devq[i]] \in DeviceKinds
                            /\ status[devq[i]] = "Submitted"
                            /\ ~(pc[Worker] = "run" /\ ev[Worker] = devq[i])
  /\ \A i, j \in DOMAIN devq : i # j => devq[i] # devq[j]
  /\ \A e \in issued : status[e] = "Submitted" =>
       (\E i \in DOMAIN devq : devq[i] = e) \/ (pc[Worker] = "run" /\ ev[Worker] = e)

\* A list holds the unfinished events of its queue, each behind the unfinished
\* events that were queued before it.
ListInv ==
  \A q \in Queue :
    /\ \A j \in DOMAIN list[q] :
         /\ list[q][j] \in issued /\ home[list[q][j]] = q
         /\ \A p \in pred[list[q][j]] :
              Finished(p) \/ \E i \in 1..(j - 1) : list[q][i] = p
    /\ \A e \in issued : home[e] = q /\ ~Finished(e) => \E i \in DOMAIN list[q] : list[q][i] = e

\* What pushEventsOnDevice knows of the events its iterator has passed.
ScanInv ==
  \A t \in Thread : pc[t] = "scan" =>
    \A i \in DOMAIN list[at[t]] : i < pos[t] =>
      /\ first[t] => status[list[at[t]][i]] = "Complete"
      /\ kind[list[at[t]][i]] \in {"Barrier", "WaitForEvents"} =>
           status[list[at[t]][i]] = "Complete"

\* Nothing keeps event e from being taken up; once true this stays true.
CanStart(e) ==
  /\ WaitListDone(e)
  /\ home[e] \in InOrder \/ kind[e] = "Barrier" => \A p \in pred[e] : Finished(p)
  /\ \A p \in pred[e] : kind[p] \in {"Barrier", "WaitForEvents"} => status[p] = "Complete"

\* A dummy event whose completion was decided under the mutex is completed
\* after it was released.
SettleInv ==
  \A t \in Thread : pc[t] = "settle" =>
    /\ dummy[t] \in issued /\ kind[dummy[t]] \in DummyKinds
    /\ at[t] = home[dummy[t]]
    /\ CanStart(dummy[t])

\* Whatever was taken up could be: the heart of the invariant.
StartInv == \A e \in Event : Started(e) => CanStart(e)

IInv ==
  /\ LockInv /\ FrameInv /\ LoopInv /\ AppendInv /\ EventInv /\ DeviceInv /\ ListInv
  /\ ScanInv /\ SettleInv /\ StartInv

-----------------------------------------------------------------------------
(* What flush and finish promise their caller needs more: it follows the     *)
(* list of the queue from the call to the return.                            *)

\* Where a thread is inside flush or finish.
Awaiting == {"flush", "flushWait", "clean", "erase", "cleaned", "finishOK", "finishFailed",
             "finishTest", "finishWait", "finishReturn"}

\* The events a flush or finish answers for were queued in its queue.
OwedInv ==
  \A t \in Host :
    /\ owed[t] # {} => pc[t] \in Awaiting
    /\ \A e \in owed[t] : e \in issued /\ home[e] = at[t]

\* errcode, and what finish keeps of it, tell of a failure only after one.
ErrorInv ==
  NoFailure => /\ \A q \in Queue : errcode[q] = "SUCCESS"
               /\ \A t \in Thread : pc[t] # "finishFailed"

\* The kinds of the events are those the host creates.
CreatedInv == \A e \in Event : kind[e] \in Kind \union {"Copy"}

\* Behind p_flushed no event of the list is still to be pushed, except those
\* that the walk of some thread has yet to reach.  This is so without dummy events,
\* for which pushEventsOnDevice releases the mutex in the middle of the walk, and
\* until a finish that cleaned a failure sets p_flushed by itself.
PushedInv ==
  \A q \in Queue : flushed[q] =>
    \A i \in DOMAIN list[q] :
      \/ status[list[q][i]] # "Queued"
      \/ \E t \in Thread : pc[t] = "scan" /\ at[t] = q /\ pos[t] <= i
=============================================================================
