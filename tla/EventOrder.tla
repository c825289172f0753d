----------------------------- MODULE EventOrder -----------------------------
(***************************************************************************)
(* What the command queues promise about the order of execution, without   *)
(* mutexes, threads, lists or a device: when an event may be taken up and  *)
(* what may become of it.  It says what the comment of pushEventsOnDevice  *)
(* in core/commandqueue.h lists as push conditions, in terms of statuses   *)
(* alone; CommandQueue implements it.                                      *)
(***************************************************************************)
EXTENDS Naturals

CONSTANTS Queue, InOrder, Event, None

VARIABLES status, kind, home, waits, issued, pred

ovars == <<status, kind, home, waits, issued, pred>>

Device == {"Kernel", "Copy"}
Dummy  == {"Marker", "Barrier", "WaitForEvents", "User"}

Over(e) == status[e] \in {"Complete", "Failed"}

\* The push conditions: the wait list is complete, a queue in order and a
\* barrier wait for everything before, and a barrier or a WaitForEvents holds
\* back everything after.
Ready(e) ==
  /\ e \in issued /\ status[e] = "Queued"
  /\ \A w \in waits[e] : status[w] = "Complete"
  /\ home[e] \in InOrder \/ kind[e] = "Barrier" => \A p \in pred[e] : Over(p)
  /\ \A p \in pred[e] : kind[p] \in {"Barrier", "WaitForEvents"} => status[p] = "Complete"

OInit ==
  /\ status = [e \in Event |-> "None"]
  /\ kind = [e \in Event |-> "Copy"]
  /\ home = [e \in Event |-> None]
  /\ waits = [e \in Event |-> {}]
  /\ issued = {}
  /\ pred = [e \in Event |-> {}]

\* The host creates a command for a queue, or a user event.
Create(e) ==
  /\ status[e] = "None"
  /\ \E k \in Device \union Dummy, q \in Queue \union {None}, W \in SUBSET Event :
       /\ k = "User" <=> q = None
       /\ \A w \in W : status[w] \notin {"None", "Failed"} /\ w # e
       /\ status' = [status EXCEPT ![e] = IF k = "User" THEN "Submitted" ELSE "Queued"]
       /\ kind' = [kind EXCEPT ![e] = k]
       /\ home' = [home EXCEPT ![e] = q]
       /\ waits' = [waits EXCEPT ![e] = W]
  /\ UNCHANGED <<issued, pred>>

\* A command that could not be prepared disappears before it was queued.
Withdraw(e) ==
  /\ status[e] = "Queued" /\ e \notin issued
  /\ status' = [status EXCEPT ![e] = "None"]
  /\ waits' = [waits EXCEPT ![e] = {}]
  /\ home' = [home EXCEPT ![e] = None]
  /\ UNCHANGED <<kind, issued, pred>>

\* A command takes its place behind everything queued in its queue so far.
Issue(e) ==
  /\ status[e] = "Queued" /\ e \notin issued
  /\ issued' = issued \union {e}
  /\ pred' = [pred EXCEPT ![e] = {d \in issued : home[d] = home[e]}]
  /\ UNCHANGED <<status, kind, home, waits>>

SetTo(e, s) == status' = [status EXCEPT ![e] = s] /\ UNCHANGED <<kind, home, waits, issued, pred>>

Launch(e)  == Ready(e) /\ kind[e] \in Device /\ SetTo(e, "Submitted")
Pass(e)    == Ready(e) /\ kind[e] \in Dummy /\ SetTo(e, "Complete")
Succeed(e) == status[e] = "Submitted" /\ SetTo(e, "Complete")
Fail(e)    == status[e] = "Submitted" /\ kind[e] = "Kernel" /\ SetTo(e, "Failed")

ONext == \E e \in Event :
  Create(e) \/ Withdraw(e) \/ Issue(e) \/ Launch(e) \/ Pass(e) \/ Succeed(e) \/ Fail(e)

OSpec == OInit /\ [][ONext]_ovars
=============================================================================
