------------------------------ MODULE Objects ------------------------------
(***************************************************************************)
(* The life of contexts, queues and events.  Coal::Object counts           *)
(* references; a child references its parent and drops it when it is       *)
(* deleted, an event references the events of its wait list.  Nothing      *)
(* drops the reference an event is created with once it is in a queue:     *)
(* cleanEvents has the call commented out.  One host thread calls the API, *)
(* for p_references is changed without a lock; a worker completes          *)
(* commands and cleans queues between any two of the host's steps.  When a *)
(* queue pushes an event is the subject of CommandQueue; here it may as    *)
(* soon as the event's wait list is complete.                              *)
(***************************************************************************)
EXTENDS Integers, FiniteSets

CONSTANTS
  Event, Queue,
  Ctx,        \* the context, which is there from the start
  None,
  MaxHeld,    \* bound: references the host program holds to one object
  Retained    \* bound: objects of which it asks for more than one

ASSUME ObjectsOK ==
  /\ IsFiniteSet(Event) /\ IsFiniteSet(Queue)
  /\ Event \intersect Queue = {}
  /\ Ctx \notin Event \union Queue /\ None \notin Event \union Queue /\ None # Ctx
  /\ MaxHeld \in Nat \ {0} /\ Retained \subseteq Event \union Queue \union {Ctx}

Object == Event \union Queue \union {Ctx}

VARIABLES
  alive,       \* objects that are constructed and not yet deleted
  refs,        \* p_references
  held,        \* references the host program has to give back
  kind,        \* of an event: "user", "command", "marker" or "dummy"
  parent,      \* p_parent; None for the context and user events
  waits,       \* p_event_wait_list
  deps,        \* p_dependent_queues of a user event, which are not referenced
  status,      \* p_status
  listed,      \* p_events of each queue
  keepParent,  \* events with setReleaseParent(false)
  doomed,      \* objects whose delete has been called
  pc, cur,     \* where the host thread is in an enqueue, and with which event
  target,      \* the queue it enqueues to
  grabbed,     \* what events() returned to clEnqueueMarker
  hand,        \* the event the worker has just finished
  exited,      \* the process has crashed
  cut          \* history: <<user event, queue>> of commands that were rejected

countVars == <<alive, refs, held, doomed>>
eventVars == <<kind, parent, waits, deps>>
queueVars == <<status, listed, keepParent>>
hostVars  == <<pc, cur, target, grabbed>>
vars == <<countVars, eventVars, queueVars, hostVars, hand, exited, cut>>

Init ==
  /\ alive = {Ctx}
  /\ refs = [o \in Object |-> IF o = Ctx THEN 1 ELSE 0]
  /\ held = [o \in Object |-> IF o = Ctx THEN 1 ELSE 0]
  /\ kind = [e \in Event |-> "none"]
  /\ parent = [o \in Object |-> None]
  /\ waits = [e \in Event |-> {}]
  /\ deps = [e \in Event |-> {}]
  /\ status = [e \in Event |-> "None"]
  /\ listed = [q \in Queue |-> {}]
  /\ keepParent = {}
  /\ doomed = {}
  /\ pc = "idle" /\ cur = None /\ target = None
  /\ grabbed = {}
  /\ hand = None
  /\ exited = FALSE
  /\ cut = {}

\* reference and dereference, once for each object of a set.
Reference(S) == [o \in Object |-> refs[o] + (IF o \in S THEN 1 ELSE 0)]
Dereference(S) == [o \in Object |-> refs[o] - (IF o \in S THEN 1 ELSE 0)]

\* The host thread calls the API, and every delete of an earlier call is over.
Running == ~exited /\ doomed = {}
Idle == Running /\ pc = "idle"

IsNew(o) == o \notin alive /\ (o \in Event => kind[o] = "none")
                           /\ (o \in Queue => parent[o] = None)

-----------------------------------------------------------------------------
(* Handles of the host program.                                            *)

\* A new queue references its context; the host has the first reference.
CreateQueue(q) ==
  /\ Idle /\ held[Ctx] > 0 /\ IsNew(q)
  /\ alive' = alive \union {q}
  /\ refs' = [Reference({Ctx}) EXCEPT ![q] = 1]
  /\ held' = [held EXCEPT ![q] = 1]
  /\ parent' = [parent EXCEPT ![q] = Ctx]
  /\ UNCHANGED <<doomed, kind, waits, deps, queueVars, hostVars, hand, exited, cut>>

\* A user event has no parent, and does not reference its context.
CreateUser(e) ==
  /\ Idle /\ held[Ctx] > 0 /\ IsNew(e)
  /\ alive' = alive \union {e}
  /\ refs' = [refs EXCEPT ![e] = 1]
  /\ held' = [held EXCEPT ![e] = 1]
  /\ kind' = [kind EXCEPT ![e] = "user"]
  /\ status' = [status EXCEPT ![e] = "Submitted"]
  /\ UNCHANGED <<doomed, parent, waits, deps, listed, keepParent, hostVars, hand, exited, cut>>

Retain(o) ==
  /\ Idle /\ o \in Retained /\ held[o] \in 1 .. MaxHeld - 1
  /\ refs' = Reference({o})
  /\ held' = [held EXCEPT ![o] = @ + 1]
  /\ UNCHANGED <<alive, doomed, eventVars, queueVars, hostVars, hand, exited, cut>>

\* The release of a queue flushes it first, which waits for the pushes of
\* CommandQueue and may return early: here it may take any time.
Release(o) ==
  /\ Idle /\ held[o] > 0
  /\ refs' = Dereference({o})
  /\ held' = [held EXCEPT ![o] = @ - 1]
  /\ doomed' = IF refs[o] = 1 THEN {o} ELSE {}
  /\ UNCHANGED <<alive, eventVars, queueVars, hostVars, hand, exited, cut>>

\* clSetUserEventStatus; flushQueues then enters every queue of deps.
SetUser(e) ==
  /\ Idle /\ held[e] > 0 /\ kind[e] = "user" /\ status[e] = "Submitted"
  /\ status' = [status EXCEPT ![e] = "Complete"]
  /\ UNCHANGED <<countVars, eventVars, listed, keepParent, hostVars, hand, exited, cut>>

-----------------------------------------------------------------------------
(* Enqueuing.                                                              *)

\* Mutant: the events of the wait list are not retained.
ConstructForgets(e, k, q, W) ==
  /\ alive' = alive \union {e}
  /\ refs' = [Reference({q}) EXCEPT ![e] = 1]
  /\ kind' = [kind EXCEPT ![e] = k]
  /\ parent' = [parent EXCEPT ![e] = q]
  /\ waits' = [waits EXCEPT ![e] = W]
  /\ deps' = [u \in Event |-> IF u \in W /\ kind[u] = "user" THEN deps[u] \union {q}
                                                             ELSE deps[u]]
  /\ cur' = e /\ target' = q
  /\ UNCHANGED <<held, doomed, queueVars, hand, exited, cut>>

\* Event::Event: the new event references its queue and its wait list, and
\* has one reference itself; user events learn about the queue.
Construct(e, k, q, W) ==
  /\ alive' = alive \union {e}
  /\ refs' = [Reference({q} \union W) EXCEPT ![e] = 1]
  /\ kind' = [kind EXCEPT ![e] = k]
  /\ parent' = [parent EXCEPT ![e] = q]
  /\ waits' = [waits EXCEPT ![e] = W]
  /\ deps' = [u \in Event |-> IF u \in W /\ kind[u] = "user" THEN deps[u] \union {q}
                                                             ELSE deps[u]]
  /\ cur' = e /\ target' = q
  /\ UNCHANGED <<held, doomed, queueVars, hand, exited, cut>>

AnyFailed(W) == \E w \in W : status[w] = "Failed"

\* A barrier has no wait list, clEnqueueWaitForEvents must have one.  The
\* events of a wait list are the host's.
Enqueue(e, k, q, W) ==
  /\ Idle /\ held[q] > 0 /\ IsNew(e) /\ ~AnyFailed(W)
  /\ \A w \in W : held[w] > 0
  /\ Construct(e, k, q, W)
  /\ pc' = "made"
  /\ UNCHANGED grabbed

\* The constructor gives up at a failed event, with the number of events
\* stored and no list: the destructor then releases what a null list holds.
EnqueueAfterFailure(q, W) ==
  /\ Idle /\ held[q] > 0 /\ AnyFailed(W)
  /\ \A w \in W : held[w] > 0
  /\ exited' = TRUE
  /\ UNCHANGED <<countVars, eventVars, queueVars, hostVars, hand, cut>>

\* The rest of the constructor, or the device, refuses the command.
Reject ==
  /\ Running /\ pc = "made" /\ kind[cur] = "command"
  /\ doomed' = {cur}
  /\ cut' = cut \union ({u \in waits[cur] : kind[u] = "user"} \X {target})
  /\ pc' = "idle" /\ cur' = None /\ target' = None
  /\ UNCHANGED <<alive, refs, held, eventVars, queueVars, grabbed, hand, exited>>

\* CommandQueue::queueEvent.
Append ==
  /\ Running /\ pc = "made"
  /\ listed' = [listed EXCEPT ![target] = @ \union {cur}]
  /\ status' = [status EXCEPT ![cur] = "Queued"]
  /\ pc' = "queued"
  /\ UNCHANGED <<countVars, eventVars, keepParent, cur, target, grabbed, hand, exited, cut>>

\* The host gets a handle of a marker, and of a command if it asks for one;
\* it is counted when the event is already in the queue.
GiveHandle(wanted) ==
  /\ Running /\ pc = "queued"
  /\ kind[cur] = "marker" => wanted
  /\ kind[cur] = "dummy" => ~wanted
  /\ refs' = IF wanted THEN Reference({cur}) ELSE refs
  /\ held' = IF wanted THEN [held EXCEPT ![cur] = 1] ELSE held
  /\ pc' = "idle" /\ cur' = None /\ target' = None
  /\ UNCHANGED <<alive, doomed, eventVars, queueVars, grabbed, hand, exited, cut>>

\* clEnqueueMarker: events() of the queue, the marker that waits for them,
\* and back with the references of events(), which nothing is deleted for.
GrabEvents(q) ==
  /\ Idle /\ held[q] > 0
  /\ listed[q] # {}         \* else the marker is rejected, and nothing is left of it
  /\ grabbed' = listed[q]
  /\ refs' = Reference(listed[q])
  /\ pc' = "grabbed" /\ target' = q
  /\ UNCHANGED <<alive, held, doomed, eventVars, queueVars, cur, hand, exited, cut>>

MakeMarker(e) ==
  /\ Running /\ pc = "grabbed" /\ ~AnyFailed(grabbed) /\ IsNew(e)
  /\ Construct(e, "marker", target, grabbed)
  /\ pc' = "marked"
  /\ UNCHANGED grabbed

MarkFailure ==
  /\ Running /\ pc = "grabbed" /\ AnyFailed(grabbed)
  /\ exited' = TRUE
  /\ UNCHANGED <<countVars, eventVars, queueVars, hostVars, hand, cut>>

\* Mutant: clEnqueueMarker frees the array without dropping the references.
DropNothing ==
  /\ Running /\ pc = "marked"
  /\ refs' = refs
  /\ grabbed' = {}
  /\ pc' = "made"
  /\ UNCHANGED <<alive, held, doomed, eventVars, queueVars, cur, target, hand, exited, cut>>

DropGrabbed ==
  /\ Running /\ pc = "marked"
  /\ refs' = Dereference(grabbed)
  /\ grabbed' = {}
  /\ pc' = "made"
  /\ UNCHANGED <<alive, held, doomed, eventVars, queueVars, cur, target, hand, exited, cut>>

-----------------------------------------------------------------------------
(* Execution, cleaning and deletion.                                       *)

\* pushEventsOnDevice: an event whose wait list is complete goes to the
\* device; a dummy is completed there and then.
Push(e) ==
  /\ ~exited /\ status[e] = "Queued"
  /\ \A w \in waits[e] : status[w] = "Complete"
  /\ status' = [status EXCEPT ![e] = IF kind[e] = "command" THEN "Submitted" ELSE "Complete"]
  /\ UNCHANGED <<countVars, eventVars, listed, keepParent, hostVars, hand, exited, cut>>

\* The worker executes a command.
Execute(e, outcome) ==
  /\ ~exited /\ hand = None
  /\ kind[e] = "command" /\ status[e] = "Submitted"
  /\ status' = [status EXCEPT ![e] = outcome]
  /\ hand' = e
  /\ UNCHANGED <<countVars, eventVars, listed, keepParent, hostVars, exited, cut>>

\* Mutant: cleanEvents with the release of the event that is commented out.
EraseReleases(q) ==
  LET done == {e \in listed[q] : status[e] = "Complete"}
  IN  /\ listed' = [listed EXCEPT ![q] = @ \ done]
      /\ keepParent' = keepParent \union done
      /\ refs' = Dereference(done)
      /\ doomed' = doomed \union {e \in done : refs[e] = 1} \union (IF refs[q] = 0 THEN {q} ELSE {})
      /\ UNCHANGED <<alive, held, eventVars, status, hostVars, exited, cut>>

\* cleanEvents: completed events leave the list and no longer delete their
\* queue; the release of the event is commented out.  A failed event has an
\* error of its own for its status, which is not Event::Failed: it stays.
Erase(q) ==
  LET done == {e \in listed[q] : status[e] = "Complete"}
  IN  /\ listed' = [listed EXCEPT ![q] = @ \ done]
      /\ keepParent' = keepParent \union done
      /\ refs' = refs
      /\ doomed' = doomed \union (IF refs[q] = 0 THEN {q} ELSE {})
      /\ UNCHANGED <<alive, held, eventVars, status, hostVars, exited, cut>>

WorkerCleans ==
  /\ ~exited /\ hand # None
  /\ Erase(parent[hand])
  /\ hand' = None

\* clFinish begins with cleanEvents.
HostCleans(q) ==
  /\ Idle /\ held[q] > 0
  /\ Erase(q)
  /\ UNCHANGED hand

\* ~Event releases the wait list, ~Object the parent, which is deleted with
\* its last reference unless setReleaseParent(false) was called.
Owned(o) == IF o \in Event THEN waits[o] \union ({parent[o]} \ {None}) ELSE {parent[o]} \ {None}

\* Mutant: ~Object deletes the parent whatever references are left.
DestroyWithParent(o) ==
  /\ o \in doomed /\ ~exited
  /\ alive' = alive \ {o}
  /\ refs' = Dereference(Owned(o))
  /\ doomed' = (doomed \ {o}) \union
       {p \in Owned(o) : p = parent[o] /\ o \notin keepParent}
  /\ UNCHANGED <<held, eventVars, queueVars, hostVars, hand, exited, cut>>

Destroy(o) ==
  /\ o \in doomed /\ ~exited
  /\ alive' = alive \ {o}
  /\ refs' = Dereference(Owned(o))
  /\ doomed' = (doomed \ {o}) \union
       {p \in Owned(o) : refs[p] = 1 /\ ~(p = parent[o] /\ o \in keepParent)}
  /\ UNCHANGED <<held, eventVars, queueVars, hostVars, hand, exited, cut>>

Next ==
  \/ \E q \in Queue : CreateQueue(q) \/ GrabEvents(q) \/ HostCleans(q)
  \/ \E e \in Event : CreateUser(e) \/ SetUser(e) \/ MakeMarker(e) \/ Push(e)
  \/ \E o \in Object : Retain(o) \/ Release(o) \/ Destroy(o)
  \/ \E q \in Queue, e \in Event, W \in SUBSET Event :
       \/ Enqueue(e, "command", q, W)
       \/ W # {} /\ Enqueue(e, "dummy", q, W)
  \/ \E q \in Queue, e \in Event : Enqueue(e, "dummy", q, {})
  \/ \E q \in Queue, W \in SUBSET Event : EnqueueAfterFailure(q, W)
  \/ \E wanted \in BOOLEAN : GiveHandle(wanted)
  \/ \E e \in Event, outcome \in {"Complete", "Failed"} : Execute(e, outcome)
  \/ Reject \/ Append \/ MarkFailure \/ DropGrabbed \/ WorkerCleans

Spec == Init /\ [][Next]_vars

-----------------------------------------------------------------------------
(* Properties.                                                             *)

\* Every variable keeps its type, and the counts do not go below zero, where
\* the unsigned p_references would wrap.
TypeOK ==
  /\ alive \subseteq Object
  /\ refs \in [Object -> Nat] /\ held \in [Object -> 0 .. MaxHeld]
  /\ kind \in [Event -> {"none", "user", "command", "marker", "dummy"}]
  /\ parent \in [Object -> Queue \union {Ctx, None}]
  /\ waits \in [Event -> SUBSET Event] /\ deps \in [Event -> SUBSET Queue]
  /\ status \in [Event -> {"None", "Queued", "Submitted", "Complete", "Failed"}]
  /\ listed \in [Queue -> SUBSET Event]
  /\ keepParent \subseteq Event /\ doomed \subseteq Object
  /\ pc \in {"idle", "made", "queued", "grabbed", "marked"}
  /\ cur \in Event \union {None} /\ target \in Queue \union {None}
  /\ grabbed \subseteq Event /\ hand \in Event \union {None}
  /\ exited \in BOOLEAN /\ cut \subseteq Event \X Queue

Children(o) == {c \in alive : parent[c] = o}
Waiters(o)  == {e \in alive \intersect Event : o \in waits[e]}
\* An event of a queue has the reference it was created with to itself.
Unreleased(o) == IF o \in Event /\ kind[o] # "user" THEN 1 ELSE 0
Grabs(o) == IF o \in grabbed THEN 1 ELSE 0

\* The count of an object is the number of those that would miss it: what
\* the host holds, children, events that wait for it, the marker being made
\* and the queue's own reference (Object, Event::Event, events(), the API's
\* retain and release).
Accounting ==
  \A o \in alive :
    refs[o] = held[o] + Cardinality(Children(o)) + Cardinality(Waiters(o))
                      + Grabs(o) + Unreleased(o)

\* Nothing is deleted that is still reached: through a handle, a parent
\* pointer, a wait list, a queue's list, the array of clEnqueueMarker or the
\* worker's pointer to the event it finished, whose queue it then cleans.
NoDangling ==
  LET live == alive \ doomed
  IN  /\ \A o \in Object : held[o] > 0 => o \in live
      /\ \A o \in live : Owned(o) \subseteq live
      /\ \A q \in live \intersect Queue : listed[q] \subseteq live
      /\ grabbed \subseteq live
      /\ \A o \in {cur, target, hand} : o # None => o \in live

\* clSetUserEventStatus enters the queues that the user event knows of, which
\* hold no reference for it: each must be there, kept by a command that waits
\* for the event, unless that command was rejected after it was constructed.
DependentsThere ==
  \A u \in alive \ doomed : u \in Event => \A q \in deps[u] :
    q \in alive \ doomed \/ <<u, q>> \in cut
=============================================================================
