--------------------------- MODULE ObjectsProofs ---------------------------
(***************************************************************************)
(* For any number of queues, events and references: the counts are exact,  *)
(* so that they never wrap, nothing is deleted that is still reached, and  *)
(* a user event finds the queues that it has to enter.                     *)
(***************************************************************************)
EXTENDS Objects, FiniteSetTheorems, TLAPS

-----------------------------------------------------------------------------
(* The inductive invariant.                                                *)

\* Events that are in a queue, or are about to be.
Tracked(e) == kind[e] \in {"command", "marker", "dummy"}

\* Events that were appended to a queue: nothing drops their own reference.
Kept(e) == Tracked(e) /\ status[e] # "None"

\* What an object is made of, by its kind.
KindInv ==
  /\ \A e \in Event :
       /\ kind[e] = "none" => e \notin alive /\ status[e] = "None"
       /\ deps[e] # {} => kind[e] = "user"
       /\ kind[e] = "user" => status[e] \notin {"None", "Queued"}
       /\ ~Tracked(e) => parent[e] = None /\ waits[e] = {}
       /\ Tracked(e) => parent[e] \in Queue
  /\ parent[Ctx] = None
  /\ \A q \in Queue : parent[q] \in {None, Ctx} /\ (q \in alive => parent[q] = Ctx)

\* What is held, and what an object owns, is there; it is a user event or was
\* in a queue, so not an event that may still be rejected.
ReachInv ==
  /\ \A o \in Object : held[o] > 0 => o \in alive
  /\ \A e \in Event : held[e] > 0 => status[e] # "None"
  /\ \A o \in alive : Owned(o) \subseteq alive
  /\ \A e \in alive \intersect Event : \A w \in waits[e] : status[w] # "None"

\* The lists, the worker and clEnqueueMarker only have events that are kept.
KeptInv ==
  /\ \A e \in Event : Kept(e) => e \in alive
  /\ \A q \in Queue : \A e \in listed[q] : Kept(e) /\ parent[e] = q
  /\ \A e \in grabbed \union keepParent : Kept(e)
  /\ hand # None => Kept(hand)

\* Nobody would miss what is being deleted.
DoomInv == \A d \in doomed :
  /\ d \in alive /\ held[d] = 0 /\ Children(d) = {} /\ Waiters(d) = {}
  /\ d \in Event => ~Kept(d)

\* Where the host thread is in an enqueue.
HostInv ==
  /\ pc = "idle" => cur = None /\ target = None
  /\ pc # "idle" => doomed = {} /\ target \in Queue /\ held[target] > 0
  /\ pc \notin {"grabbed", "marked"} => grabbed = {}
  /\ pc = "grabbed" => cur = None
  /\ pc \in {"made", "queued", "marked"} =>
       /\ cur \in alive \intersect Event
       /\ Tracked(cur) /\ parent[cur] = target /\ held[cur] = 0
       /\ (status[cur] = "None") = (pc # "queued")

\* A queue that a user event knows has a command that waits for that event.
Demanded(u, q) == \E e \in (alive \ doomed) \intersect Event : parent[e] = q /\ u \in waits[e]

DepsInv == \A u \in Event : \A q \in deps[u] : <<u, q>> \in cut \/ Demanded(u, q)

ObjInv == TypeOK /\ Accounting /\ KindInv /\ ReachInv /\ KeptInv /\ DoomInv /\ HostInv /\ DepsInv

-----------------------------------------------------------------------------
(* Counting.                                                               *)

\* The objects are finitely many.
LEMMA ObjectFinite ==
  ASSUME NEW S \in SUBSET Object
  PROVE  IsFiniteSet(S) /\ Cardinality(S) \in Nat
<1>1. IsFiniteSet(Event \union Queue)
  BY ObjectsOK, FS_Union
<1>2. IsFiniteSet(Object)
  BY <1>1, FS_AddElement DEF Object
<1> QED BY <1>2, FS_Subset, FS_CardinalityType

\* One more object, and one less.
LEMMA CountAdd ==
  ASSUME NEW S \in SUBSET Object, NEW x, x \notin S
  PROVE  Cardinality(S \union {x}) = Cardinality(S) + 1
  BY ObjectFinite, FS_AddElement

LEMMA CountRemove ==
  ASSUME NEW S \in SUBSET Object, NEW x \in S
  PROVE  Cardinality(S \ {x}) = Cardinality(S) - 1
  BY ObjectFinite, FS_RemoveElement

\* A sum of references is none only when there are none of any sort.
LEMMA CountNone ==
  ASSUME NEW h \in Nat, NEW C \in SUBSET Object, NEW W \in SUBSET Object,
         NEW g \in {0, 1}, NEW u \in {0, 1}
  PROVE  /\ h + Cardinality(C) + Cardinality(W) + g + u \in Nat
         /\ h + Cardinality(C) + Cardinality(W) + g + u = 0
              => h = 0 /\ C = {} /\ W = {} /\ g = 0 /\ u = 0
<1>1. Cardinality(C) \in Nat /\ Cardinality(W) \in Nat
  BY ObjectFinite
<1>2. Cardinality(C) = 0 => C = {}
  BY ObjectFinite, FS_EmptySet
<1>3. Cardinality(W) = 0 => W = {}
  BY ObjectFinite, FS_EmptySet
<1> DEFINE c == Cardinality(C)
           w == Cardinality(W)
<1>4. c \in Nat /\ w \in Nat /\ (c = 0 => C = {}) /\ (w = 0 => W = {})
  BY <1>1, <1>2, <1>3
<1> HIDE DEF c, w
<1>5. /\ h + c + w + g + u \in Nat
      /\ h + c + w + g + u = 0 => h = 0 /\ C = {} /\ W = {} /\ g = 0 /\ u = 0
  BY <1>4
<1> QED BY <1>5 DEF c, w

\* The parts of a count have their types.
LEMMA CountTypes ==
  ASSUME alive \subseteq Object, NEW o \in Object
  PROVE  /\ Children(o) \in SUBSET Object /\ Waiters(o) \in SUBSET Object
         /\ Cardinality(Children(o)) \in Nat /\ Cardinality(Waiters(o)) \in Nat
         /\ Grabs(o) \in {0, 1} /\ Unreleased(o) \in {0, 1}
<1>1. Children(o) \in SUBSET Object /\ Waiters(o) \in SUBSET Object
  BY DEF Children, Waiters
<1>2. Grabs(o) \in {0, 1} /\ Unreleased(o) \in {0, 1}
  BY DEF Grabs, Unreleased
<1> QED BY <1>1, <1>2, ObjectFinite

\* An object that is held, has a child or a waiter, is in the array of
\* clEnqueueMarker or has its own reference, is counted.
LEMMA Counted ==
  ASSUME TypeOK, Accounting, NEW o \in alive
  PROVE  /\ refs[o] = 0 => /\ held[o] = 0 /\ Children(o) = {} /\ Waiters(o) = {}
                           /\ o \notin grabbed /\ Unreleased(o) = 0
         /\ refs[o] \in Nat
<1>1. o \in Object /\ alive \subseteq Object /\ held[o] \in Nat
  <2>1. o \in Object /\ alive \subseteq Object
    BY DEF TypeOK
  <2>2. held[o] \in 0 .. MaxHeld /\ MaxHeld \in Nat
    BY <2>1, ObjectsOK DEF TypeOK
  <2> QED BY <2>1, <2>2
<1>2. refs[o] = held[o] + Cardinality(Children(o)) + Cardinality(Waiters(o))
                      + Grabs(o) + Unreleased(o)
  BY DEF Accounting
<1>3. Grabs(o) = 0 => o \notin grabbed
  BY DEF Grabs
<1>4. /\ Children(o) \in SUBSET Object /\ Waiters(o) \in SUBSET Object
      /\ Grabs(o) \in {0, 1} /\ Unreleased(o) \in {0, 1}
  BY <1>1, CountTypes
<1> DEFINE n == held[o] + Cardinality(Children(o)) + Cardinality(Waiters(o))
                        + Grabs(o) + Unreleased(o)
<1>5. /\ n \in Nat
      /\ n = 0 => /\ held[o] = 0 /\ Children(o) = {} /\ Waiters(o) = {}
                 /\ Grabs(o) = 0 /\ Unreleased(o) = 0
  BY <1>1, <1>4, CountNone
<1> HIDE DEF n
<1> QED BY <1>2, <1>3, <1>5 DEF n

\* The same after a step.
LEMMA CountedNext ==
  ASSUME TypeOK', Accounting', NEW o \in alive'
  PROVE  refs'[o] = 0 => /\ held'[o] = 0 /\ Children(o)' = {} /\ Waiters(o)' = {}
                         /\ Unreleased(o)' = 0
<1>1. o \in Object /\ alive' \subseteq Object
  BY DEF TypeOK
<1>2. held'[o] \in Nat
  BY <1>1, ObjectsOK DEF TypeOK
<1>3. /\ Children(o)' \in SUBSET Object /\ Waiters(o)' \in SUBSET Object
      /\ Grabs(o)' \in {0, 1} /\ Unreleased(o)' \in {0, 1}
  BY <1>1 DEF Children, Waiters, Grabs, Unreleased
<1> DEFINE n == held'[o] + Cardinality(Children(o)') + Cardinality(Waiters(o)')
                         + Grabs(o)' + Unreleased(o)'
<1>4. n = 0 => /\ held'[o] = 0 /\ Children(o)' = {} /\ Waiters(o)' = {}
               /\ Grabs(o)' = 0 /\ Unreleased(o)' = 0
  BY <1>2, <1>3, CountNone
<1>5. refs'[o] = n
  BY DEF Accounting
<1> HIDE DEF n
<1> QED BY <1>4, <1>5

-----------------------------------------------------------------------------
(* Each step keeps the invariant.                                          *)

\* At first there is only the context, with the host's reference.
LEMMA ObjInit == Init => ObjInv
<1> SUFFICES ASSUME Init
             PROVE  ObjInv
  OBVIOUS
<1>1. /\ Ctx \in Object /\ None \notin Object /\ Ctx \notin Event /\ Ctx \notin Queue
      /\ 1 \in 0 .. MaxHeld /\ 0 \in 0 .. MaxHeld
  BY ObjectsOK DEF Object
<1>2. TypeOK
  BY <1>1 DEF Init, TypeOK
<1>3. Accounting
  <2>1. Children(Ctx) = {} /\ Waiters(Ctx) = {}
    BY <1>1 DEF Init, Children, Waiters
  <2>2. Grabs(Ctx) = 0 /\ Unreleased(Ctx) = 0
    BY <1>1 DEF Init, Grabs, Unreleased
  <2>3. refs[Ctx] = 1 /\ held[Ctx] = 1
    BY <1>1 DEF Init
  <2>4. Cardinality({}) = 0
    BY FS_EmptySet
  <2>5. alive = {Ctx}
    BY DEF Init
  <2> QED BY <2>1, <2>2, <2>3, <2>4, <2>5 DEF Accounting
<1>4. KindInv
  <2>1. \A e \in Event : kind[e] = "none" /\ e \notin alive /\ ~Tracked(e)
    BY <1>1 DEF Init, Tracked
  <2>2. \A o \in Object : parent[o] = None
    BY DEF Init
  <2>3. \A e \in Event : status[e] = "None" /\ deps[e] = {} /\ waits[e] = {}
    BY DEF Init
  <2>4. \A q \in Queue : q \notin alive
    BY <1>1 DEF Init
  <2>5. \A e \in Event : parent[e] = None
    BY <2>2 DEF Object
  <2>6. parent[Ctx] = None /\ \A q \in Queue : parent[q] = None
    BY <2>2 DEF Object
  <2>7. \A e \in Event : kind[e] # "user"
    BY <2>1
  <2> QED BY <2>1, <2>3, <2>4, <2>5, <2>6, <2>7 DEF KindInv
<1>5. ReachInv
  <2>1. \A o \in Object : held[o] > 0 => o \in alive
    BY DEF Init
  <2>2. \A e \in Event : e # Ctx /\ held[e] = 0
    BY <1>1 DEF Init, Object
  <2>3. alive = {Ctx} /\ Owned(Ctx) = {}
    BY <1>1 DEF Init, Owned
  <2> QED BY <1>1, <2>1, <2>2, <2>3 DEF ReachInv
<1>6. KeptInv
  BY <1>1 DEF Init, KeptInv, Tracked, Kept
<1>7. DoomInv /\ HostInv
  BY DEF Init, DoomInv, HostInv
<1>8. DepsInv
  BY DEF Init, DepsInv, Demanded
<1> QED BY <1>2, <1>3, <1>4, <1>5, <1>6, <1>7, <1>8 DEF ObjInv

\* Steps that take no reference and make or delete nothing keep the counts.
LEMMA CountsSame ==
  ASSUME Accounting, UNCHANGED <<alive, refs, held, kind, parent, waits, grabbed>>
  PROVE  Accounting'
  BY DEF Accounting, Children, Waiters, Grabs, Unreleased

\* Steps that change statuses of kept and user events and what is in the lists.
LEMMA StatusKeeps ==
  ASSUME ObjInv, TypeOK',
         UNCHANGED <<countVars, eventVars, hostVars, exited, cut>>,
         \A e \in Event : (status'[e] = "None") = (status[e] = "None"),
         \A e \in Event : status'[e] = "Queued" => status[e] = "Queued",
         \A q \in Queue : listed'[q] \subseteq listed[q],
         \A e \in keepParent' : Kept(e), hand' # None => Kept(hand')
  PROVE  ObjInv'
<1> USE DEF ObjInv, countVars, eventVars, hostVars
<1>1. Accounting'
  BY CountsSame
<1>2. KindInv'
  BY DEF KindInv, Tracked, TypeOK
<1>3. ReachInv'
  <2>1. \A o \in Object : Owned(o)' = Owned(o)
    BY DEF Owned
  <2>2. \A e \in Event : waits[e] \subseteq Event
    BY DEF TypeOK
  <2> QED BY <2>1, <2>2 DEF ReachInv, TypeOK
<1>4. KeptInv'
  <2>1. \A e \in Event : Kept(e)' = Kept(e)
    BY DEF Kept, Tracked
  <2> QED BY <2>1 DEF KeptInv, TypeOK
<1>5. DoomInv'
  <2>1. \A e \in Event : Kept(e)' = Kept(e)
    BY DEF Kept, Tracked
  <2>2. \A o : Children(o)' = Children(o) /\ Waiters(o)' = Waiters(o)
    BY DEF Children, Waiters
  <2> QED BY <2>1, <2>2 DEF DoomInv
<1>6. HostInv'
  BY DEF HostInv, Tracked
<1>7. DepsInv'
  <2>1. \A u, q : Demanded(u, q)' = Demanded(u, q)
    BY DEF Demanded
  <2> QED BY <2>1 DEF DepsInv
<1> QED BY <1>1, <1>2, <1>3, <1>4, <1>5, <1>6, <1>7

\* The user sets the status of a user event.
LEMMA SetUserKeeps ==
  ASSUME ObjInv, NEW e \in Event, SetUser(e)
  PROVE  ObjInv'
<1>1. TypeOK'
  BY DEF ObjInv, TypeOK, SetUser, countVars, eventVars, hostVars
<1> QED BY <1>1, StatusKeeps DEF ObjInv, TypeOK, KeptInv, SetUser, countVars, eventVars, hostVars

\* An event whose wait list is complete goes to the device, or is over.
LEMMA PushKeeps ==
  ASSUME ObjInv, NEW e \in Event, Push(e)
  PROVE  ObjInv'
<1>1. TypeOK'
  BY DEF ObjInv, TypeOK, Push, countVars, eventVars, hostVars
<1> QED BY <1>1, StatusKeeps DEF ObjInv, TypeOK, KeptInv, Push, countVars, eventVars, hostVars

\* The worker executes a command.
LEMMA ExecuteKeeps ==
  ASSUME ObjInv, NEW e \in Event, NEW outcome \in {"Complete", "Failed"}, Execute(e, outcome)
  PROVE  ObjInv'
<1>1. TypeOK'
  BY DEF ObjInv, TypeOK, Execute, countVars, eventVars, hostVars
<1>2. Kept(e)
  BY DEF Execute, Kept, Tracked
<1> QED BY <1>1, <1>2, StatusKeeps
        DEF ObjInv, TypeOK, KeptInv, Execute, countVars, eventVars, hostVars

\* cleanEvents takes finished events from a list; the queue is not deleted, for
\* the worker's event and the host's handle count.
LEMMA EraseKeeps ==
  ASSUME ObjInv, NEW q \in Queue, q \in alive, refs[q] # 0, Erase(q),
         hand' \in {hand, None}
  PROVE  ObjInv'
<1>1. doomed' = doomed
  BY DEF Erase
<1>2. listed' \in [Queue -> SUBSET Event] /\ \A p \in Queue : listed'[p] \subseteq listed[p]
  BY DEF Erase, ObjInv, TypeOK
<1>3. \A e \in keepParent' : e \in Event /\ Kept(e)
  BY DEF Erase, ObjInv, KeptInv, TypeOK
<1>4. hand' \in Event \union {None} /\ (hand' # None => Kept(hand'))
  BY DEF ObjInv, KeptInv, TypeOK
<1>5. UNCHANGED <<countVars, eventVars, status, hostVars, exited, cut>>
  BY <1>1 DEF Erase, countVars
<1>6. TypeOK'
  BY <1>2, <1>3, <1>4, <1>5 DEF ObjInv, TypeOK, countVars, eventVars, hostVars
<1> QED BY <1>2, <1>3, <1>4, <1>5, <1>6, StatusKeeps

LEMMA CleansKeep ==
  ASSUME ObjInv, WorkerCleans \/ \E q \in Queue : HostCleans(q)
  PROVE  ObjInv'
<1>1. ASSUME NEW o \in alive, refs[o] = 0
      PROVE  held[o] = 0 /\ Children(o) = {}
  BY <1>1, Counted DEF ObjInv
<1>2. CASE WorkerCleans
  <2>1. hand \in Event /\ Kept(hand)
    BY <1>2 DEF WorkerCleans, ObjInv, TypeOK, KeptInv
  <2>2. hand \in alive /\ parent[hand] \in Queue
    BY <2>1 DEF ObjInv, KeptInv, KindInv, Kept
  <2>3. parent[hand] \in alive
    BY <2>1, <2>2, ObjectsOK DEF ObjInv, ReachInv, Owned
  <2>4. hand \in Children(parent[hand])
    BY <2>2 DEF Children
  <2>5. refs[parent[hand]] # 0
    BY <1>1, <2>3, <2>4
  <2> QED BY <1>2, <2>2, <2>3, <2>5, EraseKeeps DEF WorkerCleans
<1>3. ASSUME NEW q \in Queue, HostCleans(q)
      PROVE  ObjInv'
  <2>1. q \in Object /\ held[q] > 0
    BY <1>3 DEF HostCleans, Object
  <2>2. q \in alive
    BY <2>1 DEF ObjInv, ReachInv
  <2>3. refs[q] # 0
    BY <1>1, <2>1, <2>2
  <2> QED BY <1>3, <2>2, <2>3, EraseKeeps DEF HostCleans
<1> QED BY <1>2, <1>3

\* Steps that give and take references of the host or of clEnqueueMarker.
LEMMA BalanceKeeps ==
  ASSUME TypeOK, TypeOK', Accounting, UNCHANGED <<alive, kind, parent, waits>>,
         \A o \in alive : \/ /\ refs'[o] = refs[o] + 1
                             /\ held'[o] + Grabs(o)' = held[o] + Grabs(o) + 1
                          \/ /\ refs'[o] = refs[o] - 1
                             /\ held'[o] + Grabs(o)' = held[o] + Grabs(o) - 1
                          \/ /\ refs'[o] = refs[o]
                             /\ held'[o] + Grabs(o)' = held[o] + Grabs(o)
  PROVE  Accounting'
<1> SUFFICES ASSUME NEW o \in alive
             PROVE  refs'[o] = held'[o] + Cardinality(Children(o)) + Cardinality(Waiters(o))
                                        + Grabs(o)' + Unreleased(o)
  <2>1. \A o \in alive : Children(o)' = Children(o) /\ Waiters(o)' = Waiters(o)
                           /\ Unreleased(o)' = Unreleased(o)
    BY DEF Children, Waiters, Unreleased
  <2> QED BY <2>1 DEF Accounting
<1> DEFINE c == Cardinality(Children(o))
           w == Cardinality(Waiters(o))
<1>1. o \in Object /\ alive \subseteq Object
  BY DEF TypeOK
<1>2. c \in Nat /\ w \in Nat /\ Grabs(o) \in {0, 1} /\ Unreleased(o) \in {0, 1}
  BY <1>1, CountTypes
<1>3. Grabs(o)' \in {0, 1}
  BY DEF Grabs
<1>4. held[o] \in Nat /\ held'[o] \in Nat /\ refs[o] \in Nat /\ refs'[o] \in Nat
  BY <1>1, ObjectsOK DEF TypeOK
<1>5. refs[o] = held[o] + c + w + Grabs(o) + Unreleased(o)
  BY DEF Accounting
<1> HIDE DEF c, w
<1>6. refs'[o] = held'[o] + c + w + Grabs(o)' + Unreleased(o)
  BY <1>2, <1>3, <1>4, <1>5
<1> QED BY <1>6 DEF c, w

\* What is owned, and who owns it, when no object is made or deleted.
LEMMA OwnersSame ==
  ASSUME UNCHANGED <<alive, parent, waits>>
  PROVE  \A o : Owned(o)' = Owned(o) /\ Children(o)' = Children(o) /\ Waiters(o)' = Waiters(o)
  BY DEF Owned, Children, Waiters

\* The host asks for another reference.
LEMMA RetainKeeps ==
  ASSUME ObjInv, NEW o \in Object, Retain(o)
  PROVE  ObjInv'
<1>1. /\ refs \in [Object -> Nat] /\ held \in [Object -> 0 .. MaxHeld] /\ MaxHeld \in Nat
      /\ held[o] > 0 /\ held[o] + 1 \in 0 .. MaxHeld /\ alive \subseteq Object
  BY ObjectsOK DEF ObjInv, TypeOK, Retain
<1>2. /\ refs' = [x \in Object |-> refs[x] + (IF x = o THEN 1 ELSE 0)]
      /\ held' = [held EXCEPT ![o] = held[o] + 1]
  BY DEF Retain, Reference
<1>3. \A x \in Object : /\ refs[x] \in Nat /\ held[x] \in Nat
                        /\ refs'[x] = IF x = o THEN refs[x] + 1 ELSE refs[x]
                        /\ held'[x] = IF x = o THEN held[x] + 1 ELSE held[x]
  BY <1>1, <1>2
<1>4. TypeOK'
  <2>1. refs' \in [Object -> Nat] /\ held' \in [Object -> 0 .. MaxHeld]
    BY <1>1, <1>2
  <2> QED BY <2>1 DEF ObjInv, TypeOK, Retain, eventVars, queueVars, hostVars
<1>5. Accounting'
  <2>1. \A x \in alive : Grabs(x)' = Grabs(x) /\ Grabs(x) \in {0, 1}
    BY DEF Grabs, Retain, hostVars
  <2>2. \A x \in alive :
          \/ refs'[x] = refs[x] + 1 /\ held'[x] + Grabs(x)' = held[x] + Grabs(x) + 1
          \/ refs'[x] = refs[x] /\ held'[x] + Grabs(x)' = held[x] + Grabs(x)
    BY <1>1, <1>3, <2>1
  <2> QED BY <1>4, <2>2, BalanceKeeps DEF ObjInv, Retain, eventVars
<1>6. KindInv' /\ KeptInv' /\ DepsInv'
  BY DEF KindInv, KeptInv, DepsInv, Demanded, Tracked, Kept, ObjInv, Retain, eventVars, queueVars, hostVars
<1>7. ReachInv'
  <2>1. \A x \in Object : held'[x] > 0 => held[x] > 0
    BY <1>1, <1>3
  <2> QED BY <2>1, OwnersSame DEF ReachInv, Object, ObjInv, Retain, eventVars, queueVars
<1>8. DoomInv'
  BY DEF DoomInv, Idle, Running, Retain
<1>9. HostInv'
  BY DEF HostInv, Idle, ObjInv, Retain, hostVars
<1> QED BY <1>4, <1>5, <1>6, <1>7, <1>8, <1>9 DEF ObjInv

\* The host gives a reference back; an object without references is deleted.
LEMMA ReleaseKeeps ==
  ASSUME ObjInv, NEW o \in Object, Release(o)
  PROVE  ObjInv'
<1>0. o \in alive /\ refs[o] # 0
  <2>1. o \in alive
    BY DEF ReachInv, ObjInv, Release
  <2>2. held[o] # 0
    BY ObjectsOK DEF Release, ObjInv, TypeOK
  <2> QED BY <2>1, <2>2, Counted DEF ObjInv
<1>1. /\ refs \in [Object -> Nat] /\ held \in [Object -> 0 .. MaxHeld] /\ MaxHeld \in Nat
      /\ held[o] - 1 \in 0 .. MaxHeld /\ refs[o] - 1 \in Nat /\ alive \subseteq Object
  BY <1>0, ObjectsOK DEF ObjInv, TypeOK, Release
<1>2. /\ refs' = [x \in Object |-> refs[x] - (IF x = o THEN 1 ELSE 0)]
      /\ held' = [held EXCEPT ![o] = held[o] - 1]
  BY DEF Release, Dereference
<1>3. \A x \in Object : /\ refs[x] \in Nat /\ held[x] \in Nat
                        /\ refs'[x] = IF x = o THEN refs[x] - 1 ELSE refs[x]
                        /\ held'[x] = IF x = o THEN held[x] - 1 ELSE held[x]
  BY <1>1, <1>2
<1>4. TypeOK'
  <2>1. refs' \in [Object -> Nat]
    <3>1. \A x \in Object : refs'[x] \in Nat
      BY <1>1, <1>3
    <3> QED BY <1>2, <3>1
  <2>2. held' \in [Object -> 0 .. MaxHeld]
    BY <1>1, <1>2
  <2> QED BY <2>1, <2>2 DEF ObjInv, TypeOK, Release, eventVars, queueVars, hostVars
<1>5. Accounting'
  <2>1. \A x \in alive : Grabs(x)' = Grabs(x) /\ Grabs(x) \in {0, 1}
    BY DEF Grabs, Release, hostVars
  <2>2. \A x \in alive :
          \/ refs'[x] = refs[x] - 1 /\ held'[x] + Grabs(x)' = held[x] + Grabs(x) - 1
          \/ refs'[x] = refs[x] /\ held'[x] + Grabs(x)' = held[x] + Grabs(x)
    BY <1>1, <1>3, <2>1
  <2> QED BY <1>4, <2>2, BalanceKeeps DEF ObjInv, Release, eventVars
<1>6. KindInv' /\ KeptInv'
  BY DEF KindInv, KeptInv, Tracked, Kept, ObjInv, Release, eventVars, queueVars, hostVars
<1>7. ReachInv'
  <2>1. \A x \in Object : held'[x] > 0 => held[x] > 0
    BY <1>1, <1>3
  <2> QED BY <2>1, OwnersSame DEF ReachInv, Object, ObjInv, Release, eventVars, queueVars
<1>8. ASSUME NEW d \in doomed'
      PROVE  /\ d \in alive' /\ held'[d] = 0 /\ Children(d)' = {} /\ Waiters(d)' = {}
             /\ d \in Event => ~Tracked(d)
  <2>1. d = o /\ refs'[d] = 0 /\ d \in alive'
    <3>1. doomed' = (IF refs[o] = 1 THEN {o} ELSE {}) /\ alive' = alive
      BY DEF Release
    <3> QED BY <1>0, <1>3, <3>1
  <2>2. held'[d] = 0 /\ Children(d)' = {} /\ Waiters(d)' = {} /\ Unreleased(d)' = 0
    BY <1>4, <1>5, <2>1, CountedNext
  <2>3. d \in Event => ~Tracked(d)
    BY <2>2 DEF Unreleased, Tracked, Release, eventVars
  <2> QED BY <2>1, <2>2, <2>3
<1>9. DoomInv'
  BY <1>8 DEF DoomInv, Kept, Tracked, Release, eventVars, queueVars
<1>10. HostInv'
  BY DEF HostInv, Idle, ObjInv, Release, hostVars
<1>11. DepsInv'
  <2>1. \A e \in alive \intersect Event : parent[e] \in Queue => e \notin doomed'
    <3>1. None \notin Queue
      BY ObjectsOK
    <3> QED BY <1>8, <3>1 DEF KindInv, ObjInv
  <2>2. UNCHANGED <<alive, parent, waits, deps, cut>>
    BY DEF Release, eventVars
  <2>3. DepsInv /\ \A u \in Event : deps[u] \subseteq Queue
    BY DEF ObjInv, TypeOK
  <2> SUFFICES ASSUME NEW u \in Event, NEW q \in deps[u], <<u, q>> \notin cut
               PROVE  Demanded(u, q)'
    BY <2>2 DEF DepsInv
  <2>4. PICK e \in (alive \ doomed) \intersect Event : parent[e] = q /\ u \in waits[e]
    BY <2>3 DEF DepsInv, Demanded
  <2> QED BY <2>1, <2>2, <2>3, <2>4 DEF Demanded
<1> QED BY <1>4, <1>5, <1>6, <1>7, <1>9, <1>10, <1>11 DEF ObjInv

\* The host gets a handle of the event it enqueued, or none.
LEMMA GiveHandleKeeps ==
  ASSUME ObjInv, NEW wanted \in BOOLEAN, GiveHandle(wanted)
  PROVE  ObjInv'
<1>1. /\ refs \in [Object -> Nat] /\ held \in [Object -> 0 .. MaxHeld] /\ MaxHeld \in Nat
      /\ 1 \in 0 .. MaxHeld /\ alive \subseteq Object
  BY ObjectsOK DEF ObjInv, TypeOK
<1>2. /\ cur \in Object /\ cur \in Event /\ held[cur] = 0 /\ cur \in alive /\ status[cur] # "None"
      /\ doomed = {} /\ grabbed = {} /\ pc = "queued"
  BY DEF ObjInv, HostInv, GiveHandle, Object
<1>3. \A x \in Object : /\ refs[x] \in Nat /\ held[x] \in Nat
                        /\ refs'[x] = IF wanted /\ x = cur THEN refs[x] + 1 ELSE refs[x]
                        /\ held'[x] = IF wanted /\ x = cur THEN held[x] + 1 ELSE held[x]
  BY <1>1, <1>2 DEF GiveHandle, Reference
<1>4. TypeOK'
  <2>1. refs' \in [Object -> Nat]
    BY <1>1 DEF GiveHandle, Reference
  <2>2. held' \in [Object -> 0 .. MaxHeld]
    BY <1>1 DEF GiveHandle
  <2> QED BY <2>1, <2>2 DEF ObjInv, TypeOK, GiveHandle, eventVars, queueVars
<1>5. Accounting'
  <2>1. \A x \in alive : Grabs(x)' = Grabs(x) /\ Grabs(x) \in {0, 1}
    BY DEF Grabs, GiveHandle
  <2>2. \A x \in alive :
          \/ refs'[x] = refs[x] + 1 /\ held'[x] + Grabs(x)' = held[x] + Grabs(x) + 1
          \/ refs'[x] = refs[x] /\ held'[x] + Grabs(x)' = held[x] + Grabs(x)
    BY <1>1, <1>3, <2>1
  <2> QED BY <1>4, <2>2, BalanceKeeps DEF ObjInv, GiveHandle, eventVars
<1>6. KindInv' /\ KeptInv' /\ DepsInv'
  BY DEF KindInv, KeptInv, DepsInv, Demanded, Tracked, Kept, ObjInv, GiveHandle, eventVars, queueVars
<1>7. ReachInv'
  <2>1. \A x \in Object : held'[x] > 0 => held[x] > 0 \/ x = cur
    BY <1>1, <1>3
  <2> QED BY <1>2, <2>1, OwnersSame
          DEF ReachInv, Object, ObjInv, GiveHandle, eventVars, queueVars
<1>8. DoomInv' /\ HostInv'
  BY <1>2 DEF DoomInv, HostInv, GiveHandle
<1> QED BY <1>4, <1>5, <1>6, <1>7, <1>8 DEF ObjInv

\* events() takes a reference of each event in the list.
LEMMA GrabEventsKeeps ==
  ASSUME ObjInv, NEW q \in Queue, GrabEvents(q)
  PROVE  ObjInv'
<1>1. /\ refs \in [Object -> Nat] /\ held \in [Object -> 0 .. MaxHeld]
      /\ MaxHeld \in Nat /\ alive \subseteq Object
  BY ObjectsOK DEF ObjInv, TypeOK
<1>2. /\ listed[q] \subseteq Event /\ grabbed = {} /\ doomed = {} /\ cur = None
      /\ \A e \in listed[q] : Kept(e)
  BY DEF ObjInv, TypeOK, HostInv, KeptInv, GrabEvents, Idle, Running
<1>3. \A x \in Object : /\ refs[x] \in Nat /\ held[x] \in Nat
                        /\ refs'[x] = IF x \in listed[q] THEN refs[x] + 1 ELSE refs[x]
  BY <1>1 DEF GrabEvents, Reference
<1>4. TypeOK'
  <2>1. refs' \in [Object -> Nat]
    BY <1>1 DEF GrabEvents, Reference
  <2> QED BY <1>2, <2>1 DEF ObjInv, TypeOK, GrabEvents, eventVars, queueVars
<1>5. Accounting'
  <2>1. \A x \in alive : Grabs(x) = 0 /\ Grabs(x)' = (IF x \in listed[q] THEN 1 ELSE 0)
    BY <1>2 DEF Grabs, GrabEvents
  <2>2. \A x \in alive :
          \/ refs'[x] = refs[x] + 1 /\ held'[x] + Grabs(x)' = held[x] + Grabs(x) + 1
          \/ refs'[x] = refs[x] /\ held'[x] + Grabs(x)' = held[x] + Grabs(x)
    BY <1>1, <1>3, <2>1 DEF GrabEvents
  <2> QED BY <1>4, <2>2, BalanceKeeps DEF ObjInv, GrabEvents, eventVars
<1>6. KindInv' /\ DepsInv'
  BY DEF KindInv, DepsInv, Demanded, Tracked, ObjInv, GrabEvents, eventVars, queueVars
<1>7. KeptInv'
  <2>1. \A e \in listed[q] \union keepParent : Kept(e)
    BY <1>2 DEF ObjInv, KeptInv
  <2> QED BY <2>1 DEF ObjInv, KeptInv, Kept, Tracked, GrabEvents, eventVars, queueVars
<1>8. ReachInv'
  BY OwnersSame DEF ReachInv, Object, ObjInv, GrabEvents, eventVars, queueVars
<1>9. DoomInv' /\ HostInv'
  BY <1>2 DEF DoomInv, HostInv, GrabEvents
<1> QED BY <1>4, <1>5, <1>6, <1>7, <1>8, <1>9 DEF ObjInv

\* clEnqueueMarker gives the references of events() back.
LEMMA DropGrabbedKeeps ==
  ASSUME ObjInv, DropGrabbed
  PROVE  ObjInv'
<1>1. /\ refs \in [Object -> Nat] /\ held \in [Object -> 0 .. MaxHeld] /\ MaxHeld \in Nat
      /\ alive \subseteq Object /\ grabbed \subseteq Event
  BY ObjectsOK DEF ObjInv, TypeOK
<1>2. /\ \A e \in grabbed : e \in alive
      /\ doomed = {} /\ pc = "marked"
  BY <1>1 DEF ObjInv, HostInv, KeptInv, DropGrabbed, Running
<1>3. \A e \in grabbed : refs[e] # 0
  BY <1>2, Counted DEF ObjInv
<1>4. \A x \in Object : /\ refs[x] \in Nat /\ held[x] \in Nat
                        /\ refs'[x] = IF x \in grabbed THEN refs[x] - 1 ELSE refs[x]
  BY <1>1 DEF DropGrabbed, Dereference
<1>5. TypeOK'
  <2>1. \A x \in Object : refs'[x] \in Nat
    BY <1>3, <1>4
  <2>2. refs' \in [Object -> Nat]
    BY <2>1 DEF DropGrabbed, Dereference
  <2> QED BY <2>2 DEF ObjInv, TypeOK, DropGrabbed, eventVars, queueVars
<1>6. Accounting'
  <2>1. \A x \in alive : Grabs(x)' = 0 /\ Grabs(x) = (IF x \in grabbed THEN 1 ELSE 0)
    BY DEF Grabs, DropGrabbed
  <2>2. \A x \in alive :
          \/ refs'[x] = refs[x] - 1 /\ held'[x] + Grabs(x)' = held[x] + Grabs(x) - 1
          \/ refs'[x] = refs[x] /\ held'[x] + Grabs(x)' = held[x] + Grabs(x)
    BY <1>1, <1>4, <2>1 DEF DropGrabbed
  <2> QED BY <1>5, <2>2, BalanceKeeps DEF ObjInv, DropGrabbed, eventVars
<1>7. KindInv' /\ KeptInv' /\ DepsInv'
  BY DEF KindInv, KeptInv, DepsInv, Demanded, Tracked, Kept, ObjInv, DropGrabbed, eventVars, queueVars
<1>8. ReachInv'
  BY OwnersSame DEF ReachInv, Object, ObjInv, DropGrabbed, eventVars, queueVars
<1>9. DoomInv' /\ HostInv'
  BY <1>2 DEF DoomInv, HostInv, Tracked, ObjInv, DropGrabbed, eventVars, queueVars
<1> QED BY <1>5, <1>6, <1>7, <1>8, <1>9 DEF ObjInv

\* The new event goes to the end of the list.
LEMMA AppendKeeps ==
  ASSUME ObjInv, Append
  PROVE  ObjInv'
<1>1. /\ cur \in alive \intersect Event /\ Tracked(cur) /\ parent[cur] = target
      /\ target \in Queue /\ doomed = {} /\ pc = "made" /\ status[cur] = "None"
      /\ grabbed = {} /\ status \in [Event -> {"None", "Queued", "Submitted", "Complete", "Failed"}]
  BY DEF ObjInv, TypeOK, HostInv, Append, Running
<1>2. \A e \in Event : status'[e] = IF e = cur THEN "Queued" ELSE status[e]
  BY <1>1 DEF Append
<1>3. TypeOK'
  BY <1>1 DEF ObjInv, TypeOK, Append, countVars, eventVars
<1>4. Accounting'
  BY CountsSame DEF ObjInv, Append, countVars, eventVars
<1>5. KindInv'
  BY <1>1, <1>2 DEF KindInv, Tracked, ObjInv, Append, countVars, eventVars
<1>6. ReachInv'
  <2>1. \A e \in Event : waits[e] \subseteq Event
    BY DEF ObjInv, TypeOK
  <2> QED BY <1>2, <2>1, OwnersSame DEF ReachInv, Object, ObjInv, Append, countVars, eventVars
<1>7. KeptInv'
  <2>1. \A e \in Event : Kept(e)' = (Kept(e) \/ e = cur)
    BY <1>1, <1>2 DEF Kept, Tracked, Append, eventVars
  <2>2. \A p \in Queue : \A e \in listed'[p] : e \in listed[p] \/ (e = cur /\ p = target)
    BY DEF ObjInv, TypeOK, Append
  <2> QED BY <1>1, <2>1, <2>2 DEF KeptInv, ObjInv, TypeOK, Append, countVars, eventVars
<1>8. DoomInv' /\ DepsInv'
  BY <1>1 DEF DoomInv, DepsInv, Demanded, ObjInv, Append, countVars, eventVars
<1>9. HostInv'
  BY <1>1, <1>2 DEF HostInv, Tracked, ObjInv, Append, countVars, eventVars
<1> QED BY <1>3, <1>4, <1>5, <1>6, <1>7, <1>8, <1>9 DEF ObjInv

\* A command that is refused is deleted; nobody waits for it.
LEMMA RejectKeeps ==
  ASSUME ObjInv, Reject
  PROVE  ObjInv'
<1>1. /\ cur \in alive \intersect Event /\ Tracked(cur) /\ parent[cur] = target
      /\ target \in Queue /\ doomed = {} /\ pc = "made" /\ status[cur] = "None"
      /\ grabbed = {} /\ held[cur] = 0
  BY DEF ObjInv, HostInv, Reject, Running
<1>2. TypeOK'
  BY <1>1 DEF ObjInv, TypeOK, Reject, eventVars, queueVars, Object
<1>3. Accounting'
  BY CountsSame DEF ObjInv, Reject, eventVars
<1>4. KindInv' /\ KeptInv'
  BY DEF KindInv, KeptInv, Kept, Tracked, ObjInv, Reject, eventVars, queueVars
<1>5. ReachInv'
  BY OwnersSame DEF ReachInv, Object, ObjInv, Reject, eventVars, queueVars
<1>6. DoomInv'
  <2>1. PICK d \in Event : d = cur
    BY <1>1
  <2>2. Children(d) = {}
    <3>1. \A o \in alive : parent[o] \in Queue \union {Ctx, None}
      BY DEF ObjInv, TypeOK
    <3>2. d \notin Queue \union {Ctx, None}
      BY ObjectsOK
    <3> QED BY <3>1, <3>2 DEF Children
  <2>3. Waiters(d) = {}
    BY <1>1, <2>1 DEF ObjInv, ReachInv, Waiters
  <2>4. /\ UNCHANGED <<alive, held, parent, waits, status>>
        /\ doomed' = {d}
    BY <2>1 DEF Reject, eventVars, queueVars
  <2>5. Children(d)' = {} /\ Waiters(d)' = {}
    BY <2>2, <2>3, <2>4 DEF Children, Waiters
  <2>6. d \in alive' /\ held'[d] = 0 /\ status'[d] = "None"
    BY <1>1, <2>1, <2>4
  <2> QED BY <2>4, <2>5, <2>6 DEF DoomInv, Kept
<1>7. HostInv'
  BY <1>1 DEF HostInv, Reject
<1>8. DepsInv'
  <2> SUFFICES ASSUME NEW u \in Event, NEW q \in deps[u], <<u, q>> \notin cut'
               PROVE  \E e \in (alive \ {cur}) \intersect Event : parent[e] = q /\ u \in waits[e]
    BY DEF DepsInv, Demanded, Reject, eventVars
  <2>1. <<u, q>> \notin cut
    BY DEF Reject
  <2>2. PICK e \in (alive \ doomed) \intersect Event : parent[e] = q /\ u \in waits[e]
    BY <2>1 DEF DepsInv, Demanded, ObjInv
  <2>3. e # cur
    <3> SUFFICES ASSUME e = cur
                 PROVE  FALSE
      OBVIOUS
    <3>1. u \in waits[cur] /\ q = target
      BY <1>1, <2>2
    <3>2. kind[u] = "user"
      BY DEF KindInv, ObjInv
    <3>3. <<u, q>> \in {x \in waits[cur] : kind[x] = "user"} \X {target}
      BY <3>1, <3>2
    <3> QED BY <3>3 DEF Reject
  <2> QED BY <2>2, <2>3
<1> QED BY <1>2, <1>3, <1>4, <1>5, <1>6, <1>7, <1>8 DEF ObjInv

\* Of an object that is not there nothing is left that anyone could reach.
LEMMA NewIsUnknown ==
  ASSUME ObjInv, NEW n \in Object, IsNew(n)
  PROVE  /\ held[n] = 0 /\ Children(n) = {} /\ Waiters(n) = {} /\ n \notin grabbed
         /\ n \notin alive /\ n \notin doomed
<1>1. n \notin alive
  BY DEF IsNew
<1>2. held[n] = 0
  <2>1. held[n] \in 0 .. MaxHeld /\ MaxHeld \in Nat /\ ~(held[n] > 0)
    BY <1>1, ObjectsOK DEF ObjInv, TypeOK, ReachInv
  <2> QED BY <2>1
<1>3. n # None
  BY ObjectsOK DEF Object
<1>4. Children(n) = {}
  BY <1>1, <1>3 DEF Children, ObjInv, ReachInv, Owned
<1>5. Waiters(n) = {}
  BY <1>1 DEF Waiters, ObjInv, ReachInv, Owned
<1>6. n \notin grabbed
  BY <1>1 DEF ObjInv, KeptInv, TypeOK
<1>7. n \notin doomed
  BY <1>1 DEF ObjInv, DoomInv
<1> QED BY <1>1, <1>2, <1>4, <1>5, <1>6, <1>7

\* The commands that wait for user events stay while the events they are made
\* of do.
LEMMA DepsKeep ==
  ASSUME DepsInv, UNCHANGED deps, cut \subseteq cut',
         \A e \in (alive \ doomed) \intersect Event :
           e \in alive' \ doomed' /\ parent'[e] = parent[e] /\ waits'[e] = waits[e]
  PROVE  DepsInv'
<1> SUFFICES ASSUME NEW u \in Event, NEW q \in deps[u], <<u, q>> \notin cut'
             PROVE  Demanded(u, q)'
  BY DEF DepsInv
<1>1. PICK e \in (alive \ doomed) \intersect Event : parent[e] = q /\ u \in waits[e]
  BY DEF DepsInv, Demanded
<1> QED BY <1>1 DEF Demanded

\* A queue takes a reference of its context.
LEMMA CreateQueueKeeps ==
  ASSUME ObjInv, NEW q \in Queue, CreateQueue(q)
  PROVE  ObjInv'
<1>1. /\ q \in Object /\ Ctx \in Object /\ q # Ctx /\ q \notin Event /\ Ctx \notin Event
      /\ Ctx \notin Queue /\ None \notin Object
  BY ObjectsOK DEF Object
<1>2. /\ refs \in [Object -> Nat] /\ held \in [Object -> 0 .. MaxHeld] /\ MaxHeld \in Nat
      /\ 1 \in 0 .. MaxHeld /\ alive \subseteq Object /\ Ctx \in alive
      /\ parent \in [Object -> Queue \union {Ctx, None}] /\ held[Ctx] > 0
  BY <1>1, ObjectsOK DEF ObjInv, TypeOK, ReachInv, CreateQueue
<1>3. /\ q \notin alive /\ held[q] = 0 /\ Children(q) = {} /\ Waiters(q) = {} /\ q \notin grabbed
      /\ parent[q] = None /\ doomed = {}
  BY <1>1, NewIsUnknown DEF CreateQueue, IsNew, Idle, Running
<1>4. /\ \A o \in Object :
           /\ refs'[o] = CASE o = q -> 1 [] o = Ctx -> refs[Ctx] + 1 [] OTHER -> refs[o]
           /\ held'[o] = IF o = q THEN 1 ELSE held[o]
           /\ parent'[o] = IF o = q THEN Ctx ELSE parent[o]
      /\ alive' = alive \union {q} /\ UNCHANGED <<waits, kind, grabbed, doomed>>
  BY <1>1, <1>2 DEF CreateQueue, Reference, hostVars
<1>5. TypeOK'
  <2>1. refs' \in [Object -> Nat] /\ held' \in [Object -> 0 .. MaxHeld]
    <3>1. Reference({Ctx}) \in [Object -> Nat]
      BY <1>2 DEF Reference
    <3>2. refs' = [Reference({Ctx}) EXCEPT ![q] = 1] /\ held' = [held EXCEPT ![q] = 1]
      BY DEF CreateQueue
    <3> QED BY <1>2, <3>1, <3>2
  <2>2. parent' \in [Object -> Queue \union {Ctx, None}] /\ alive' \subseteq Object
    BY <1>1, <1>2 DEF CreateQueue
  <2> QED BY <2>1, <2>2 DEF ObjInv, TypeOK, CreateQueue, queueVars, hostVars
<1>6. \A o \in Object : /\ Children(o)' = IF o = Ctx THEN Children(Ctx) \union {q} ELSE Children(o)
                        /\ Waiters(o)' = Waiters(o)
                        /\ Grabs(o)' = Grabs(o) /\ Unreleased(o)' = Unreleased(o)
  BY <1>1, <1>2, <1>3, <1>4 DEF Children, Waiters, Grabs, Unreleased
<1>7. Accounting'
  <2> SUFFICES ASSUME NEW o \in alive'
               PROVE  refs'[o] = held'[o] + Cardinality(Children(o)') + Cardinality(Waiters(o)')
                                          + Grabs(o)' + Unreleased(o)'
    BY DEF Accounting
  <2>1. o \in Object
    BY <1>1, <1>2, <1>4
  <2>2. CASE o = q
    <3>1. Grabs(q) = 0 /\ Unreleased(q) = 0
      BY <1>1, <1>3 DEF Grabs, Unreleased
    <3>2. Grabs(q)' = 0 /\ Unreleased(q)' = 0 /\ Children(q)' = {} /\ Waiters(q)' = {}
      BY <1>1, <1>3, <1>6, <3>1
    <3>3. refs'[q] = 1 /\ held'[q] = 1
      BY <1>1, <1>4
    <3>4. Cardinality({}) = 0
      BY FS_EmptySet
    <3> QED BY <2>2, <3>2, <3>3, <3>4
  <2>3. CASE o # q
    <3>1. refs[o] = held[o] + Cardinality(Children(o)) + Cardinality(Waiters(o))
                            + Grabs(o) + Unreleased(o)
      BY <1>4, <2>3 DEF ObjInv, Accounting
    <3> DEFINE c == Cardinality(Children(o))
               w == Cardinality(Waiters(o))
    <3>2. c \in Nat /\ w \in Nat /\ Grabs(o) \in {0, 1} /\ Unreleased(o) \in {0, 1} /\ held[o] \in Nat
      BY <1>2, <2>1, CountTypes
    <3>3. Cardinality(Children(o)') = IF o = Ctx THEN c + 1 ELSE c
      <4>1. q \notin Children(Ctx)
        BY <1>3 DEF Children
      <4>2. Children(Ctx) \in SUBSET Object
        BY <1>1, <1>2, CountTypes
      <4> QED BY <1>6, <2>1, <4>1, <4>2, CountAdd
    <3>4. refs'[o] = (IF o = Ctx THEN refs[o] + 1 ELSE refs[o]) /\ held'[o] = held[o]
      BY <1>4, <2>1, <2>3
    <3>5. Cardinality(Waiters(o)') = w /\ Grabs(o)' = Grabs(o) /\ Unreleased(o)' = Unreleased(o)
      BY <1>6, <2>1
    <3>6. refs[o] = held[o] + c + w + Grabs(o) + Unreleased(o)
      BY <3>1
    <3> HIDE DEF c, w
    <3> QED BY <3>2, <3>3, <3>4, <3>5, <3>6
  <2> QED BY <2>2, <2>3
<1>8. KindInv'
  <2>1. \A e \in Event : e \in Object /\ e # q
    BY <1>1 DEF Object
  <2> QED BY <1>1, <1>4, <2>1 DEF ObjInv, KindInv, Tracked, CreateQueue, queueVars, Object
<1>9. ReachInv'
  <2>1. Owned(q)' = {Ctx} /\ \A o \in Object \ {q} : Owned(o)' = Owned(o)
    <3>1. parent'[q] = Ctx /\ \A o \in Object \ {q} : parent'[o] = parent[o]
      BY <1>1, <1>4
    <3>2. Owned(q)' = {Ctx} \ {None}
      BY <1>1, <3>1 DEF Owned
    <3> QED BY <1>1, <1>4, <3>1, <3>2 DEF Owned
  <2>2. \A o \in Object : held'[o] > 0 => held[o] > 0 \/ o = q
    BY <1>4
  <2>3. \A e \in Event : e \in Object /\ e # q
    BY <1>1 DEF Object
  <2>4. \A o \in Object : held'[o] > 0 => o \in alive'
    BY <1>4, <2>2 DEF ObjInv, ReachInv
  <2>5. \A e \in Event : held'[e] > 0 => status'[e] # "None"
    BY <1>4, <2>3 DEF ObjInv, ReachInv, CreateQueue, queueVars
  <2>6. \A o \in alive' : Owned(o)' \subseteq alive'
    <3>1. \A o \in alive : o \in Object \ {q} /\ Owned(o) \subseteq alive
      BY <1>2, <1>3 DEF ObjInv, ReachInv
    <3> QED BY <1>2, <1>4, <2>1, <3>1
  <2>7. \A e \in alive' \intersect Event : \A w \in waits'[e] : status'[w] # "None"
    BY <1>4, <2>3 DEF ObjInv, ReachInv, CreateQueue, queueVars
  <2> QED BY <2>4, <2>5, <2>6, <2>7 DEF ReachInv
<1>10. KeptInv'
  <2>1. \A e \in Event : parent'[e] = parent[e] /\ (Kept(e)' = Kept(e))
    BY <1>1, <1>4 DEF Kept, Tracked, CreateQueue, queueVars, Object
  <2> QED BY <1>4, <2>1 DEF ObjInv, KeptInv, TypeOK, CreateQueue, queueVars, hostVars
<1>11. DoomInv'
  BY <1>3, <1>4 DEF DoomInv
<1>12. HostInv'
  BY DEF ObjInv, HostInv, CreateQueue, hostVars, Idle
<1>13. DepsInv'
  <2>1. \A e \in Event : parent'[e] = parent[e]
    BY <1>1, <1>4 DEF Object
  <2> QED BY <1>4, <2>1, DepsKeep DEF ObjInv, CreateQueue
<1> QED BY <1>5, <1>7, <1>8, <1>9, <1>10, <1>11, <1>12, <1>13 DEF ObjInv

\* A user event stands alone.
LEMMA CreateUserKeeps ==
  ASSUME ObjInv, NEW n \in Event, CreateUser(n)
  PROVE  ObjInv'
<1>1. n \in Object /\ \A e \in Event : e \in Object
  BY DEF Object
<1>2. /\ refs \in [Object -> Nat] /\ held \in [Object -> 0 .. MaxHeld] /\ MaxHeld \in Nat
      /\ 1 \in 0 .. MaxHeld /\ alive \subseteq Object /\ kind[n] = "none"
      /\ kind \in [Event -> {"none", "user", "command", "marker", "dummy"}]
      /\ status \in [Event -> {"None", "Queued", "Submitted", "Complete", "Failed"}]
  BY ObjectsOK DEF ObjInv, TypeOK, CreateUser, IsNew
<1>3. /\ n \notin alive /\ held[n] = 0 /\ Children(n) = {} /\ Waiters(n) = {} /\ n \notin grabbed
      /\ doomed = {} /\ parent[n] = None /\ waits[n] = {} /\ ~Tracked(n)
  <2>1. ~Tracked(n)
    BY <1>2 DEF Tracked
  <2> QED BY <1>1, <2>1, NewIsUnknown DEF CreateUser, Idle, Running, ObjInv, KindInv
<1>4. /\ \A o \in Object :
           /\ refs'[o] = IF o = n THEN 1 ELSE refs[o]
           /\ held'[o] = IF o = n THEN 1 ELSE held[o]
      /\ \A e \in Event : /\ kind'[e] = IF e = n THEN "user" ELSE kind[e]
                          /\ status'[e] = IF e = n THEN "Submitted" ELSE status[e]
                          /\ Tracked(e)' = Tracked(e)
      /\ alive' = alive \union {n} /\ UNCHANGED <<waits, parent, grabbed, doomed>>
  <2>1. \A e \in Event : kind'[e] = IF e = n THEN "user" ELSE kind[e]
    BY <1>2 DEF CreateUser
  <2>2. \A e \in Event : Tracked(e)' = Tracked(e)
    BY <1>3, <2>1 DEF Tracked
  <2> QED BY <1>1, <1>2, <2>1, <2>2 DEF CreateUser, hostVars
<1>5. TypeOK'
  <2>1. refs' \in [Object -> Nat] /\ held' \in [Object -> 0 .. MaxHeld]
    BY <1>2 DEF CreateUser
  <2>2. kind' \in [Event -> {"none", "user", "command", "marker", "dummy"}] /\ alive' \subseteq Object
    BY <1>1, <1>2 DEF CreateUser
  <2>3. status' \in [Event -> {"None", "Queued", "Submitted", "Complete", "Failed"}]
    BY <1>2 DEF CreateUser
  <2> QED BY <2>1, <2>2, <2>3 DEF ObjInv, TypeOK, CreateUser, hostVars
<1>6. \A o \in Object : /\ Children(o)' = Children(o) /\ Waiters(o)' = Waiters(o)
                        /\ Grabs(o)' = Grabs(o)
                        /\ o # n => Unreleased(o)' = Unreleased(o)
  <2>1. \A o \in Object : o # None
    BY ObjectsOK DEF Object
  <2> QED BY <1>1, <1>3, <1>4, <2>1 DEF Children, Waiters, Grabs, Unreleased
<1>7. Accounting'
  <2> SUFFICES ASSUME NEW o \in alive'
               PROVE  refs'[o] = held'[o] + Cardinality(Children(o)') + Cardinality(Waiters(o)')
                                          + Grabs(o)' + Unreleased(o)'
    BY DEF Accounting
  <2>1. o \in Object
    BY <1>1, <1>2, <1>4
  <2>2. CASE o = n
    <3>1. Grabs(n) = 0 /\ Unreleased(n)' = 0
      BY <1>3, <1>4 DEF Grabs, Unreleased
    <3>2. Grabs(n)' = 0 /\ Children(n)' = {} /\ Waiters(n)' = {}
      BY <1>1, <1>3, <1>6, <3>1
    <3>3. refs'[n] = 1 /\ held'[n] = 1
      BY <1>1, <1>4
    <3>4. Cardinality({}) = 0
      BY FS_EmptySet
    <3> QED BY <2>2, <3>1, <3>2, <3>3, <3>4
  <2>3. CASE o # n
    BY <1>4, <1>6, <2>1, <2>3 DEF ObjInv, Accounting
  <2> QED BY <2>2, <2>3
<1>8. KindInv'
  <2>1. KindInv /\ UNCHANGED <<parent, waits, deps>>
    BY DEF ObjInv, CreateUser
  <2>2. ASSUME NEW e \in Event
        PROVE  /\ kind'[e] = "none" => e \notin alive' /\ status'[e] = "None"
               /\ deps[e] # {} => kind'[e] = "user"
               /\ kind'[e] = "user" => status'[e] \notin {"None", "Queued"}
               /\ ~Tracked(e)' => parent[e] = None /\ waits[e] = {}
               /\ Tracked(e)' => parent[e] \in Queue
    <3>1. CASE e = n
      BY <1>3, <1>4, <3>1
    <3>2. CASE e # n
      BY <1>4, <2>1, <3>2 DEF KindInv
    <3> QED BY <3>1, <3>2
  <2>3. \A q \in Queue : q \in alive' => q \in alive
    BY <1>4, ObjectsOK
  <2> QED BY <2>1, <2>2, <2>3 DEF KindInv
<1>9. ReachInv'
  <2>1. \A o \in Object : Owned(o)' = Owned(o)
    BY <1>4 DEF Owned
  <2>2. \A o \in Object : held'[o] > 0 => held[o] > 0 \/ o = n
    BY <1>4
  <2>3. Owned(n) = {} /\ \A e \in Event : waits[e] \subseteq Event
    BY <1>3 DEF Owned, ObjInv, TypeOK
  <2> QED BY <1>1, <1>2, <1>3, <1>4, <2>1, <2>2, <2>3 DEF ObjInv, ReachInv
<1>10. KeptInv'
  <2>1. \A e \in Event : Kept(e)' = Kept(e)
    BY <1>3, <1>4 DEF Kept
  <2> QED BY <1>4, <2>1 DEF ObjInv, KeptInv, TypeOK, CreateUser, hostVars
<1>11. DoomInv'
  BY <1>3, <1>4 DEF DoomInv
<1>12. HostInv'
  BY DEF ObjInv, HostInv, CreateUser, hostVars, Idle
<1>13. DepsInv'
  BY <1>4, DepsKeep DEF ObjInv, CreateUser
<1> QED BY <1>5, <1>7, <1>8, <1>9, <1>10, <1>11, <1>12, <1>13 DEF ObjInv

\* A sum in which one part grows, or shrinks, by one.
LEMMA OneCounted ==
  ASSUME TypeOK, NEW o \in alive, Accounting
  PROVE  /\ Cardinality(Children(o)) \in Nat /\ Cardinality(Waiters(o)) \in Nat
         /\ held[o] \in Nat /\ Grabs(o) \in {0, 1} /\ Unreleased(o) \in {0, 1} /\ refs[o] \in Nat
         /\ refs[o] = held[o] + Cardinality(Children(o)) + Cardinality(Waiters(o))
                              + Grabs(o) + Unreleased(o)
<1>1. o \in Object /\ alive \subseteq Object
  BY DEF TypeOK
<1>2. held[o] \in Nat /\ refs[o] \in Nat
  BY <1>1, ObjectsOK DEF TypeOK
<1> QED BY <1>1, <1>2, CountTypes DEF Accounting

\* The constructor of an event references its queue and its wait list.
LEMMA ConstructKeeps ==
  ASSUME ObjInv, NEW n \in Event, NEW k \in {"command", "marker", "dummy"},
         NEW q \in Queue, NEW W \in SUBSET Event,
         IsNew(n), held[q] > 0, doomed = {}, \A x \in W : x \in alive /\ status[x] # "None",
         Construct(n, k, q, W), grabbed' = grabbed,
         \/ pc' = "made" /\ grabbed = {}
         \/ pc' = "marked"
  PROVE  ObjInv'
<1>1. /\ n \in Object /\ q \in Object /\ q # n /\ q \notin Event /\ n \notin Queue /\ n # Ctx
      /\ \A e \in Event : e \in Object /\ e # q
      /\ None \notin Object
  BY ObjectsOK DEF Object
<1>2. /\ refs \in [Object -> Nat] /\ held \in [Object -> 0 .. MaxHeld] /\ alive \subseteq Object
      /\ parent \in [Object -> Queue \union {Ctx, None}] /\ waits \in [Event -> SUBSET Event]
      /\ kind \in [Event -> {"none", "user", "command", "marker", "dummy"}]
      /\ deps \in [Event -> SUBSET Queue] /\ kind[n] = "none" /\ grabbed \subseteq Event
  BY DEF ObjInv, TypeOK, IsNew
<1>3. /\ n \notin alive /\ held[n] = 0 /\ Children(n) = {} /\ Waiters(n) = {} /\ n \notin grabbed
      /\ n \notin W /\ q \in alive /\ status[n] = "None" /\ deps[n] = {}
  <2>1. status[n] = "None" /\ (deps[n] # {} => kind[n] = "user")
    BY <1>2 DEF ObjInv, KindInv
  <2>2. q \in alive
    BY <1>1 DEF ObjInv, ReachInv
  <2> QED BY <1>1, <1>2, <2>1, <2>2, NewIsUnknown
<1>4. /\ \A o \in Object :
           /\ refs'[o] = CASE o = n -> 1
                           [] o # n /\ o \in {q} \union W -> refs[o] + 1
                           [] o # n /\ o \notin {q} \union W -> refs[o]
           /\ parent'[o] = IF o = n THEN q ELSE parent[o]
      /\ \A e \in Event : /\ waits'[e] = IF e = n THEN W ELSE waits[e]
                          /\ kind'[e] = IF e = n THEN k ELSE kind[e]
                          /\ deps'[e] = IF e \in W /\ kind[e] = "user" THEN deps[e] \union {q}
                                                                      ELSE deps[e]
      /\ alive' = alive \union {n} /\ UNCHANGED <<held, doomed, status, listed, keepParent, hand, cut>>
  <2>1. refs' = [Reference({q} \union W) EXCEPT ![n] = 1]
    BY DEF Construct
  <2>2. Reference({q} \union W) = [o \in Object |-> refs[o] + (IF o \in {q} \union W THEN 1 ELSE 0)]
    BY DEF Reference
  <2>3. \A o \in Object :
          refs'[o] = CASE o = n -> 1
                       [] o # n /\ o \in {q} \union W -> refs[o] + 1
                       [] o # n /\ o \notin {q} \union W -> refs[o]
    BY <1>2, <2>1, <2>2
  <2>4. \A o \in Object : parent'[o] = IF o = n THEN q ELSE parent[o]
    BY <1>1, <1>2 DEF Construct
  <2>5. \A e \in Event : /\ waits'[e] = IF e = n THEN W ELSE waits[e]
                         /\ kind'[e] = IF e = n THEN k ELSE kind[e]
    BY <1>2 DEF Construct
  <2>6. \A e \in Event : deps'[e] = IF e \in W /\ kind[e] = "user" THEN deps[e] \union {q}
                                                                   ELSE deps[e]
    BY DEF Construct
  <2> QED BY <2>3, <2>4, <2>5, <2>6 DEF Construct, queueVars
<1>5. TypeOK'
  <2>1. refs' \in [Object -> Nat]
    <3>1. Reference({q} \union W) \in [Object -> Nat]
      BY <1>2 DEF Reference
    <3> QED BY <3>1 DEF Construct
  <2>2. parent' \in [Object -> Queue \union {Ctx, None}] /\ waits' \in [Event -> SUBSET Event]
    BY <1>2 DEF Construct
  <2>3. kind' \in [Event -> {"none", "user", "command", "marker", "dummy"}]
    BY <1>2 DEF Construct
  <2>4. deps' \in [Event -> SUBSET Queue]
    BY <1>2 DEF Construct
  <2>5. alive' \subseteq Object /\ cur' \in Event \union {None} /\ target' \in Queue \union {None}
    BY <1>1, <1>2, <1>4 DEF Construct
  <2>6. pc' \in {"made", "marked"} /\ UNCHANGED <<held, doomed, queueVars, grabbed, hand, exited, cut>>
    BY DEF Construct
  <2>7. TypeOK
    BY DEF ObjInv
  <2> QED BY <2>1, <2>2, <2>3, <2>4, <2>5, <2>6, <2>7 DEF TypeOK, queueVars
<1>6. \A o \in Object :
        /\ Children(o)' = IF o = q THEN Children(q) \union {n} ELSE Children(o)
        /\ Waiters(o)' = IF o \in W THEN Waiters(o) \union {n} ELSE Waiters(o)
        /\ Grabs(o)' = Grabs(o)
        /\ o # n => Unreleased(o)' = Unreleased(o)
  <2> SUFFICES ASSUME NEW o \in Object
               PROVE  /\ Children(o)' = IF o = q THEN Children(q) \union {n} ELSE Children(o)
                      /\ Waiters(o)' = IF o \in W THEN Waiters(o) \union {n} ELSE Waiters(o)
                      /\ Grabs(o)' = Grabs(o)
                      /\ o # n => Unreleased(o)' = Unreleased(o)
    OBVIOUS
  <2>1. \A c \in alive : c # n /\ parent'[c] = parent[c]
    BY <1>2, <1>3, <1>4
  <2>2. \A e \in alive \intersect Event : e # n /\ waits'[e] = waits[e]
    BY <1>3, <1>4
  <2>3. parent'[n] = q /\ waits'[n] = W
    BY <1>1, <1>4
  <2>4. Children(o)' = IF o = q THEN Children(q) \union {n} ELSE Children(o)
    BY <1>4, <2>1, <2>3 DEF Children
  <2>5. Waiters(o)' = IF o \in W THEN Waiters(o) \union {n} ELSE Waiters(o)
    BY <1>4, <2>2, <2>3 DEF Waiters
  <2>6. Grabs(o)' = Grabs(o) /\ (o # n => Unreleased(o)' = Unreleased(o))
    BY <1>4 DEF Grabs, Unreleased
  <2> QED BY <2>4, <2>5, <2>6
<1>7. Accounting'
  <2> SUFFICES ASSUME NEW o \in alive'
               PROVE  refs'[o] = held'[o] + Cardinality(Children(o)') + Cardinality(Waiters(o)')
                                          + Grabs(o)' + Unreleased(o)'
    BY DEF Accounting
  <2>1. o \in Object /\ q \notin W
    BY <1>1, <1>2, <1>4
  <2>2. CASE o = n
    <3>1. Grabs(n) = 0 /\ Unreleased(n)' = 1
      BY <1>3, <1>4 DEF Grabs, Unreleased
    <3>2. Grabs(n)' = 0 /\ Children(n)' = {} /\ Waiters(n)' = {}
      BY <1>1, <1>2, <1>3, <1>6, <3>1
    <3>3. refs'[n] = 1 /\ held'[n] = 0
      BY <1>1, <1>3, <1>4
    <3>4. Cardinality({}) = 0
      BY FS_EmptySet
    <3> QED BY <2>2, <3>1, <3>2, <3>3, <3>4
  <2>3. CASE o # n
    <3>1. o \in alive
      BY <1>4, <2>3
    <3> DEFINE c == Cardinality(Children(o))
               w == Cardinality(Waiters(o))
    <3>2. /\ c \in Nat /\ w \in Nat /\ held[o] \in Nat /\ refs[o] \in Nat
          /\ Grabs(o) \in {0, 1} /\ Unreleased(o) \in {0, 1}
          /\ refs[o] = held[o] + c + w + Grabs(o) + Unreleased(o)
      BY <3>1, OneCounted DEF ObjInv
    <3>3. /\ Children(o) \in SUBSET Object /\ Waiters(o) \in SUBSET Object
          /\ n \notin Children(o) /\ n \notin Waiters(o)
      <4>1. n \notin Children(o) /\ n \notin Waiters(o)
        BY <1>3 DEF Children, Waiters
      <4> QED BY <1>2, <2>1, <4>1, CountTypes
    <3>4. Cardinality(Children(o)') = IF o = q THEN c + 1 ELSE c
      BY <1>6, <2>1, <3>3, CountAdd
    <3>5. Cardinality(Waiters(o)') = IF o \in W THEN w + 1 ELSE w
      BY <1>6, <2>1, <3>3, CountAdd
    <3>6. /\ refs'[o] = IF o \in {q} \union W THEN refs[o] + 1 ELSE refs[o]
          /\ held'[o] = held[o] /\ Grabs(o)' = Grabs(o) /\ Unreleased(o)' = Unreleased(o)
      BY <1>4, <1>6, <2>1, <2>3
    <3> HIDE DEF c, w
    <3> QED BY <2>1, <3>2, <3>4, <3>5, <3>6
  <2> QED BY <2>2, <2>3
<1>8. Tracked(n)' /\ \A e \in Event \ {n} : Tracked(e)' = Tracked(e)
  BY <1>4 DEF Tracked
<1>9. KindInv'
  <2>1. ASSUME NEW e \in Event
        PROVE  /\ kind'[e] = "none" => e \notin alive' /\ status'[e] = "None"
               /\ deps'[e] # {} => kind'[e] = "user"
               /\ kind'[e] = "user" => status'[e] \notin {"None", "Queued"}
               /\ ~Tracked(e)' => parent'[e] = None /\ waits'[e] = {}
               /\ Tracked(e)' => parent'[e] \in Queue
    <3>1. CASE e = n
      BY <1>1, <1>3, <1>4, <1>8, <3>1
    <3>2. CASE e # n
      BY <1>1, <1>4, <1>8, <3>2 DEF ObjInv, KindInv
    <3> QED BY <3>1, <3>2
  <2>2. parent'[Ctx] = None
    BY <1>1, <1>4 DEF ObjInv, KindInv, Object
  <2>3. \A p \in Queue : parent'[p] \in {None, Ctx} /\ (p \in alive' => parent'[p] = Ctx)
    <3>1. \A p \in Queue : p \in Object /\ p # n /\ parent'[p] = parent[p]
      BY <1>1, <1>4 DEF Object
    <3> QED BY <1>4, <3>1 DEF ObjInv, KindInv
  <2> QED BY <2>1, <2>2, <2>3 DEF KindInv
<1>10. ReachInv'
  <2>1. \A o \in Object : held'[o] > 0 => o \in alive'
    BY <1>4 DEF ObjInv, ReachInv
  <2>2. \A e \in Event : held'[e] > 0 => status'[e] # "None"
    BY <1>4 DEF ObjInv, ReachInv
  <2>3. \A o \in alive' : Owned(o)' \subseteq alive'
    <3>1. Owned(n)' \subseteq W \union {q}
      BY <1>1, <1>4 DEF Owned
    <3>2. \A o \in alive : Owned(o)' = Owned(o) /\ Owned(o) \subseteq alive
      BY <1>2, <1>3, <1>4 DEF Owned, ObjInv, ReachInv
    <3> QED BY <1>3, <1>4, <3>1, <3>2
  <2>4. \A e \in alive' \intersect Event : \A w \in waits'[e] : status'[w] # "None"
    BY <1>3, <1>4 DEF ObjInv, ReachInv
  <2> QED BY <2>1, <2>2, <2>3, <2>4 DEF ReachInv
<1>11. KeptInv'
  <2>1. \A e \in Event : (Kept(e)' = Kept(e)) /\ (Kept(e) => e # n /\ parent'[e] = parent[e])
    BY <1>1, <1>3, <1>4, <1>8 DEF Kept
  <2> QED BY <1>4, <2>1 DEF ObjInv, KeptInv, TypeOK
<1>12. DoomInv'
  BY <1>4 DEF DoomInv
<1>13. HostInv'
  <2>1. cur' = n /\ target' = q /\ parent'[n] = q /\ kind'[n] = k
    BY <1>1, <1>4 DEF Construct
  <2> QED BY <1>3, <1>4, <2>1 DEF HostInv, Tracked
<1>14. DepsInv'
  <2>0. cut' = cut /\ alive' \ doomed' = alive'
    BY <1>4
  <2> SUFFICES ASSUME NEW u \in Event, NEW p \in deps'[u], <<u, p>> \notin cut
               PROVE  \E e \in alive' \intersect Event : parent'[e] = p /\ u \in waits'[e]
    BY <2>0 DEF DepsInv, Demanded
  <2>1. CASE p \in deps[u]
    <3>1. PICK e \in (alive \ doomed) \intersect Event : parent[e] = p /\ u \in waits[e]
      BY <2>1 DEF ObjInv, DepsInv, Demanded
    <3> QED BY <1>1, <1>3, <1>4, <3>1
  <2>2. CASE p = q /\ u \in W
    <3>1. n \in alive' \intersect Event /\ parent'[n] = p /\ waits'[n] = W
      BY <1>1, <1>4, <2>2
    <3> QED BY <2>2, <3>1
  <2>3. deps'[u] = IF u \in W /\ kind[u] = "user" THEN deps[u] \union {q} ELSE deps[u]
    BY <1>4
  <2>4. p \in deps[u] \/ (p = q /\ u \in W)
    BY <2>3
  <2> QED BY <2>1, <2>2, <2>4
<1> QED BY <1>5, <1>7, <1>9, <1>10, <1>11, <1>12, <1>13, <1>14 DEF ObjInv

\* The enqueue of a command or of a dummy event.
LEMMA EnqueueKeeps ==
  ASSUME ObjInv, NEW n \in Event, NEW k \in {"command", "dummy"}, NEW q \in Queue,
         NEW W \in SUBSET Event, Enqueue(n, k, q, W)
  PROVE  ObjInv'
<1>1. pc = "idle" /\ grabbed = {} /\ doomed = {}
  BY DEF Enqueue, Idle, Running, ObjInv, HostInv
<1>2. \A x \in W : x \in alive /\ status[x] # "None"
  BY DEF Enqueue, ObjInv, ReachInv, Object
<1> QED BY <1>1, <1>2, ConstructKeeps DEF Enqueue

\* A marker waits for the events that events() returned.
LEMMA MakeMarkerKeeps ==
  ASSUME ObjInv, NEW n \in Event, MakeMarker(n)
  PROVE  ObjInv'
<1>1. PICK q \in Queue, W \in SUBSET Event : q = target /\ W = grabbed
  BY DEF MakeMarker, ObjInv, TypeOK, HostInv
<1>2. held[q] > 0 /\ doomed = {}
  BY <1>1 DEF MakeMarker, Running, ObjInv, HostInv
<1>3. \A x \in W : x \in alive /\ status[x] # "None"
  BY <1>1 DEF ObjInv, KeptInv, Kept
<1>4. IsNew(n) /\ Construct(n, "marker", q, W) /\ pc' = "marked" /\ grabbed' = grabbed
  BY <1>1 DEF MakeMarker
<1> QED BY <1>2, <1>3, <1>4, ConstructKeeps

\* A destructor gives up what the object owned.
LEMMA DestroyKeeps ==
  ASSUME ObjInv, NEW o \in Object, Destroy(o)
  PROVE  ObjInv'
<1>1. /\ refs \in [Object -> Nat] /\ held \in [Object -> 0 .. MaxHeld] /\ alive \subseteq Object
      /\ parent \in [Object -> Queue \union {Ctx, None}] /\ waits \in [Event -> SUBSET Event]
      /\ None \notin Object /\ \A x \in Event : x \in Object
      /\ Event \intersect (Queue \union {Ctx, None}) = {}
  BY ObjectsOK DEF ObjInv, TypeOK, Object
<1>2. /\ o \in doomed /\ o \in alive /\ held[o] = 0 /\ Children(o) = {} /\ Waiters(o) = {}
      /\ (o \in Event => ~Kept(o)) /\ pc = "idle" /\ grabbed = {} /\ o \notin Owned(o)
  <2>1. o \in doomed /\ o \in alive /\ held[o] = 0 /\ Children(o) = {} /\ Waiters(o) = {}
        /\ (o \in Event => ~Kept(o)) /\ pc = "idle" /\ grabbed = {}
    BY DEF Destroy, ObjInv, DoomInv, HostInv
  <2>2. parent[o] # o
    BY <2>1 DEF Children
  <2>3. o \in Event => o \notin waits[o]
    BY <2>1 DEF Waiters
  <2> QED BY <2>1, <2>2, <2>3 DEF Owned
<1>3. Owned(o) \subseteq alive
  BY <1>2 DEF ObjInv, ReachInv
<1>4. /\ alive' = alive \ {o}
      /\ UNCHANGED <<held, kind, parent, waits, deps, status, listed, keepParent, pc, cur, target,
                     grabbed, hand, exited, cut>>
      /\ doomed' \subseteq (doomed \ {o}) \union {p \in Owned(o) : refs[p] = 1}
  BY DEF Destroy, eventVars, queueVars, hostVars
<1>5. \A p \in Object : refs'[p] = IF p \in Owned(o) THEN refs[p] - 1 ELSE refs[p]
  BY <1>1 DEF Destroy, Dereference
<1>6. \A p \in Object :
        /\ p = parent[o] => o \in Children(p)
        /\ o \in Event /\ p \in waits[o] => o \in Waiters(p)
        /\ Children(p)' = Children(p) \ {o} /\ Waiters(p)' = Waiters(p) \ {o}
        /\ Grabs(p)' = Grabs(p) /\ Unreleased(p)' = Unreleased(p)
  BY <1>2, <1>4 DEF Children, Waiters, Grabs, Unreleased
<1>7. \A p \in Owned(o) : refs[p] # 0
  <2> SUFFICES ASSUME NEW p \in Owned(o), refs[p] = 0
               PROVE  FALSE
    OBVIOUS
  <2>1. p \in alive /\ p \in Object
    BY <1>1, <1>3
  <2>2. Children(p) = {} /\ Waiters(p) = {}
    BY <2>1, Counted DEF ObjInv
  <2> QED BY <1>6, <2>1, <2>2 DEF Owned
<1>8. TypeOK'
  <2>1. \A p \in Object : refs'[p] \in Nat
    BY <1>1, <1>5, <1>7
  <2>2. refs' \in [Object -> Nat]
    BY <2>1 DEF Destroy, Dereference
  <2>3. alive' \subseteq Object /\ doomed' \subseteq Object
    BY <1>1, <1>3, <1>4 DEF ObjInv, TypeOK
  <2> QED BY <1>4, <2>2, <2>3 DEF ObjInv, TypeOK
<1>9. Accounting'
  <2> SUFFICES ASSUME NEW p \in alive'
               PROVE  refs'[p] = held'[p] + Cardinality(Children(p)') + Cardinality(Waiters(p)')
                                          + Grabs(p)' + Unreleased(p)'
    BY DEF Accounting
  <2>1. p \in alive /\ p \in Object /\ p # o
    BY <1>1, <1>4
  <2> DEFINE c == Cardinality(Children(p))
             w == Cardinality(Waiters(p))
  <2>2. /\ c \in Nat /\ w \in Nat /\ held[p] \in Nat /\ refs[p] \in Nat
        /\ Grabs(p) \in {0, 1} /\ Unreleased(p) \in {0, 1}
        /\ refs[p] = held[p] + c + w + Grabs(p) + Unreleased(p)
    BY <2>1, OneCounted DEF ObjInv
  <2>3. Children(p) \in SUBSET Object /\ Waiters(p) \in SUBSET Object
    BY <1>1, <2>1, CountTypes
  <2>4. Cardinality(Children(p)') = IF o \in Children(p) THEN c - 1 ELSE c
    <3>1. CASE o \in Children(p)
      BY <1>6, <2>1, <2>3, <3>1, CountRemove
    <3>2. CASE o \notin Children(p)
      <4>1. Children(p) \ {o} = Children(p)
        BY <3>2
      <4> QED BY <1>6, <2>1, <3>2, <4>1
    <3> QED BY <3>1, <3>2
  <2>5. Cardinality(Waiters(p)') = IF o \in Waiters(p) THEN w - 1 ELSE w
    <3>1. CASE o \in Waiters(p)
      BY <1>6, <2>1, <2>3, <3>1, CountRemove
    <3>2. CASE o \notin Waiters(p)
      <4>1. Waiters(p) \ {o} = Waiters(p)
        BY <3>2
      <4> QED BY <1>6, <2>1, <3>2, <4>1
    <3> QED BY <3>1, <3>2
  <2>6. /\ (p \in Owned(o)) = (o \in Children(p) \/ o \in Waiters(p))
        /\ ~(o \in Children(p) /\ o \in Waiters(p))
    <3>1. (o \in Children(p)) = (parent[o] = p)
      BY <1>2 DEF Children
    <3>2. (o \in Waiters(p)) = (o \in Event /\ p \in waits[o])
      BY <1>2 DEF Waiters
    <3>3. p # None
      BY <1>1, <2>1
    <3>4. (p \in Owned(o)) = (parent[o] = p \/ (o \in Event /\ p \in waits[o]))
      BY <3>3 DEF Owned
    <3>5. ~(parent[o] = p /\ o \in Event /\ p \in waits[o])
      BY <1>1
    <3> QED BY <3>1, <3>2, <3>4, <3>5
  <2>7. refs'[p] = IF p \in Owned(o) THEN refs[p] - 1 ELSE refs[p]
    BY <1>5, <2>1
  <2>8. held'[p] = held[p] /\ Grabs(p)' = Grabs(p) /\ Unreleased(p)' = Unreleased(p)
    BY <1>4, <1>6, <2>1
  <2> HIDE DEF c, w
  <2> QED BY <2>2, <2>4, <2>5, <2>6, <2>7, <2>8
<1>10. KindInv'
  BY <1>4 DEF ObjInv, KindInv, Tracked
<1>11. ReachInv'
  <2>1. \A p \in alive : (Owned(p)' = Owned(p)) /\ o \notin Owned(p)
    <3>1. \A p \in alive : parent[p] # o /\ (p \in Event => o \notin waits[p])
      BY <1>2 DEF Children, Waiters
    <3> QED BY <1>4, <3>1 DEF Owned
  <2>2. \A p \in Object : held[p] > 0 => p # o
    BY <1>2
  <2> QED BY <1>4, <2>1, <2>2 DEF ObjInv, ReachInv
<1>12. KeptInv'
  <2>1. \A e \in Event : (Kept(e)' = Kept(e)) /\ (Kept(e) => e # o)
    BY <1>2, <1>4 DEF Kept, Tracked
  <2> QED BY <1>4, <2>1 DEF ObjInv, KeptInv, TypeOK
<1>13. ASSUME NEW d \in doomed'
       PROVE  /\ d \in alive' /\ held'[d] = 0 /\ Children(d)' = {} /\ Waiters(d)' = {}
              /\ d \in Event => ~Kept(d)'
  <2>1. CASE d \in doomed \ {o}
    <3>1. /\ d \in alive /\ d \in Object /\ held[d] = 0 /\ Children(d) = {} /\ Waiters(d) = {}
          /\ d \in Event => ~Kept(d)
      BY <1>1, <2>1 DEF ObjInv, DoomInv
    <3>2. Children(d)' = {} /\ Waiters(d)' = {}
      BY <1>6, <3>1
    <3>3. d \in Event => ~Kept(d)'
      BY <1>4, <3>1 DEF Kept, Tracked
    <3> QED BY <1>4, <2>1, <3>1, <3>2, <3>3
  <2>2. CASE d \in Owned(o) /\ refs[d] = 1
    <3>1. d \in alive' /\ d \in Object /\ refs'[d] = 0
      BY <1>1, <1>2, <1>3, <1>4, <1>5, <2>2
    <3>2. held'[d] = 0 /\ Children(d)' = {} /\ Waiters(d)' = {} /\ Unreleased(d)' = 0
      BY <1>8, <1>9, <3>1, CountedNext
    <3>3. d \in Event => ~Kept(d)'
      BY <3>2 DEF Unreleased, Kept, Tracked
    <3> QED BY <3>1, <3>2, <3>3
  <2> QED BY <1>4, <2>1, <2>2
<1>14. DoomInv'
  BY <1>13 DEF DoomInv
<1>15. HostInv'
  BY <1>2, <1>4 DEF ObjInv, HostInv
<1>16. DepsInv'
  <2>1. deps' = deps /\ cut' = cut /\ parent' = parent /\ waits' = waits
    BY <1>4
  <2> SUFFICES ASSUME NEW u \in Event, NEW q \in deps[u], <<u, q>> \notin cut
               PROVE  \E e \in (alive' \ doomed') \intersect Event : parent[e] = q /\ u \in waits[e]
    BY <2>1 DEF DepsInv, Demanded
  <2>2. PICK e \in (alive \ doomed) \intersect Event : parent[e] = q /\ u \in waits[e]
    BY DEF ObjInv, DepsInv, Demanded
  <2>3. ASSUME e \in doomed'
        PROVE  FALSE
    <3>1. e \in Owned(o)
      BY <1>4, <2>2, <2>3
    <3>2. e \in waits[o] /\ o \in Event
      BY <1>1, <2>2, <3>1 DEF Owned
    <3>3. status[e] # "None"
      BY <1>2, <3>2 DEF ObjInv, ReachInv
    <3>4. Tracked(e)
      BY <1>1, <2>2 DEF ObjInv, KindInv, TypeOK
    <3>5. ~Kept(e)'
      BY <1>13, <2>2, <2>3
    <3> QED BY <1>4, <3>3, <3>4, <3>5 DEF Kept, Tracked
  <2> QED BY <1>2, <1>4, <2>2, <2>3
<1> QED BY <1>8, <1>9, <1>10, <1>11, <1>12, <1>14, <1>15, <1>16 DEF ObjInv

\* The process ends.
LEMMA CrashKeeps ==
  ASSUME ObjInv, MarkFailure \/ \E q \in Queue, W \in SUBSET Event : EnqueueAfterFailure(q, W)
  PROVE  ObjInv'
<1>1. UNCHANGED <<countVars, eventVars, queueVars, hostVars, hand, cut>> /\ exited' = TRUE
  BY DEF MarkFailure, EnqueueAfterFailure
<1>2. TypeOK'
  BY <1>1 DEF ObjInv, TypeOK, countVars, eventVars, queueVars, hostVars
<1>3. Accounting' /\ KindInv' /\ ReachInv' /\ KeptInv' /\ DoomInv' /\ HostInv' /\ DepsInv'
  BY <1>1 DEF ObjInv, countVars, eventVars, queueVars, hostVars, Accounting, KindInv, ReachInv,
     KeptInv, DoomInv, HostInv, DepsInv, Demanded, Children, Waiters, Grabs, Unreleased, Owned, Tracked, Kept
<1> QED BY <1>2, <1>3 DEF ObjInv

LEMMA StutterKeeps ==
  ASSUME ObjInv, UNCHANGED vars
  PROVE  ObjInv'
<1>1. UNCHANGED <<countVars, eventVars, queueVars, hostVars, hand, exited, cut>>
  BY DEF vars
<1>2. TypeOK'
  BY <1>1 DEF ObjInv, TypeOK, countVars, eventVars, queueVars, hostVars
<1>3. Accounting' /\ KindInv' /\ ReachInv' /\ KeptInv' /\ DoomInv' /\ HostInv' /\ DepsInv'
  BY <1>1 DEF ObjInv, countVars, eventVars, queueVars, hostVars, Accounting, KindInv, ReachInv,
     KeptInv, DoomInv, HostInv, DepsInv, Demanded, Children, Waiters, Grabs, Unreleased, Owned, Tracked, Kept
<1> QED BY <1>2, <1>3 DEF ObjInv

\* Every step of the host and of the worker keeps the invariant.
LEMMA ObjNext == ObjInv /\ [Next]_vars => ObjInv'
<1> SUFFICES ASSUME ObjInv, [Next]_vars
             PROVE  ObjInv'
  OBVIOUS
<1>1. CASE \E q \in Queue : CreateQueue(q) \/ GrabEvents(q) \/ HostCleans(q)
  BY <1>1, CreateQueueKeeps, GrabEventsKeeps, CleansKeep
<1>2. CASE \E e \in Event : CreateUser(e) \/ SetUser(e) \/ MakeMarker(e) \/ Push(e)
  BY <1>2, CreateUserKeeps, SetUserKeeps, MakeMarkerKeeps, PushKeeps
<1>3. CASE \E o \in Object : Retain(o) \/ Release(o) \/ Destroy(o)
  BY <1>3, RetainKeeps, ReleaseKeeps, DestroyKeeps
<1>4. CASE \E q \in Queue, e \in Event, W \in SUBSET Event :
             Enqueue(e, "command", q, W) \/ (W # {} /\ Enqueue(e, "dummy", q, W))
  BY <1>4, EnqueueKeeps
<1>5. CASE \E q \in Queue, e \in Event : Enqueue(e, "dummy", q, {})
  <2>1. PICK q \in Queue, e \in Event : Enqueue(e, "dummy", q, {})
    BY <1>5
  <2>2. {} \in SUBSET Event
    OBVIOUS
  <2> QED BY <2>1, <2>2, EnqueueKeeps
<1>6. CASE MarkFailure \/ \E q \in Queue, W \in SUBSET Event : EnqueueAfterFailure(q, W)
  BY <1>6, CrashKeeps
<1>7. CASE \E wanted \in BOOLEAN : GiveHandle(wanted)
  BY <1>7, GiveHandleKeeps
<1>8. CASE \E e \in Event, outcome \in {"Complete", "Failed"} : Execute(e, outcome)
  BY <1>8, ExecuteKeeps
<1>9. CASE Reject \/ Append \/ DropGrabbed \/ WorkerCleans
  BY <1>9, RejectKeeps, AppendKeeps, DropGrabbedKeeps, CleansKeep
<1>10. CASE UNCHANGED vars
  BY <1>10, StutterKeeps
<1> QED BY <1>1, <1>2, <1>3, <1>4, <1>5, <1>6, <1>7, <1>8, <1>9, <1>10 DEF Next

-----------------------------------------------------------------------------
(* The theorems.                                                           *)

\* The calls of the API, the worker and the destructors keep the invariant.
THEOREM Lifetimes == Spec => []ObjInv
<1>1. Init => ObjInv
  BY ObjInit
<1>2. ObjInv /\ [Next]_vars => ObjInv'
  BY ObjNext
<1> QED BY <1>1, <1>2, PTL DEF Spec

\* No count goes below zero, for any number of objects and references.
THEOREM Types == Spec => []TypeOK
<1>1. ObjInv => TypeOK
  BY DEF ObjInv
<1> QED BY <1>1, Lifetimes, PTL

\* p_references is the number of handles, children, waiting events and grabs,
\* and of the references that cleanEvents does not drop.
THEOREM Counts_Exact == Spec => []Accounting
<1>1. ObjInv => Accounting
  BY DEF ObjInv
<1> QED BY <1>1, Lifetimes, PTL

\* Nothing that the host, the worker, a list or another object still reaches
\* is deleted.
THEOREM Nothing_Dangles == Spec => []NoDangling
<1>1. ObjInv => NoDangling
  <2> SUFFICES ASSUME ObjInv
               PROVE  NoDangling
    OBVIOUS
  <2> DEFINE live == alive \ doomed
  <2>1. \A d \in doomed : /\ d \in alive /\ held[d] = 0 /\ Children(d) = {} /\ Waiters(d) = {}
                          /\ d \in Event => ~Kept(d)
    BY DEF ObjInv, DoomInv
  <2>2. \A o \in Object : held[o] > 0 => o \in live
    BY <2>1 DEF ObjInv, ReachInv
  <2>3. \A o \in alive : Owned(o) \subseteq live
    <3> SUFFICES ASSUME NEW o \in alive, NEW p \in Owned(o), p \in doomed
                 PROVE  FALSE
      BY DEF ObjInv, ReachInv
    <3>1. p = parent[o] => o \in Children(p)
      BY DEF Children
    <3>2. o \in Event /\ p \in waits[o] => o \in Waiters(p)
      BY DEF Waiters
    <3> QED BY <2>1, <3>1, <3>2 DEF Owned
  <2>4. \A e \in Event : Kept(e) => e \in live
    BY <2>1 DEF ObjInv, KeptInv
  <2>5. \A q \in live \intersect Queue : listed[q] \subseteq live
    BY <2>4 DEF ObjInv, KeptInv, TypeOK
  <2>6. grabbed \subseteq live
    BY <2>4 DEF ObjInv, KeptInv, TypeOK
  <2>7. \A o \in {cur, target, hand} : o # None => o \in live
    <3>1. hand # None => hand \in live
      BY <2>4 DEF ObjInv, KeptInv, TypeOK
    <3>2. target # None => target \in live
      <4>1. target # None => target \in Object /\ held[target] > 0
        BY DEF ObjInv, HostInv, Object
      <4> QED BY <2>2, <4>1
    <3>3. cur # None => cur \in live
      BY DEF ObjInv, HostInv, TypeOK
    <3> QED BY <3>1, <3>2, <3>3
  <2> QED BY <2>2, <2>3, <2>5, <2>6, <2>7 DEF NoDangling
<1> QED BY <1>1, Lifetimes, PTL

\* flushQueues finds each queue that a user event knows, unless the command that
\* told it of the queue was refused.
THEOREM Dependents_There == Spec => []DependentsThere
<1>1. ObjInv => DependentsThere
  <2> SUFFICES ASSUME ObjInv, NEW u \in Event, NEW q \in deps[u], <<u, q>> \notin cut
               PROVE  q \in alive \ doomed
    BY DEF DependentsThere
  <2>1. PICK e \in (alive \ doomed) \intersect Event : parent[e] = q /\ u \in waits[e]
    BY DEF ObjInv, DepsInv, Demanded
  <2>2. q \in Queue /\ q # None
    BY ObjectsOK DEF ObjInv, TypeOK
  <2>3. q \in Owned(e)
    BY <2>1, <2>2 DEF Owned
  <2>4. q \in alive
    BY <2>1, <2>3 DEF ObjInv, ReachInv
  <2>5. e \in Children(q)
    BY <2>1 DEF Children
  <2>6. q \notin doomed
    BY <2>5 DEF ObjInv, DoomInv
  <2> QED BY <2>4, <2>6
<1> QED BY <1>1, Lifetimes, PTL
=============================================================================
