--------------------------- MODULE DeviceService ----------------------------
(***************************************************************************)
(* What the command queues rely on from a device with one worker: every    *)
(* command pushed on it is taken up once, in the order of pushing, and one *)
(* at a time.  CommandQueue keeps this promise with its own picture of the *)
(* device, and LE1Device with mutexes, a condition variable and a worker   *)
(* thread.                                                                 *)
(***************************************************************************)
EXTENDS Sequences

CONSTANTS Event, None

VARIABLES
  pending,  \* commands pushed and not taken up, in order
  active,   \* the command the worker has in hand
  seen      \* commands that were ever pushed

dvars == <<pending, active, seen>>

DInit == pending = <<>> /\ active = None /\ seen = {}

Submit(e) ==
  /\ e \notin seen
  /\ pending' = Append(pending, e)
  /\ seen' = seen \union {e}
  /\ UNCHANGED active

Take ==
  /\ active = None /\ pending # <<>>
  /\ active' = Head(pending)
  /\ pending' = Tail(pending)
  /\ UNCHANGED seen

Finish ==
  /\ active # None /\ active' = None
  /\ UNCHANGED <<pending, seen>>

DNext == Take \/ Finish \/ \E e \in Event : Submit(e)

DSpec == DInit /\ [][DNext]_dvars
=============================================================================
