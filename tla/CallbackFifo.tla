----------------------------- MODULE CallbackFifo -----------------------------
(***************************************************************************)
(* What DeferredCallbackQueue promises its users: callbacks run on the     *)
(* main thread "in strict FIFO order", each of them once.                  *)
(***************************************************************************)
EXTENDS Sequences

CONSTANT Callback

VARIABLES
    waiting,  \* enqueued and not yet run, the oldest first
    done      \* run, in the order they finished

Init == waiting = <<>> /\ done = <<>>

Enqueue(c) == waiting' = Append(waiting, c) /\ UNCHANGED done

Finish ==
    /\ waiting # <<>>
    /\ done' = Append(done, Head(waiting))
    /\ waiting' = Tail(waiting)

Next == Finish \/ \E c \in Callback : Enqueue(c)

Spec == Init /\ [][Next]_<<waiting, done>>
=============================================================================
