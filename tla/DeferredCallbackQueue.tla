------------------------ MODULE DeferredCallbackQueue ------------------------
(***************************************************************************)
(* DeferredCallbackQueue: threads hand functions to the EventLoop's thread *)
(* over a vector and an eventfd.  enqueue pushes under the mutex but       *)
(* writes the eventfd after it released it; on_ready takes the whole       *)
(* vector under the mutex, runs it without, and resets the eventfd under   *)
(* the mutex again if nothing was pushed meanwhile.                        *)
(*                                                                         *)
(* Every enqueue passes a function object of its own: an element of        *)
(* Callback is enqueued once.                                              *)
(***************************************************************************)
EXTENDS Sequences, Functions

CONSTANTS
    Callback,  \* the function objects
    Thread,    \* threads other than the main one, such as gRPC workers
    Main       \* the thread the EventLoop runs on

ASSUME ThreadAssumption == Main \notin Thread

VARIABLES
    queue,       \* DeferredCallbackQueue::queue
    callbacks,   \* on_ready's local vector, less what it already ran
    ready,       \* is the eventfd readable
    signalling,  \* threads in enqueue that pushed and did not write yet
    main,        \* where the main thread is
    executed     \* callbacks that returned, in order

vars == <<queue, callbacks, ready, signalling, main, executed>>

TypeOK ==
    /\ queue \in Seq(Callback)
    /\ callbacks \in Seq(Callback)
    /\ ready \in BOOLEAN
    /\ signalling \subseteq Thread \cup {Main}
    /\ main \in {"select", "onReady", "inCallback"}
    /\ executed \in Seq(Callback)

Init ==
    /\ queue = <<>>
    /\ callbacks = <<>>
    /\ ready = FALSE
    /\ signalling = {}
    /\ main = "select"
    /\ executed = <<>>

-----------------------------------------------------------------------------
(* enqueue, by any thread; by the main one also from within a callback.    *)

Enqueued == Range(queue) \cup Range(callbacks) \cup Range(executed)

MayEnqueue(t) ==
    /\ t \notin signalling
    /\ t = Main => main \in {"select", "inCallback"}

Push(t, c) ==
    /\ MayEnqueue(t)
    /\ c \notin Enqueued
    /\ queue' = Append(queue, c)
    /\ signalling' = signalling \cup {t}
    /\ UNCHANGED <<callbacks, ready, main, executed>>

Signal(t) ==
    /\ t \in signalling
    /\ ready' = TRUE
    /\ signalling' = signalling \ {t}
    /\ UNCHANGED <<queue, callbacks, main, executed>>

-----------------------------------------------------------------------------
(* on_ready, which the EventLoop calls while the eventfd is readable.      *)

MainIsFree == Main \notin signalling

Bug_TakeCopy ==
    /\ main = "select" /\ ready /\ MainIsFree
    /\ callbacks' = queue
    /\ main' = "onReady"
    /\ UNCHANGED <<queue, ready, signalling, executed>>

Take ==
    /\ main = "select" /\ ready /\ MainIsFree
    /\ callbacks' = queue
    /\ queue' = <<>>
    /\ main' = "onReady"
    /\ UNCHANGED <<ready, signalling, executed>>

Call ==
    /\ main = "onReady"
    /\ callbacks # <<>>
    /\ main' = "inCallback"
    /\ UNCHANGED <<queue, callbacks, ready, signalling, executed>>

Return ==
    /\ main = "inCallback" /\ MainIsFree
    /\ executed' = Append(executed, Head(callbacks))
    /\ callbacks' = Tail(callbacks)
    /\ main' = "onReady"
    /\ UNCHANGED <<queue, ready, signalling>>

Bug_ClearAlways ==
    /\ main = "onReady"
    /\ callbacks = <<>>
    /\ ready' = FALSE
    /\ main' = "select"
    /\ UNCHANGED <<queue, callbacks, signalling, executed>>

\* The eventfd is read only if nothing was pushed since Take.
Clear ==
    /\ main = "onReady"
    /\ callbacks = <<>>
    /\ ready' = (ready /\ queue # <<>>)
    /\ main' = "select"
    /\ UNCHANGED <<queue, callbacks, signalling, executed>>

Next ==
    \/ \E t \in Thread \cup {Main}, c \in Callback : Push(t, c)
    \/ \E t \in Thread \cup {Main} : Signal(t)
    \/ Take
    \/ Call
    \/ Return
    \/ Clear

Spec == Init /\ [][Next]_vars

\* The EventLoop keeps selecting, callbacks return, and a thread in enqueue goes on.
FairSpec ==
    /\ Spec
    /\ WF_vars(Take) /\ WF_vars(Call) /\ WF_vars(Return) /\ WF_vars(Clear)
    /\ \A t \in Thread \cup {Main} : WF_vars(Signal(t))

-----------------------------------------------------------------------------
(***************************************************************************)
(* No lost wakeup: whenever a callback is queued, the EventLoop is going   *)
(* to look at the queue: the eventfd is readable, or the thread that will  *)
(* make it so is still in enqueue.  Pushing and signalling are two steps,  *)
(* and so are taking the callbacks and resetting the eventfd.              *)
(***************************************************************************)
NoLostWakeup == queue # <<>> => ready \/ signalling # {}

(***************************************************************************)
(* The notes in DeferredCallbackQueue.h: callbacks are executed in strict  *)
(* FIFO order, and each exactly once, also those that on_ready has taken   *)
(* while others are being pushed.                                          *)
(***************************************************************************)
Fifo == INSTANCE CallbackFifo WITH waiting <- callbacks \o queue, done <- executed

RunsInOrder == Fifo!Spec

(***************************************************************************)
(* Every enqueued callback is run, so that a get() on its future returns.  *)
(***************************************************************************)
EveryCallbackRuns ==
    \A c \in Callback : c \in Range(queue) ~> c \in Range(executed)
=============================================================================
