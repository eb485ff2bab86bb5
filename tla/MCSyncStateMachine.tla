------------------------- MODULE MCSyncStateMachine -------------------------
(* Small configurations: three states, and the time between two commands.  *)
EXTENDS SyncStateMachine, TLC

CONSTANTS go, abort

\* State 0 hands over to state 1 by a timeout; states 1 and 2 lead to each other,
\* to themselves, or ignore or refuse a command.
MCGraphs ==
    {[next |-> (0 :> [c \in Command |-> IF c = Timeout THEN 1 ELSE undefined_state])
               @@ (1 :> ((Timeout :> t1) @@ (go :> 2) @@ (abort :> a1)))
               @@ (2 :> ((Timeout :> t2) @@ (go :> 2) @@ (abort :> a2))),
      seqs |-> seqs,
      duration |-> (0 :> 0) @@ (1 :> d1) @@ (2 :> d2)] :
        t1 \in {2, ignore_state}, t2 \in {1, 2, undefined_state},
        a1 \in {1, 2}, a2 \in {1, ignore_state},
        d1 \in Durations, d2 \in Durations,
        seqs \in {{0, 1}, {0, 1, 2}}}
=============================================================================
