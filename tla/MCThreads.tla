------------------------------ MODULE MCThreads ------------------------------
(***************************************************************************)
(* What threads and processes share: the deferred callbacks, the command   *)
(* link and the lock of the ground programs.  They do not share state with *)
(* each other, so that a behavior runs one of them and leaves the others   *)
(* as they begin.                                                          *)
(***************************************************************************)
EXTENDS DeferredCallbackQueue, Integers, FiniteSets

CONSTANTS LastCommand, MaxRestarts,
          LockThread, MaxReaders, Behind, MaxPrio

ASSUME BoundsAssumption ==
    /\ LastCommand \in Nat /\ MaxRestarts \in Nat
    /\ IsFiniteSet(LockThread)
    /\ MaxReaders \in Nat /\ Behind \in Nat /\ MaxPrio \in Nat \ {0}

VARIABLES
    part,
    queued, kind, done, call, enabled, signed, feedback, pumped, number, asked,
    sendFailed, link, accepted, rejected, failed, restarts,
    word, pc, mode, prio, seen

K == INSTANCE CommandLink
L == INSTANCE SpinLock WITH Thread <- LockThread

queueVars == vars
linkVars == <<queued, kind, done, call, enabled, signed, feedback, pumped, number, asked,
              sendFailed, link, accepted, rejected, failed, restarts>>
lockVars == <<word, pc, mode, prio, seen>>

PartsInit ==
    /\ part \in {"queue", "link", "lock"}
    /\ Init /\ K!Init /\ L!Init
    /\ part # "link" => ~signed /\ \A n \in K!Command : kind[n] = "good"

PartsNext ==
    /\ UNCHANGED part
    /\ \/ part = "queue" /\ Next   /\ UNCHANGED <<linkVars, lockVars>>
       \/ part = "link"  /\ K!Next /\ UNCHANGED <<queueVars, lockVars>>
       \/ part = "lock"  /\ L!Next /\ UNCHANGED <<queueVars, linkVars>>

On(p, A) == part = p /\ A

\* The fairness of the part that runs.
PartsSpec ==
    /\ PartsInit /\ [][PartsNext]_<<part, queueVars, linkVars, lockVars>>
    /\ WF_queueVars(On("queue", Take)) /\ WF_queueVars(On("queue", Call))
    /\ WF_queueVars(On("queue", Return)) /\ WF_queueVars(On("queue", Clear))
    /\ \A t \in Thread \cup {Main} : WF_queueVars(On("queue", Signal(t)))
    /\ WF_linkVars(On("link", K!Pump)) /\ WF_linkVars(On("link", K!Poll))
    /\ WF_linkVars(On("link", K!Share))
    /\ SF_linkVars(On("link", K!Serve)) /\ SF_linkVars(On("link", K!OnPumpResponse))
    /\ \A n \in K!Command : SF_linkVars(On("link", K!Settle(n)))
    /\ \A t \in LockThread :
           /\ WF_lockVars(On("lock", L!Load(t))) /\ SF_lockVars(On("lock", L!Take(t)))
           /\ WF_lockVars(On("lock", L!Unlock(t)))
           /\ WF_lockVars(On("lock", \E fails \in BOOLEAN : L!Raise(t, fails)))

-----------------------------------------------------------------------------
\* The variables of the three parts keep their types.
TypesOK == TypeOK /\ K!TypeOK /\ L!TypeOK

\* A writer is in alone.
MutualExclusion == L!MutualExclusion

\* Commands are settled in their order, and what is reported of them is true.
CommandsKeepOrder == K!NonePassedOver /\ K!ReportsAreTrue

\* Every queued command is settled, unless the client refuses it.
QueueIsDrained == K!QueueIsDrained

\* The lock keeps readers out only for a writer that is there, and somebody gets in.
LockIsNotLeft ==
    /\ [](part = "lock" => L!SpinningWriterIsThere)
    /\ L!SomebodyGetsIn
=============================================================================
