------------------------------- MODULE SpinLock -------------------------------
(***************************************************************************)
(* Lock (lock.h of the ground code): a spinlock for many readers or one    *)
(* writer, in one atomic word that also says whether a writer is spinning  *)
(* and how long the one that waits the longest has been.  A thread loads   *)
(* the word and then exchanges it if it is still what was loaded; between  *)
(* the two others do the same.  The order of the plain loads is the        *)
(* relaxed one, which a single word cannot tell from program order.        *)
(***************************************************************************)
EXTENDS Integers, FiniteSets

CONSTANTS
    Thread,
    MaxReaders,   \* kWrite - 1: the readers that the word can count
    Behind,       \* the priorities a word may be behind before it is raised: 16
    MaxPrio       \* bound: a thread's priority grows up to this

VARIABLES
    word,         \* m_x: its readers, writer, spin and prio
    pc,           \* "out", "loading", "taking" or "raising" the word, "in"
    mode,         \* of each thread, "write" or "read"
    prio,         \* of each thread, in units of kPrio
    seen          \* x of each thread: the word it loaded and is about to exchange

vars == <<word, pc, mode, prio, seen>>

Word == [readers : 0..MaxReaders, writer : BOOLEAN, spin : BOOLEAN, prio : 0..MaxPrio]
Free == [readers |-> 0, writer |-> FALSE, spin |-> FALSE, prio |-> 0]

TypeOK ==
    /\ word \in Word
    /\ pc \in [Thread -> {"out", "loading", "taking", "raising", "in"}]
    /\ mode \in [Thread -> {"write", "read"}]
    /\ prio \in [Thread -> 1..MaxPrio]
    /\ seen \in [Thread -> Word]

Init ==
    /\ word = Free
    /\ pc = [t \in Thread |-> "out"]
    /\ mode = [t \in Thread |-> "write"]
    /\ prio = [t \in Thread |-> 1]
    /\ seen = [t \in Thread |-> Free]

-----------------------------------------------------------------------------
\* rw, the part of the word that says who is in, is zero.
Unheld(x) == x.readers = 0 /\ ~x.writer

\* Readers stay out while a writer spins and the lock is held.
writerPrecedence(x) == ~Unheld(x) /\ x.spin

\* Whether the lock may be taken given word x: rw < kWrite - 1 for a reader.
Bug_Takable(m, x) == IF m = "write" THEN ~x.writer ELSE ~x.writer /\ ~writerPrecedence(x)

Takable(m, x) ==
    IF m = "write" THEN Unheld(x)
    ELSE ~x.writer /\ x.readers < MaxReaders /\ ~writerPrecedence(x)

\* The word that a thread of mode m leaves when it takes the lock.
Bug_Taken(m, x) ==
    IF m = "write" THEN [x EXCEPT !.writer = TRUE, !.prio = 0]
    ELSE [x EXCEPT !.readers = @ + 1, !.prio = 0]

Taken(m, x) ==
    IF m = "write" THEN [Free EXCEPT !.writer = TRUE]
    ELSE [x EXCEPT !.readers = @ + 1, !.prio = 0]

\* prio > x and prio > x + 16 * kPrio: whatever else is in the word counts less.
Prevails(t, x) == prio[t] > x.prio
Raises(t, x) == prio[t] > x.prio + Behind /\ (mode[t] = "write" \/ ~writerPrecedence(x))

\* WriteLock, ReadLock
Begin(t, m) ==
    /\ pc[t] = "out"
    /\ pc' = [pc EXCEPT ![t] = "loading"]
    /\ mode' = [mode EXCEPT ![t] = m]
    /\ UNCHANGED <<word, prio, seen>>

\* TryWriteLock and TryReadLock with nobody between their load and their exchange;
\* with somebody they do nothing.
TryLock(t, m) ==
    /\ pc[t] = "out" /\ Takable(m, word)
    /\ word' = Taken(m, word)
    /\ pc' = [pc EXCEPT ![t] = "in"]
    /\ mode' = [mode EXCEPT ![t] = m]
    /\ UNCHANGED <<prio, seen>>

\* Load the word and see what to do; the priority grows while the lock is not taken.
Load(t) ==
    LET take == Takable(mode[t], word) /\ Prevails(t, word)
    IN  /\ pc[t] = "loading"
        /\ seen' = [seen EXCEPT ![t] = IF take \/ Raises(t, word) THEN word ELSE Free]
        /\ pc' = [pc EXCEPT ![t] = IF take THEN "taking"
                                   ELSE IF Raises(t, word) THEN "raising" ELSE "loading"]
        /\ prio' = [prio EXCEPT ![t] = IF take \/ Raises(t, word) \/ @ = MaxPrio THEN @ ELSE @ + 1]
        /\ UNCHANGED <<word, mode>>

Bug_Take(t) ==
    /\ pc[t] = "taking"
    /\ word' = Taken(mode[t], seen[t])
    /\ pc' = [pc EXCEPT ![t] = "in"]
    /\ prio' = [prio EXCEPT ![t] = 1]
    /\ seen' = [seen EXCEPT ![t] = Free]
    /\ UNCHANGED mode

\* The exchange that takes the lock.
Take(t) ==
    /\ pc[t] = "taking"
    /\ IF word = seen[t] THEN /\ word' = Taken(mode[t], word)
                              /\ pc' = [pc EXCEPT ![t] = "in"]
                              /\ prio' = [prio EXCEPT ![t] = 1]
                         ELSE /\ pc' = [pc EXCEPT ![t] = "loading"]
                              /\ UNCHANGED <<word, prio>>
    /\ seen' = [seen EXCEPT ![t] = Free]
    /\ UNCHANGED mode

\* compare_exchange_weak may fail though the word is what was loaded.
FailSpuriously(t) ==
    /\ pc[t] = "taking"
    /\ pc' = [pc EXCEPT ![t] = "loading"]
    /\ seen' = [seen EXCEPT ![t] = Free]
    /\ UNCHANGED <<word, mode, prio>>

\* The exchange that raises the priority in the word, which may fail for no reason too.
Raise(t, fails) ==
    /\ pc[t] = "raising"
    /\ word' = IF word = seen[t] /\ ~fails
               THEN [word EXCEPT !.prio = prio[t] - 1, !.spin = @ \/ mode[t] = "write"]
               ELSE word
    /\ pc' = [pc EXCEPT ![t] = "loading"]
    /\ prio' = [prio EXCEPT ![t] = IF @ = MaxPrio THEN @ ELSE @ + 1]
    /\ seen' = [seen EXCEPT ![t] = Free]
    /\ UNCHANGED mode

\* WriteUnlock, ReadUnlock
Unlock(t) ==
    /\ pc[t] = "in"
    /\ word' = IF mode[t] = "write" THEN [word EXCEPT !.writer = FALSE]
               ELSE [word EXCEPT !.readers = @ - 1]
    /\ pc' = [pc EXCEPT ![t] = "out"]
    /\ mode' = [mode EXCEPT ![t] = "write"]
    /\ UNCHANGED <<prio, seen>>

Next ==
    \E t \in Thread :
        \/ \E m \in {"write", "read"} : Begin(t, m) \/ TryLock(t, m)
        \/ Load(t) \/ Take(t) \/ FailSpuriously(t) \/ Unlock(t)
        \/ \E fails \in BOOLEAN : Raise(t, fails)

Spec == Init /\ [][Next]_vars

(***************************************************************************)
(* Threads run, and leave the lock they are in.  An exchange of a word     *)
(* that is again and again what was loaded does not fail for ever.         *)
(***************************************************************************)
FairSpec ==
    /\ Spec
    /\ \A t \in Thread :
           /\ WF_vars(Load(t)) /\ SF_vars(Take(t)) /\ WF_vars(Unlock(t))
           /\ WF_vars(\E fails \in BOOLEAN : Raise(t, fails))

-----------------------------------------------------------------------------
In(m) == {t \in Thread : pc[t] = "in" /\ mode[t] = m}
Waiting == {t \in Thread : pc[t] \in {"loading", "taking", "raising"}}

(***************************************************************************)
(* "Only one writer (and no readers) may hold the lock at any time": a     *)
(* thread that is in as a writer is in alone, however the loads and the    *)
(* exchanges of all threads interleave.                                    *)
(***************************************************************************)
MutualExclusion ==
    \A t, u \in Thread :
        pc[t] = "in" /\ pc[u] = "in" /\ mode[t] = "write" => t = u

(***************************************************************************)
(* The word does not keep readers out for a writer that is no longer       *)
(* there: whenever it says that a writer spins, one does.                  *)
(***************************************************************************)
SpinningWriterIsThere ==
    word.spin => \E t \in Waiting : mode[t] = "write"

(***************************************************************************)
(* The lock is not left to nobody: while threads wait for it, one is in    *)
(* again and again.  Which one is another matter: priorities are random.   *)
(***************************************************************************)
SomebodyGetsIn == Waiting # {} ~> \E t \in Thread : pc[t] = "in"
=============================================================================
