------------------------------ MODULE SyncProofs ------------------------------
(***************************************************************************)
(* Proofs about the state machines as MCSync runs them.  The machine that  *)
(* is not forced is an instance of the one SyncStateMachineProofs is       *)
(* about: what is proved there holds of it in the behaviors that run it.   *)
(* The search for loops is proved right by induction on the states that it *)
(* has not seen; the asynchronous machine relies on it.                    *)
(***************************************************************************)
EXTENDS MCSync, FiniteSetTheorems, WellFoundedInduction, TLAPS

P == INSTANCE SyncStateMachineProofs WITH Settable <- FALSE, TaskCommand <- {go, abort}

-----------------------------------------------------------------------------
(***************************************************************************)
(* Both instances are of one module, with the same constants.              *)
(***************************************************************************)
LEMMA SameGraph ==
    /\ M!State = P!State
    /\ \A g : /\ M!ParsesStates(g) <=> P!ParsesStates(g)
              /\ M!ValidInitialState(g) <=> P!ValidInitialState(g)
              /\ M!ValidSyncGraph(g) <=> P!ValidSyncGraph(g)
<1> USE DEF M!State, P!State, M!ignore_state, P!ignore_state, M!undefined_state, P!undefined_state,
            M!TimeoutIgnored, P!TimeoutIgnored
<1>1. \A g : M!ParsesStates(g) <=> P!ParsesStates(g)
  BY DEF M!ParsesStates, P!ParsesStates
<1>2. \A g : M!ValidInitialState(g) <=> P!ValidInitialState(g)
  BY DEF M!ValidInitialState, P!ValidInitialState
<1>3. \A g, a : M!ValidateGraph(g, a) <=> P!ValidateGraph(g, a)
  BY DEF M!ValidateGraph, P!ValidateGraph, M!Dangerous, P!Dangerous, M!SearchForCycle,
         P!SearchForCycle
<1>4. \A g : M!ValidSyncGraph(g) <=> P!ValidSyncGraph(g)
  BY <1>3 DEF M!ValidSyncGraph, P!ValidSyncGraph
<1> QED BY <1>1, <1>2, <1>4

LEMMA SameSteps ==
    /\ \A c \in Command : M!Commanded(c) <=> P!Commanded(c)
    /\ \A s \in P!State, at \in Durations : ~M!ForceState(s, at) /\ ~P!ForceState(s, at)
    /\ M!Dispatch <=> P!Dispatch
<1> USE DEF M!Target, P!Target, M!Accepts, P!Accepts, M!ForgetCalls, P!ForgetCalls,
            M!handle_cmd, P!handle_cmd, M!AtMost, P!AtMost, M!CallBound, P!CallBound,
            M!Once, P!Once, M!Configured, P!Configured, M!ClearPending, P!ClearPending,
            M!Partial, P!Partial, M!Ended, P!Ended
<1>1. \A c \in Command : M!Commanded(c) <=> P!Commanded(c)
  BY DEF M!Commanded, P!Commanded, M!machine, P!machine
<1>2. \A s \in P!State, at \in Durations : ~M!ForceState(s, at) /\ ~P!ForceState(s, at)
  BY DEF M!ForceState, P!ForceState
<1>3. ASSUME NEW new, NEW started, NEW at
      PROVE  /\ M!StartSequences(started, {}, at) <=> P!StartSequences(started, {}, at)
             /\ M!SetState(new, started, at) <=> P!SetState(new, started, at)
  BY SameGraph DEF M!SetState, P!SetState, M!StartSequences, P!StartSequences
<1>4. /\ M!BeginCycle <=> P!BeginCycle
      /\ M!NoTransition <=> P!NoTransition
  BY SameGraph DEF M!BeginCycle, P!BeginCycle, M!NoTransition, P!NoTransition,
                   M!machine, P!machine, M!sequences, P!sequences
<1>5. /\ M!WholeTransition <=> P!WholeTransition
      /\ M!CompletePartial <=> P!CompletePartial
  BY <1>3 DEF M!WholeTransition, P!WholeTransition, M!CompletePartial, P!CompletePartial
<1>6. M!RunSequences <=> P!RunSequences
  BY DEF M!RunSequences, P!RunSequences, M!machine, P!machine
<1>7. M!EndCycle <=> P!EndCycle
  BY <1>3 DEF M!EndCycle, P!EndCycle, M!machine, P!machine, M!sequences, P!sequences
<1> QED BY <1>1, <1>2, <1>4, <1>5, <1>6, <1>7 DEF M!Dispatch, P!Dispatch

LEMMA SameMachine ==
    /\ M!Init <=> P!Init
    /\ M!Next <=> P!Next
    /\ syncVars = P!vars
    /\ M!EachPartRunsOnce <=> P!EachPartRunsOnce
    /\ M!OnlyOwnSequencesRun <=> P!OnlyOwnSequencesRun
    /\ M!NoGapNoSquash <=> P!NoGapNoSquash
<1>1. M!Init <=> P!Init
  BY SameGraph DEF M!Init, P!Init, M!Once, P!Once
<1>2. syncVars = P!vars
  BY DEF syncVars, vars, machine, sequences, P!vars, P!machine, P!sequences
<1>3. M!Next <=> P!Next
  BY SameGraph, SameSteps DEF M!Next, P!Next
<1>4. /\ M!EachPartRunsOnce <=> P!EachPartRunsOnce
      /\ M!OnlyOwnSequencesRun <=> P!OnlyOwnSequencesRun
      /\ M!NoGapNoSquash <=> P!NoGapNoSquash
  BY DEF M!EachPartRunsOnce, P!EachPartRunsOnce, M!OnlyOwnSequencesRun, P!OnlyOwnSequencesRun,
         M!NoGapNoSquash, P!NoGapNoSquash, M!Target, P!Target, M!Partial, P!Partial
<1> QED BY <1>1, <1>2, <1>3, <1>4

-----------------------------------------------------------------------------
\* What the module of the proofs assumes holds of the instance.
LEMMA Assumptions == P!GraphAssumption /\ P!SyncAssumption /\ P!WholePeriods
<1>1. P!GraphAssumption
  BY GraphAssumption DEF P!GraphAssumption
<1>2. P!Graph = Graph
  BY DEF P!Graph, Graph, P!State, State, P!ignore_state, ignore_state, P!undefined_state,
         undefined_state, P!Action, Action
<1>3. P!SyncAssumption
  BY <1>2, SyncAssumption, MachineAssumption DEF P!SyncAssumption
<1>4. P!WholePeriods
  BY MachineAssumption DEF P!WholePeriods
<1> QED BY <1>1, <1>3, <1>4

(***************************************************************************)
(* SyncStateMachine as the run has it, with tasks that command it: each    *)
(* part of a transition runs once, in the right cycle, and a series of     *)
(* states that time out has no gaps, for every configuration.              *)
(***************************************************************************)
THEOREM PartsOfTransitionsRunOnce == PartsSpec => UnforcedMachine
<1> DEFINE Runs == part = "machine" => P!UnforcedInv /\ P!InTime
           steps == <<part, timeouts, syncVars, async>>
<1>1. PartsInit => Runs
  <2> SUFFICES ASSUME PartsInit, part = "machine" PROVE P!UnforcedInv /\ P!InTime
    OBVIOUS
  <2>1. P!Init
    BY SameMachine DEF PartsInit
  <2>2. P!UnforcedInv
    BY <2>1, Assumptions, P!UnforcedInit
  <2>3. P!InTime
    BY <2>1, Assumptions, P!InTimeInit
  <2> QED BY <2>2, <2>3
<1>2. Runs /\ [PartsNext]_steps => Runs' /\ (part = "machine" => [M!NoGapNoSquash]_syncVars)
  <2> SUFFICES ASSUME Runs, [PartsNext]_steps
               PROVE  Runs' /\ (part = "machine" => [M!NoGapNoSquash]_syncVars)
    OBVIOUS
  <2>1. part' = part
    BY DEF PartsNext
  <2> SUFFICES ASSUME part = "machine"
               PROVE  P!UnforcedInv' /\ P!InTime' /\ [M!NoGapNoSquash]_syncVars
    BY <2>1
  <2>2. M!Next \/ UNCHANGED syncVars
    BY DEF PartsNext
  <2>3. P!Next \/ UNCHANGED P!vars
    <3>1. UNCHANGED syncVars => UNCHANGED P!vars
      BY DEF syncVars, vars, machine, sequences, P!vars, P!machine, P!sequences
    <3> QED BY <2>2, <3>1, SameMachine
  <2>4. P!UnforcedInv /\ P!InTime
    OBVIOUS
  <2>5. P!UnforcedInv'
    BY <2>3, <2>4, Assumptions, P!UnforcedNext
  <2>6. P!InTime' /\ P!NoGapNoSquash
    BY <2>3, <2>4, Assumptions, P!InTimeNext
  <2>7. M!NoGapNoSquash
    BY <2>6, SameMachine
  <2> QED BY <2>5, <2>6, <2>7
<1>3. Runs => (part = "machine" => M!EachPartRunsOnce /\ M!OnlyOwnSequencesRun)
  BY SameMachine, Assumptions, P!UnforcedShows
<1> QED BY <1>1, <1>2, <1>3, PTL DEF PartsSpec, UnforcedMachine

-----------------------------------------------------------------------------
(* Induction.                                                              *)

LEMMA LessIsWellFounded ==
    \E rel : IsWellFoundedOn(rel, Nat) /\ \A i, j \in Nat : i < j => <<i, j>> \in rel
<1> WITNESS OpToRel(<, Nat)
<1>1. \A i, j \in Nat : i < j => <<i, j>> \in OpToRel(<, Nat)
  BY DEF OpToRel
<1> QED BY <1>1, NatLessThanWellFounded, Zenon

LEMMA HasLeast ==
    ASSUME NEW Type \in SUBSET Nat, Type # {} PROVE \E i \in Type : \A j \in Type : i <= j
<1>1. PICK rel : IsWellFoundedOn(rel, Nat) /\ \A i, j \in Nat : i < j => <<i, j>> \in rel
  BY LessIsWellFounded
<1>2. \E i \in Type : \A j \in Type : ~(<<j, i>> \in rel)
  <2>1. IsWellFoundedOn(rel, Nat) /\ Type \subseteq Nat
    BY <1>1
  <2> QED BY <2>1, WFMin, Zenon
<1>3. PICK i \in Type : \A j \in Type : ~(<<j, i>> \in rel)
  BY <1>2
<1>4. ASSUME NEW j \in Type PROVE i <= j
  <2>1. i \in Nat /\ j \in Nat /\ ~(j < i)
    BY <1>1, <1>3, Zenon
  <2> QED BY <2>1
<1> QED BY <1>4

\* Induction up to n, stated of the set of numbers for which something holds.
LEMMA UpTo ==
    ASSUME NEW n \in Nat, NEW Holds, 0 \in Holds, \A i \in 1..n : i - 1 \in Holds => i \in Holds
    PROVE  0..n \subseteq Holds
<1> DEFINE Type == (0..n) \ Holds
<1> SUFFICES ASSUME Type # {} PROVE FALSE
  OBVIOUS
<1>2. PICK x \in Type : \A y \in Type : x <= y
  <2> HIDE DEF Type
  <2>1. Type \in SUBSET Nat
    BY DEF Type
  <2> QED BY <2>1, HasLeast
<1>3. x \in 1..n
  OBVIOUS
<1>4. x - 1 \in Type
  BY <1>3
<1> QED BY <1>2, <1>3, <1>4

\* What it means that f is defined by recursion up to n.
Follows(f, n, base, step) == f[0] = base /\ \A i \in 1..n : f[i] = step[i][f[i - 1]]

\* Such a function exists.
LEMMA Recursion ==
    ASSUME NEW n \in Nat, NEW Type, NEW base \in Type, NEW step \in [1..n -> [Type -> Type]]
    PROVE  \E f \in [0..n -> Type] : Follows(f, n, base, step)
<1> DEFINE Upto(f, m) == f[0] = base /\ \A i \in 1..m : f[i] = step[i][f[i - 1]]
           Holds == {m \in 0..n : \E f \in [0..n -> Type] : Upto(f, m)}
<1>1. 0 \in Holds
  <2>1. [i \in 0..n |-> base] \in [0..n -> Type] /\ Upto([i \in 0..n |-> base], 0)
    OBVIOUS
  <2>2. \E f \in [0..n -> Type] : Upto(f, 0)
    <3> HIDE DEF Upto
    <3> QED BY <2>1
  <2> QED BY <2>2
<1>2. ASSUME NEW m \in 1..n, m - 1 \in Holds PROVE m \in Holds
  <2>1. PICK f \in [0..n -> Type] : Upto(f, m - 1)
    BY <1>2
  <2> DEFINE g == [f EXCEPT ![m] = step[m][f[m - 1]]]
  <2>2. m - 1 \in 0..n /\ m \in 0..n /\ f[m - 1] \in Type /\ step[m][f[m - 1]] \in Type
    OBVIOUS
  <2>3. g \in [0..n -> Type]
    BY <2>2
  <2>4. g[0] = base
    BY <2>1
  <2>5. ASSUME NEW i \in 1..m PROVE g[i] = step[i][g[i - 1]]
    <3>1. g[i - 1] = f[i - 1]
      BY <2>2
    <3>2. CASE i = m
      BY <3>1, <3>2, <2>2
    <3>3. CASE i # m
      BY <3>1, <3>3, <2>1
    <3> QED BY <3>2, <3>3
  <2>6. Upto(g, m)
    BY <2>4, <2>5
  <2> QED BY <2>2, <2>3, <2>6, Zenon
<1>3. n \in Holds
  <2> HIDE DEF Holds
  <2>1. 0..n \subseteq Holds
    BY <1>1, <1>2, UpTo, Zenon
  <2> QED BY <2>1
<1>4. PICK f \in [0..n -> Type] : Upto(f, n)
  BY <1>3
<1> QED BY <1>4 DEF Follows

-----------------------------------------------------------------------------
(***************************************************************************)
(* The search for loops, in any graph of timeouts: of the states S those   *)
(* in D are dangerous, and t[s][c] is the one a state s times out into.    *)
(***************************************************************************)
TimesOut(S, D, t, c) == IsFiniteSet(S) /\ D \subseteq S /\ \A s \in D : t[s][c] \in S

Answers(S) == [explored : SUBSET S, cycle : BOOLEAN]

\* Where a search stands.
Places(S) == [at : S, path : SUBSET S]

\* What the search does at a place, with f for the rest of it.
WalkStep(f, from, D, t, c, explored) ==
    LET here == from.path \cup {from.at}
        to   == t[from.at][c]
    IN  IF from.at \notin D
          THEN [explored |-> explored \cup here, cycle |-> FALSE]
        ELSE IF to \in here
          THEN [explored |-> explored \cup from.path, cycle |-> TRUE]
        ELSE IF to \in explored
          THEN [explored |-> explored \cup here, cycle |-> FALSE]
        ELSE f[[at |-> to, path |-> here]]

Walk(S, D, t, c, explored) ==
    CHOOSE f : f = [from \in Places(S) |-> WalkStep(f, from, D, t, c, explored)]

\* Dangerous states that time out into each other.
IsLoop(L, D, t, c) == L # {} /\ L \subseteq D /\ \A s \in L : t[s][c] \in L

\* States that need not be searched again: none leads out of them, no loop meets them.
Settled(X, D, t, c) ==
    /\ \A s \in X \cap D : t[s][c] \in X
    /\ \A L : IsLoop(L, D, t, c) => L \cap X = {}

\* An answer that is right and leaves no state of X to be searched.
IsRight(answer, X, S, D, t, c) ==
    /\ answer \in Answers(S)
    /\ answer.cycle => \E L : IsLoop(L, D, t, c)
    /\ ~answer.cycle => X \subseteq answer.explored /\ Settled(answer.explored, D, t, c)

\* A search under way: the states behind it are dangerous and lead to where it stands.
OnItsWay(from, D, t, c) ==
    /\ from.at \notin from.path
    /\ from.path \subseteq D
    /\ \A s \in from.path : t[s][c] \in from.path \cup {from.at}
    /\ \A L : IsLoop(L, D, t, c) /\ L \cap (from.path \cup {from.at}) # {} => from.at \in L

LEMMA OneStateLess ==
    ASSUME NEW S, IsFiniteSet(S), NEW path \in SUBSET S, NEW at \in S, at \notin path
    PROVE  /\ Cardinality(S \ path) \in Nat
           /\ Cardinality(S \ (path \cup {at})) \in Nat
           /\ Cardinality(S \ (path \cup {at})) = Cardinality(S \ path) - 1
           /\ Cardinality(S \ path) # 0
<1>1. IsFiniteSet(S \ path)
  BY FS_Subset
<1>2. S \ (path \cup {at}) = (S \ path) \ {at}
  OBVIOUS
<1>3. /\ IsFiniteSet((S \ path) \ {at})
      /\ Cardinality((S \ path) \ {at}) = Cardinality(S \ path) - 1
  BY <1>1, FS_RemoveElement
<1>4. Cardinality(S \ path) \in Nat /\ Cardinality((S \ path) \ {at}) \in Nat
  BY <1>1, <1>3, FS_CardinalityType
<1> QED BY <1>2, <1>3, <1>4

\* A step of the search uses f at places with more behind them only.
LEMMA StepGoesOn ==
    ASSUME NEW S, NEW D, NEW t, NEW c, TimesOut(S, D, t, c), NEW explored \in SUBSET S,
           NEW from \in Places(S), NEW f, NEW g,
           \A x \in Places(S) :
               x.at \notin x.path /\ x.path = from.path \cup {from.at} => f[x] = g[x]
    PROVE  WalkStep(f, from, D, t, c, explored) = WalkStep(g, from, D, t, c, explored)
<1> DEFINE here == from.path \cup {from.at}
           to == t[from.at][c]
           x == [at |-> to, path |-> here]
<1>1. CASE from.at \in D /\ to \notin here
  <2>1. to \in S
    BY <1>1 DEF TimesOut
  <2>2. x \in Places(S) /\ x.at = to /\ x.path = here
    BY <2>1 DEF Places
  <2>3. f[x] = g[x]
    BY <1>1, <2>2
  <2> QED BY <1>1, <2>3, Zenon DEF WalkStep
<1>2. CASE ~(from.at \in D /\ to \notin here)
  BY <1>2, Zenon DEF WalkStep
<1> QED BY <1>1, <1>2

LEMMA StepAnswers ==
    ASSUME NEW S, NEW D, NEW t, NEW c, TimesOut(S, D, t, c), NEW explored \in SUBSET S,
           NEW from \in Places(S), NEW f \in [Places(S) -> Answers(S)]
    PROVE  WalkStep(f, from, D, t, c, explored) \in Answers(S)
<1> DEFINE here == from.path \cup {from.at}
           to == t[from.at][c]
           x == [at |-> to, path |-> here]
<1>1. from.at \in S /\ from.path \in SUBSET S
  BY DEF Places
<1>2. explored \cup here \in SUBSET S /\ explored \cup from.path \in SUBSET S
  BY <1>1
<1>3. /\ [explored |-> explored \cup here, cycle |-> FALSE] \in Answers(S)
      /\ [explored |-> explored \cup from.path, cycle |-> TRUE] \in Answers(S)
  BY <1>2 DEF Answers
<1>4. ASSUME from.at \in D PROVE f[x] \in Answers(S)
  <2>1. to \in S /\ here \in SUBSET S
    BY <1>1, <1>4 DEF TimesOut
  <2>2. x \in Places(S)
    BY <2>1 DEF Places
  <2> QED BY <2>2
<1> QED BY <1>3, <1>4, Zenon DEF WalkStep

\* A search that the recursive definition describes exists.
LEMMA WalkExists ==
    ASSUME NEW S, NEW D, NEW t, NEW c, TimesOut(S, D, t, c), NEW explored \in SUBSET S
    PROVE  Walk(S, D, t, c, explored)
               = [from \in Places(S) |->
                     WalkStep(Walk(S, D, t, c, explored), from, D, t, c, explored)]
<1> DEFINE n == Cardinality(S)
           Walks == [Places(S) -> Answers(S)]
           Again(f) == [from \in Places(S) |-> WalkStep(f, from, D, t, c, explored)]
           step == [i \in 1..(n + 1) |-> [f \in Walks |-> Again(f)]]
           base == [from \in Places(S) |-> [explored |-> {}, cycle |-> FALSE]]
           Good(x) == x \in Places(S) /\ x.at \notin x.path
           Left(x) == Cardinality(S \ x.path)
<1>1. n \in Nat /\ IsFiniteSet(S)
  BY FS_CardinalityType DEF TimesOut
<1>2. base \in Walks
  BY DEF Answers
<1>3. ASSUME NEW f \in Walks PROVE Again(f) \in Walks
  BY StepAnswers
<1>4. step \in [1..(n + 1) -> [Walks -> Walks]]
  <2> HIDE DEF Again, Walks
  <2> QED BY <1>3
<1>5. PICK w \in [0..(n + 1) -> Walks] : Follows(w, n + 1, base, step)
  <2> HIDE DEF step, base, Walks, n
  <2>1. n + 1 \in Nat
    BY <1>1
  <2> QED BY <1>2, <1>4, <2>1, Recursion
<1>6. ASSUME NEW i \in 1..(n + 1) PROVE w[i - 1] \in Walks /\ w[i] = Again(w[i - 1])
  <2> HIDE DEF Again, Walks, n
  <2>1. i - 1 \in 0..(n + 1)
    BY <1>1
  <2>2. w[i - 1] \in Walks
    BY <2>1
  <2>3. step[i][w[i - 1]] = Again(w[i - 1])
    BY <2>2
  <2> QED BY <1>5, <2>2, <2>3, Zenon DEF Follows
<1>7. ASSUME NEW x, Good(x) PROVE w[n + 1][x] = w[n][x]
  <2> DEFINE Holds == {i \in 0..n : \A y : Good(y) /\ Left(y) <= i => w[i + 1][y] = w[i][y]}
  <2>1. ASSUME NEW y, Good(y)
        PROVE  Left(y) \in Nat /\ Left(y) # 0 /\ Left(y) <= n
    <3>1. y.path \in SUBSET S /\ y.at \in S /\ y.at \notin y.path
      BY <2>1 DEF Places
    <3>2. Left(y) \in Nat /\ Left(y) # 0
      BY <1>1, <3>1, OneStateLess
    <3>3. Left(y) <= n
      BY <1>1, <3>1, FS_Subset
    <3> QED BY <3>2, <3>3
  <2>2. 0 \in Holds
    <3> HIDE DEF Left, Good
    <3>1. 0 \in 0..n
      BY <1>1
    <3>2. ASSUME NEW y, Good(y), Left(y) <= 0 PROVE FALSE
      <4>1. Left(y) \in Nat /\ Left(y) # 0
        BY <2>1, <3>2
      <4> QED BY <3>2, <4>1
    <3> QED BY <3>1, <3>2
  <2>3. ASSUME NEW i \in 1..n, i - 1 \in Holds PROVE i \in Holds
    <3>1. /\ i \in 0..n /\ i \in 1..(n + 1) /\ i + 1 \in 1..(n + 1)
          /\ (i + 1) - 1 = i /\ (i - 1) + 1 = i
      BY <1>1
    <3>2. ASSUME NEW y, Good(y), Left(y) <= i PROVE w[i + 1][y] = w[i][y]
      <4>1. y \in Places(S) /\ y.path \in SUBSET S /\ y.at \in S /\ y.at \notin y.path
        BY <3>2 DEF Places
      <4>2. ASSUME NEW z \in Places(S), z.at \notin z.path, z.path = y.path \cup {y.at}
            PROVE  w[i][z] = w[i - 1][z]
        <5>1. Good(z)
          BY <4>2
        <5>2. Left(z) \in Nat /\ Left(y) \in Nat /\ Left(z) = Left(y) - 1
          BY <1>1, <4>1, <4>2, OneStateLess
        <5>3. Left(z) <= i - 1
          BY <3>2, <5>2
        <5> HIDE DEF Good, Left
        <5>4. w[(i - 1) + 1][z] = w[i - 1][z]
          BY <2>3, <5>1, <5>3
        <5> QED BY <3>1, <5>4
      <4>3. /\ w[i + 1] = Again(w[i])
            /\ w[i] = Again(w[i - 1])
        <5> HIDE DEF Again
        <5>1. w[i] = Again(w[i - 1])
          BY <1>6, <3>1
        <5>2. w[i + 1] = Again(w[(i + 1) - 1])
          BY <1>6, <3>1
        <5> QED BY <3>1, <5>1, <5>2
      <4>4. WalkStep(w[i], y, D, t, c, explored) = WalkStep(w[i - 1], y, D, t, c, explored)
        <5> DEFINE f == w[i]
                   g == w[i - 1]
        <5>1. \A z \in Places(S) : z.at \notin z.path /\ z.path = y.path \cup {y.at} => f[z] = g[z]
          BY <4>2
        <5> HIDE DEF f, g
        <5>2. WalkStep(f, y, D, t, c, explored) = WalkStep(g, y, D, t, c, explored)
          BY <4>1, <5>1, StepGoesOn
        <5> QED BY <5>2 DEF f, g
      <4> QED BY <4>1, <4>3, <4>4
    <3> HIDE DEF Good, Left
    <3> QED BY <3>1, <3>2
  <2>4. n \in Holds
    <3> HIDE DEF Holds
    <3>1. 0..n \subseteq Holds
      BY <1>1, <2>2, <2>3, UpTo
    <3> QED BY <1>1, <3>1
  <2>5. Left(x) <= n
    BY <1>7, <2>1
  <2> HIDE DEF Good, Left
  <2> QED BY <1>7, <2>4, <2>5
<1>8. w[n + 1] = Again(w[n]) /\ w[n] \in Walks
  <2>1. n + 1 \in 1..(n + 1) /\ (n + 1) - 1 = n
    BY <1>1
  <2> HIDE DEF Again, Walks, n
  <2> QED BY <1>6, <2>1
<1>9. w[n + 1] = Again(w[n + 1])
  <2>1. ASSUME NEW from \in Places(S)
        PROVE  WalkStep(w[n], from, D, t, c, explored)
                   = WalkStep(w[n + 1], from, D, t, c, explored)
    <3>1. \A y \in Places(S) :
              y.at \notin y.path /\ y.path = from.path \cup {from.at} => w[n][y] = w[n + 1][y]
      BY <1>7
    <3> HIDE DEF n
    <3> QED BY <3>1, StepGoesOn
  <2> HIDE DEF n
  <2> QED BY <1>8, <2>1
<1>10. \E f : f = Again(f)
  <2> HIDE DEF Again
  <2> QED BY <1>9
<1> QED BY <1>10, Zenon DEF Walk

\* Where the search stops: what it answers there is right.
LEMMA StopsRight ==
    ASSUME NEW S, NEW D, NEW t, NEW c, TimesOut(S, D, t, c),
           NEW explored \in SUBSET S, Settled(explored, D, t, c),
           NEW from \in Places(S), OnItsWay(from, D, t, c),
           NEW f, from.at \notin D \/ t[from.at][c] \in from.path \cup {from.at} \cup explored
    PROVE  IsRight(WalkStep(f, from, D, t, c, explored),
                   explored \cup from.path \cup {from.at}, S, D, t, c)
<1> DEFINE here == from.path \cup {from.at}
           to == t[from.at][c]
           all == explored \cup here
<1>1. /\ from.at \in S /\ from.path \in SUBSET S /\ all \in SUBSET S
      /\ explored \cup from.path \in SUBSET S
  BY DEF Places
<1>2. ASSUME from.at \notin D \/ (to \in explored /\ to \notin here)
      PROVE  IsRight([explored |-> all, cycle |-> FALSE], all, S, D, t, c)
  <2>1. ASSUME NEW s \in all \cap D PROVE t[s][c] \in all
    <3>1. CASE s \in explored
      BY <2>1, <3>1 DEF Settled
    <3>2. CASE s \in from.path
      BY <3>2 DEF OnItsWay
    <3>3. CASE s = from.at
      BY <1>2, <2>1, <3>3
    <3> QED BY <2>1, <3>1, <3>2, <3>3
  <2>2. ASSUME NEW L, IsLoop(L, D, t, c) PROVE L \cap all = {}
    <3>1. L \cap explored = {}
      BY <2>2 DEF Settled
    <3>2. from.at \notin L
      <4>1. CASE from.at \notin D
        BY <2>2, <4>1 DEF IsLoop
      <4>2. CASE to \in explored
        BY <2>2, <3>1, <4>2 DEF IsLoop
      <4> QED BY <1>2, <4>1, <4>2
    <3>3. L \cap here = {}
      BY <2>2, <3>2, Zenon DEF OnItsWay
    <3> QED BY <3>1, <3>3
  <2>3. Settled(all, D, t, c)
    BY <2>1, <2>2 DEF Settled
  <2>4. [explored |-> all, cycle |-> FALSE] \in Answers(S)
    BY <1>1 DEF Answers
  <2> HIDE DEF all
  <2> QED BY <2>3, <2>4 DEF IsRight
<1>3. ASSUME from.at \in D, to \in here
      PROVE  IsRight([explored |-> explored \cup from.path, cycle |-> TRUE], all, S, D, t, c)
  <2>1. IsLoop(here, D, t, c)
    <3>1. here \subseteq D /\ here # {}
      BY <1>3 DEF OnItsWay
    <3>2. \A s \in here : t[s][c] \in here
      BY <1>3 DEF OnItsWay
    <3> HIDE DEF here
    <3> QED BY <3>1, <3>2 DEF IsLoop
  <2>2. [explored |-> explored \cup from.path, cycle |-> TRUE] \in Answers(S)
    BY <1>1 DEF Answers
  <2> HIDE DEF here, all
  <2> QED BY <2>1, <2>2, Zenon DEF IsRight
<1>4. all = explored \cup from.path \cup {from.at}
  OBVIOUS
<1>5. CASE from.at \notin D
  <2>1. WalkStep(f, from, D, t, c, explored) = [explored |-> all, cycle |-> FALSE]
    BY <1>5 DEF WalkStep
  <2> HIDE DEF all
  <2> QED BY <1>2, <1>4, <1>5, <2>1
<1>6. CASE from.at \in D /\ to \in here
  <2>1. WalkStep(f, from, D, t, c, explored)
            = [explored |-> explored \cup from.path, cycle |-> TRUE]
    BY <1>6 DEF WalkStep
  <2> HIDE DEF all, here, to
  <2> QED BY <1>3, <1>4, <1>6, <2>1
<1>7. CASE from.at \in D /\ to \notin here
  <2>1. to \in explored
    BY <1>7
  <2>2. WalkStep(f, from, D, t, c, explored) = [explored |-> all, cycle |-> FALSE]
    BY <1>7, <2>1 DEF WalkStep
  <2> HIDE DEF all, here, to
  <2> QED BY <1>2, <1>4, <1>7, <2>1, <2>2
<1> QED BY <1>5, <1>6, <1>7

\* Where the search goes on, it stays on its way.
LEMMA GoesOn ==
    ASSUME NEW S, NEW D, NEW t, NEW c, TimesOut(S, D, t, c),
           NEW from \in Places(S), OnItsWay(from, D, t, c), from.at \in D,
           t[from.at][c] \notin from.path \cup {from.at}, NEW next,
           next = [at |-> t[from.at][c], path |-> from.path \cup {from.at}]
    PROVE  next \in Places(S) /\ OnItsWay(next, D, t, c)
<1> DEFINE here == from.path \cup {from.at}
           to == t[from.at][c]
<1>1. next.at = to /\ next.path = here /\ to \in S
  BY DEF TimesOut
<1>2. next \in Places(S)
  BY DEF Places, TimesOut
<1>3. next.path \subseteq D /\ next.at \notin next.path
  BY <1>1 DEF OnItsWay
<1>4. ASSUME NEW s \in next.path PROVE t[s][c] \in next.path \cup {next.at}
  BY <1>1, <1>4 DEF OnItsWay
<1>5. ASSUME NEW L, IsLoop(L, D, t, c), L \cap (next.path \cup {next.at}) # {} PROVE next.at \in L
  <2>1. CASE to \in L
    BY <1>1, <2>1
  <2>2. CASE L \cap here # {}
    <3>1. from.at \in L
      BY <1>5, <2>2, Zenon DEF OnItsWay
    <3> QED BY <1>1, <1>5, <3>1 DEF IsLoop
  <2> QED BY <1>1, <1>5, <2>1, <2>2
<1> QED BY <1>2, <1>3, <1>4, <1>5, Zenon DEF OnItsWay

\* From a state that is on its way the search comes to a right answer.
LEMMA WalkIsRight ==
    ASSUME NEW S, NEW D, NEW t, NEW c, TimesOut(S, D, t, c),
           NEW explored \in SUBSET S, Settled(explored, D, t, c), NEW f,
           \A x \in Places(S) : f[x] = WalkStep(f, x, D, t, c, explored),
           NEW from \in Places(S), OnItsWay(from, D, t, c)
    PROVE  IsRight(f[from], explored \cup from.path \cup {from.at}, S, D, t, c)
<1> DEFINE n == Cardinality(S)
           Left(x) == Cardinality(S \ x.path)
           Goal(x) == IsRight(f[x], explored \cup x.path \cup {x.at}, S, D, t, c)
           Good(x) == x \in Places(S) /\ OnItsWay(x, D, t, c)
           Holds == {i \in 0..n : \A x : Good(x) /\ Left(x) <= i => Goal(x)}
<1>1. n \in Nat /\ IsFiniteSet(S)
  BY FS_CardinalityType DEF TimesOut
<1>2. ASSUME NEW x, Good(x) PROVE Left(x) \in Nat /\ Left(x) # 0 /\ Left(x) <= n
  <2>1. x.path \in SUBSET S /\ x.at \in S /\ x.at \notin x.path
    BY <1>2 DEF Places, OnItsWay
  <2>2. Left(x) \in Nat /\ Left(x) # 0
    BY <1>1, <2>1, OneStateLess
  <2>3. Left(x) <= n
    BY <1>1, <2>1, FS_Subset
  <2> QED BY <2>2, <2>3
<1>3. 0 \in Holds
  <2> HIDE DEF Left, Good, Goal
  <2>1. ASSUME NEW x, Good(x), Left(x) <= 0 PROVE FALSE
    <3>1. Left(x) \in Nat /\ Left(x) # 0
      BY <1>2, <2>1
    <3> QED BY <2>1, <3>1
  <2> QED BY <1>1, <2>1
<1>4. ASSUME NEW i \in 1..n, i - 1 \in Holds PROVE i \in Holds
  <2>1. ASSUME NEW x, Good(x), Left(x) <= i PROVE Goal(x)
    <3> DEFINE here == x.path \cup {x.at}
               to == t[x.at][c]
               next == [at |-> to, path |-> here]
    <3>1. CASE x.at \notin D \/ to \in here \cup explored
      <4>1. IsRight(WalkStep(f, x, D, t, c, explored), explored \cup x.path \cup {x.at}, S, D, t, c)
        BY <2>1, <3>1, StopsRight
      <4>2. f[x] = WalkStep(f, x, D, t, c, explored)
        BY <2>1
      <4> QED BY <4>1, <4>2
    <3>2. CASE x.at \in D /\ to \notin here \cup explored
      <4>1. Good(next)
        <5>1. to \notin x.path \cup {x.at}
          BY <3>2
        <5> DEFINE nx == next
        <5>2. nx = [at |-> t[x.at][c], path |-> x.path \cup {x.at}]
          OBVIOUS
        <5> HIDE DEF nx
        <5>3. nx \in Places(S) /\ OnItsWay(nx, D, t, c)
          BY <2>1, <3>2, <5>1, <5>2, GoesOn
        <5> QED BY <5>3 DEF nx
      <4>2. f[x] = f[next]
        <5>1. f[x] = WalkStep(f, x, D, t, c, explored)
          BY <2>1
        <5>2. WalkStep(f, x, D, t, c, explored) = f[next]
          BY <3>2 DEF WalkStep
        <5> QED BY <5>1, <5>2
      <4>3. Left(next) <= i - 1
        <5>1. x.path \in SUBSET S /\ x.at \in S /\ x.at \notin x.path
          BY <2>1 DEF Places, OnItsWay
        <5>2. Left(next) \in Nat /\ Left(x) \in Nat /\ Left(next) = Left(x) - 1
          BY <1>1, <5>1, OneStateLess
        <5> QED BY <2>1, <5>2
      <4>4. Goal(next)
        <5> DEFINE nx == next
        <5>1. Good(nx) /\ Left(nx) <= i - 1
          BY <4>1, <4>3
        <5> HIDE DEF nx, Goal, Good, Left
        <5>2. Goal(nx)
          BY <1>4, <5>1
        <5> QED BY <5>2 DEF nx
      <4>5. IsRight(f[x], explored \cup here \cup {to}, S, D, t, c)
        BY <4>2, <4>4
      <4>6. ASSUME NEW a, IsRight(a, explored \cup here \cup {to}, S, D, t, c)
            PROVE  IsRight(a, explored \cup x.path \cup {x.at}, S, D, t, c)
        BY <4>6, Zenon DEF IsRight
      <4> HIDE DEF here, to
      <4> QED BY <4>5, <4>6
    <3> QED BY <3>1, <3>2
  <2>2. i \in 0..n
    BY <1>1
  <2> HIDE DEF Left, Good, Goal
  <2> QED BY <2>1, <2>2
<1>5. n \in Holds
  <2> HIDE DEF Holds
  <2>1. 0..n \subseteq Holds
    BY <1>1, <1>3, <1>4, UpTo
  <2> QED BY <1>1, <2>1
<1>6. Good(from) /\ Left(from) <= n
  BY <1>2
<1>7. Goal(from)
  <2> HIDE DEF Left, Good, Goal
  <2> QED BY <1>5, <1>6
<1> QED BY <1>7

\* The searches from each of the dangerous states in turn, as validate_graph does them.
AfterStep(f, i, S, D, t, c) ==
    IF i = 0 THEN [explored |-> {}, cycle |-> FALSE]
    ELSE LET before == f[i - 1]
             s      == i - 1
         IN  IF before.cycle \/ s \notin D \ before.explored
               THEN before
               ELSE Walk(S, D, t, c, before.explored)[[at |-> s, path |-> {}]]

After(n, S, D, t, c) == CHOOSE f : f = [i \in 0..n |-> AfterStep(f, i, S, D, t, c)]

\* The answers that are right.
Right(S, D, t, c) ==
    {answer \in Answers(S) :
        /\ answer.cycle => \E L : IsLoop(L, D, t, c)
        /\ ~answer.cycle => Settled(answer.explored, D, t, c)}

LEMMA SearchIsRight ==
    ASSUME NEW S, NEW D, NEW t, NEW c, TimesOut(S, D, t, c), NEW s \in S,
           NEW before \in Right(S, D, t, c), ~before.cycle
    PROVE  IsRight(Walk(S, D, t, c, before.explored)[[at |-> s, path |-> {}]],
                   before.explored \cup {s}, S, D, t, c)
<1> DEFINE explored == before.explored
           f == Walk(S, D, t, c, explored)
           from == [at |-> s, path |-> {}]
<1>1. explored \in SUBSET S /\ Settled(explored, D, t, c)
  BY DEF Right, Answers
<1>2. f = [x \in Places(S) |-> WalkStep(f, x, D, t, c, explored)]
  <2> HIDE DEF explored
  <2> QED BY <1>1, WalkExists
<1>3. from \in Places(S) /\ OnItsWay(from, D, t, c)
  BY DEF Places, OnItsWay
<1>4. IsRight(f[from], explored \cup from.path \cup {from.at}, S, D, t, c)
  <2>1. \A x \in Places(S) : f[x] = WalkStep(f, x, D, t, c, explored)
    <3> HIDE DEF f
    <3> QED BY <1>2
  <2> HIDE DEF f, explored, from
  <2> QED BY <1>1, <1>3, <2>1, WalkIsRight
<1>5. explored \cup from.path \cup {from.at} = explored \cup {s}
  OBVIOUS
<1> QED BY <1>4, <1>5

LEMMA AfterExists ==
    ASSUME NEW n \in Nat, NEW S, S = 0..n - 1, NEW D, NEW t, NEW c, TimesOut(S, D, t, c)
    PROVE  \E f \in [0..n -> Right(S, D, t, c)] :
               /\ \A i \in 0..n : f[i] = AfterStep(f, i, S, D, t, c)
               /\ f = After(n, S, D, t, c)
<1> DEFINE R == Right(S, D, t, c)
           Next1(b, s) == IF b.cycle \/ s \notin D \ b.explored
                            THEN b ELSE Walk(S, D, t, c, b.explored)[[at |-> s, path |-> {}]]
           base == [explored |-> {}, cycle |-> FALSE]
           step == [i \in 1..n |-> [b \in R |-> Next1(b, i - 1)]]
           Body(f, i) == AfterStep(f, i, S, D, t, c)
           after == CHOOSE f : f = [i \in 0..n |-> Body(f, i)]
<1>1. base \in R
  BY DEF Right, Answers, Settled
<1>2. ASSUME NEW i \in 1..n, NEW b \in R PROVE Next1(b, i - 1) \in R
  <2>1. CASE b.cycle \/ i - 1 \notin D \ b.explored
    <3>1. Next1(b, i - 1) = b
      BY <2>1, Zenon
    <3> QED BY <3>1
  <2>2. CASE ~(b.cycle \/ i - 1 \notin D \ b.explored)
    <3> DEFINE s == i - 1
               a == Walk(S, D, t, c, b.explored)[[at |-> s, path |-> {}]]
    <3>1. s \in S
      OBVIOUS
    <3>2. IsRight(a, b.explored \cup {s}, S, D, t, c)
      <4> HIDE DEF s
      <4> QED BY <2>2, <3>1, SearchIsRight
    <3>3. Next1(b, i - 1) = a
      BY <2>2, Zenon
    <3>4. a \in R
      <4> HIDE DEF a
      <4> QED BY <3>2, Zenon DEF IsRight, Right
    <3> QED BY <3>3, <3>4
  <2> QED BY <2>1, <2>2
<1>3. step \in [1..n -> [R -> R]]
  <2> HIDE DEF R, Next1
  <2> QED BY <1>2
<1>4. PICK f \in [0..n -> R] : Follows(f, n, base, step)
  <2> HIDE DEF step, R, base
  <2> QED BY <1>1, <1>3, Recursion
<1>5. ASSUME NEW i \in 0..n PROVE f[i] = Body(f, i)
  <2>1. CASE i = 0
    <3>1. f[0] = base
      BY <1>4 DEF Follows
    <3> QED BY <2>1, <3>1 DEF AfterStep
  <2>2. CASE i \in 1..n
    <3>1. i - 1 \in 0..n /\ i # 0
      BY <2>2
    <3>2. f[i - 1] \in R
      BY <3>1
    <3>3. step[i][f[i - 1]] = Next1(f[i - 1], i - 1)
      <4> HIDE DEF R, Next1
      <4> QED BY <2>2, <3>2
    <3>4. Next1(f[i - 1], i - 1) = Body(f, i)
      BY <3>1, Zenon DEF AfterStep
    <3> HIDE DEF step, Body, Next1
    <3> QED BY <1>4, <2>2, <3>3, <3>4, Zenon DEF Follows
  <2> QED BY <2>1, <2>2
<1>6. f = [i \in 0..n |-> Body(f, i)]
  <2> HIDE DEF Body
  <2> QED BY <1>5
<1>7. after = [i \in 0..n |-> Body(after, i)]
  <2> HIDE DEF Body
  <2>1. \E h : h = [i \in 0..n |-> Body(h, i)]
    BY <1>6, Zenon
  <2> QED BY <2>1, Zenon
<1>8. f = after
  <2> DEFINE Holds == {i \in 0..n : f[i] = after[i]}
  <2>1. \A i \in 0..n : after[i] = Body(after, i)
    <3> HIDE DEF Body, after
    <3> QED BY <1>7
  <2>2. 0 \in Holds
    <3> HIDE DEF after
    <3>1. 0 \in 0..n
      OBVIOUS
    <3>2. Body(f, 0) = base /\ Body(after, 0) = base
      BY DEF AfterStep
    <3> HIDE DEF Body
    <3> QED BY <1>5, <2>1, <3>1, <3>2
  <2>3. ASSUME NEW i \in 1..n, i - 1 \in Holds PROVE i \in Holds
    <3> HIDE DEF after
    <3>1. f[i - 1] = after[i - 1] /\ i # 0 /\ i \in 0..n
      BY <2>3
    <3>2. Body(f, i) = Body(after, i)
      BY <3>1, Zenon DEF AfterStep
    <3> HIDE DEF Body
    <3> QED BY <1>5, <2>1, <3>1, <3>2
  <2>4. 0..n \subseteq Holds
    <3> HIDE DEF Holds
    <3> QED BY <2>2, <2>3, UpTo
  <2> HIDE DEF after, Body
  <2>5. \A i \in 0..n : f[i] = after[i]
    BY <2>4
  <2> QED BY <1>6, <1>7, <2>5
<1>9. after = After(n, S, D, t, c)
  BY DEF After
<1> QED BY <1>4, <1>5, <1>8, <1>9

\* After all the searches: a loop was found exactly if there is one.
LEMMA SearchIsExact ==
    ASSUME NEW n \in Nat, NEW S, S = 0..n - 1, NEW D, NEW t, NEW c, TimesOut(S, D, t, c)
    PROVE  After(n, S, D, t, c)[n].cycle <=> \E L : IsLoop(L, D, t, c)
<1>1. PICK f \in [0..n -> Right(S, D, t, c)] :
          /\ \A i \in 0..n : f[i] = AfterStep(f, i, S, D, t, c)
          /\ f = After(n, S, D, t, c)
  BY AfterExists
<1> DEFINE Done(i) == ~f[i].cycle => \A s \in D : s < i => s \in f[i].explored
           Holds == {i \in 0..n : Done(i)}
<1>2. 0 \in Holds
  BY DEF TimesOut
<1>3. ASSUME NEW i \in 1..n, i - 1 \in Holds PROVE i \in Holds
  <2> DEFINE before == f[i - 1]
             s == i - 1
  <2>1. i \in 0..n /\ s \in 0..n /\ s \in S /\ i # 0
    OBVIOUS
  <2>2. before \in Right(S, D, t, c)
    BY <2>1
  <2>3. f[i] = AfterStep(f, i, S, D, t, c)
    BY <1>1, <2>1
  <2>4. CASE before.cycle
    <3>1. f[i] = before
      BY <2>1, <2>3, <2>4, Zenon DEF AfterStep
    <3> QED BY <2>1, <2>4, <3>1
  <2>5. CASE ~before.cycle /\ s \notin D \ before.explored
    <3>1. f[i] = before
      BY <2>1, <2>3, <2>5, Zenon DEF AfterStep
    <3>2. \A x \in D : x < s => x \in before.explored
      BY <1>3, <2>5
    <3>3. ASSUME NEW x \in D, x < i PROVE x \in before.explored
      <4>1. x \in Nat /\ (x < s \/ x = s)
        BY <3>3 DEF TimesOut
      <4> QED BY <2>5, <3>2, <4>1
    <3> QED BY <2>1, <3>1, <3>3
  <2>6. CASE ~before.cycle /\ s \in D \ before.explored
    <3> DEFINE a == Walk(S, D, t, c, before.explored)[[at |-> s, path |-> {}]]
    <3>1. f[i] = a
      BY <2>1, <2>3, <2>6, Zenon DEF AfterStep
    <3>2. IsRight(a, before.explored \cup {s}, S, D, t, c)
      <4> HIDE DEF before, s
      <4> QED BY <2>1, <2>2, <2>6, SearchIsRight
    <3>3. ~a.cycle => before.explored \cup {s} \subseteq a.explored
      <4> HIDE DEF a
      <4> QED BY <3>2, Zenon DEF IsRight
    <3>4. \A x \in D : x < s => x \in before.explored
      BY <1>3, <2>6
    <3>5. ASSUME NEW x \in D, x < i PROVE x \in before.explored \cup {s}
      <4>1. x \in Nat /\ (x < s \/ x = s)
        BY <3>5 DEF TimesOut
      <4> QED BY <3>4, <4>1
    <3> HIDE DEF a, before, s
    <3> QED BY <2>1, <3>1, <3>3, <3>5
  <2> QED BY <2>4, <2>5, <2>6
<1>4. n \in Holds
  <2> HIDE DEF Holds
  <2>1. 0..n \subseteq Holds
    BY <1>2, <1>3, UpTo
  <2> QED BY <2>1
<1>5. f[n] \in Right(S, D, t, c)
  OBVIOUS
<1>6. ASSUME f[n].cycle PROVE \E L : IsLoop(L, D, t, c)
  BY <1>5, <1>6 DEF Right
<1>7. ASSUME ~f[n].cycle, NEW L, IsLoop(L, D, t, c) PROVE FALSE
  <2>1. Settled(f[n].explored, D, t, c)
    BY <1>5, <1>7 DEF Right
  <2>2. \A s \in D : s < n
    BY DEF TimesOut
  <2>3. D \subseteq f[n].explored
    BY <1>4, <1>7, <2>2
  <2> QED BY <1>7, <2>1, <2>3, Zenon DEF Settled, IsLoop
<1> QED BY <1>1, <1>6, <1>7, Zenon

-----------------------------------------------------------------------------
(***************************************************************************)
(* validate_graph, on a configuration of any size: it is refused exactly   *)
(* if some dangerous states only time out into each other.                 *)
(***************************************************************************)
THEOREM ValidationIsExact ==
    ASSUME NEW g \in Graph, NEW allowSingleCycle \in BOOLEAN
    PROVE  ValidateGraph(g, allowSingleCycle) <=> ~LoopsOnTimeouts(g, allowSingleCycle)
<1> DEFINE D == Dangerous(g, allowSingleCycle)
           t == g.next
<1>1. NumStates \in Nat /\ State = 0..NumStates - 1
  BY GraphAssumption DEF State
<1>2. TimesOut(State, D, t, Timeout)
  <2>1. IsFiniteSet(State)
    BY <1>1, FS_Interval
  <2>2. D \subseteq State
    BY DEF Dangerous, Graph
  <2>3. ASSUME NEW s \in D PROVE t[s][Timeout] \in State
    <3>1. t[s][Timeout] \in Action /\ t[s][Timeout] < NumStates
      BY <2>2, <2>3, GraphAssumption DEF Graph, Dangerous
    <3> QED BY <1>1, <3>1 DEF Action, ignore_state, undefined_state
  <2> QED BY <2>1, <2>2, <2>3 DEF TimesOut
<1>3. ValidateGraph(g, allowSingleCycle)
          <=> ~After(NumStates, State, D, t, Timeout)[NumStates].cycle
  BY DEF ValidateGraph, After, AfterStep, SearchForCycle, Walk, WalkStep, Places
<1>4. LoopsOnTimeouts(g, allowSingleCycle) <=> \E L : IsLoop(L, D, t, Timeout)
  BY DEF LoopsOnTimeouts, IsLoop
<1> HIDE DEF D, t
<1> QED BY <1>1, <1>2, <1>3, <1>4, SearchIsExact

\* The same of the instance the run searches.
LEMMA RunSearchIsExact ==
    ASSUME NEW g \in TimeoutGraphs, NEW allowSingleCycle \in BOOLEAN
    PROVE  G!ValidateGraph(g, allowSingleCycle) <=> ~G!LoopsOnTimeouts(g, allowSingleCycle)
<1> DEFINE S == G!State
           D == G!Dangerous(g, allowSingleCycle)
           t == g.next
<1>1. SearchedStates \in Nat /\ S = 0..SearchedStates - 1
  BY MachineAssumption DEF G!State
<1>2. TimesOut(S, D, t, Timeout)
  <2>1. IsFiniteSet(S)
    BY <1>1, FS_Interval
  <2>2. D \subseteq S
    BY DEF G!Dangerous, TimeoutGraphs
  <2>3. ASSUME NEW s \in D PROVE t[s][Timeout] \in S
    <3>1. t[s][Timeout] \in S \cup {SearchedStates} /\ t[s][Timeout] < SearchedStates
      BY <2>2, <2>3 DEF TimeoutGraphs, G!ignore_state, G!Dangerous
    <3> QED BY <1>1, <3>1
  <2> QED BY <2>1, <2>2, <2>3 DEF TimesOut
<1>3. G!ValidateGraph(g, allowSingleCycle)
          <=> ~After(SearchedStates, S, D, t, Timeout)[SearchedStates].cycle
  BY DEF G!ValidateGraph, After, AfterStep, G!SearchForCycle, Walk, WalkStep, Places
<1>4. G!LoopsOnTimeouts(g, allowSingleCycle) <=> \E L : IsLoop(L, D, t, Timeout)
  BY DEF G!LoopsOnTimeouts, IsLoop
<1> HIDE DEF D, t, S
<1> QED BY <1>1, <1>2, <1>3, <1>4, SearchIsExact

(***************************************************************************)
(* The search of the run, validate_graph's of every graph of timeouts      *)
(* between its states: no loop is missed and none is invented.             *)
(***************************************************************************)
THEOREM CyclesAreFound == PartsSpec => []CycleSearchIsExact
<1> DEFINE Searched == part = "graph" => timeouts \in TimeoutGraphs
           steps == <<part, timeouts, syncVars, async>>
<1>1. PartsInit => Searched
  BY DEF PartsInit
<1>2. Searched /\ [PartsNext]_steps => Searched'
  BY DEF PartsNext
<1>3. Searched => CycleSearchIsExact
  BY RunSearchIsExact DEF CycleSearchIsExact
<1> QED BY <1>1, <1>2, <1>3, PTL DEF PartsSpec

-----------------------------------------------------------------------------
(* The asynchronous machine.                                               *)

LEMMA SameAsyncGraph ==
    /\ A!State = State /\ A!Graph = Graph
    /\ \A g : /\ A!Dangerous(g, TRUE) = Dangerous(g, TRUE)
              /\ A!ValidateGraph(g, TRUE) <=> ValidateGraph(g, TRUE)
<1> USE DEF A!State, State, A!ignore_state, ignore_state, A!undefined_state, undefined_state,
            A!Action, Action
<1>1. A!Graph = Graph
  BY DEF A!Graph, Graph
<1>2. \A g : A!Dangerous(g, TRUE) = Dangerous(g, TRUE)
  BY DEF A!Dangerous, Dangerous
<1>3. \A g : A!ValidateGraph(g, TRUE) <=> ValidateGraph(g, TRUE)
  BY DEF A!ValidateGraph, ValidateGraph, A!Dangerous, Dangerous, A!SearchForCycle, SearchForCycle
<1> QED BY <1>1, <1>2, <1>3

\* The states that time out before a dispatch leaves them idle.
Short == Dangerous(graph, TRUE)

\* A configuration that passed the checks: its short states do not time out into each other.
AsyncGraphInv ==
    /\ graph \in Graph /\ graph \in Graphs
    /\ ~LoopsOnTimeouts(graph, TRUE)

\* A machine in which a command is pending from the time it is due on.
GoodMachine(m) ==
    /\ m \in [cur : State, pending : Command \cup {NoCommand}, nominal : Nat, start : Nat]
    /\ m.start <= now
    /\ \/ m.pending = NoCommand /\ m.nominal = Never
       \/ /\ m.pending # NoCommand /\ m.nominal <= now
          /\ A!AsyncTarget(m, m.pending) \in State

AsyncTypes ==
    /\ now \in 0..MaxTime
    /\ wake \in A!AtOnce..Never
    /\ told \in BOOLEAN
    /\ askedIn \in State
    /\ burst \in 0..(A!MaxBurst + 1)

\* The dispatch that asked for wake left nothing to do before.
WakeInv ==
    told /\ now < wake =>
        /\ sm.pending = NoCommand
        /\ askedIn = sm.cur
        /\ sm.cur \in graph.seqs /\ A!AsyncTarget(sm, Timeout) < NumStates
               => wake <= A!SequenceEnd(sm)

\* The short states a burst came through lead to each other and to where it is.
Behind(V) ==
    /\ V \subseteq Short /\ sm.cur \notin V
    /\ \A s \in V : graph.next[s][Timeout] \in V \cup {sm.cur}
    /\ burst <= Cardinality(V) + 2

\* After the first transition of a burst the next ones are timeouts, and after the
\* second one the states start now, so that only the short ones time out.
BurstInv ==
    /\ burst >= 1 /\ sm.pending # NoCommand => sm.pending = Timeout /\ sm.nominal = A!NominalTime
    /\ burst >= 2 =>
          /\ sm.start = A!NominalTime
          /\ sm.pending # NoCommand => sm.cur \in Short
          /\ \E V \in SUBSET State : Behind(V)

AsyncInv == AsyncGraphInv /\ AsyncTypes /\ GoodMachine(sm) /\ WakeInv /\ BurstInv

LEMMA NominalIsNow ==
    ASSUME AsyncTypes
    PROVE  /\ A!NominalTime \in 0..now /\ now < A!NominalTime + Period
           /\ now \in Nat /\ Never \in Nat /\ now < Never
<1>1. now \in Nat /\ MaxTime \in Nat /\ Period \in Nat /\ Period # 0 /\ now <= MaxTime
  BY MachineAssumption, GraphAssumption DEF AsyncTypes
<1>2. A!NominalTime \in 0..now /\ now < A!NominalTime + Period
  <2>1. ASSUME NEW n \in Nat, NEW p \in Nat, p # 0
        PROVE  (n \div p) * p \in 0..n /\ n < (n \div p) * p + p
    <3> DEFINE q == n \div p
               r == n % p
    <3>1. q \in Nat /\ r \in 0..p - 1 /\ n = p * q + r
      BY <2>1
    <3>2. p * q \in Nat /\ q * p = p * q
      BY <3>1
    <3> HIDE DEF q, r
    <3>3. q * p \in 0..n /\ n < q * p + p
      BY <2>1, <3>1, <3>2
    <3> QED BY <3>3 DEF q
  <2> QED BY <1>1, <2>1 DEF A!NominalTime
<1>3. Never \in Nat /\ MaxTime < Never
  BY MachineAssumption
<1> QED BY <1>1, <1>2, <1>3

\* handle_cmd: nothing happens, or a command that leads to a state is due now.
LEMMA CommandedFacts ==
    ASSUME AsyncGraphInv, NEW m, m.cur \in State, NEW c \in Command \cup {NoCommand}
    PROVE  \/ A!AsyncCommanded(m, c) = m
           \/ /\ m.pending = NoCommand /\ c \in Command /\ A!AsyncTarget(m, c) \in State
              /\ A!AsyncCommanded(m, c) = [m EXCEPT !.pending = c, !.nominal = A!NominalTime]
<1>1. ASSUME c # NoCommand, A!AsyncTarget(m, c) < NumStates PROVE A!AsyncTarget(m, c) \in State
  <2>1. graph.next[m.cur][c] \in Action
    BY <1>1 DEF AsyncGraphInv, Graph
  <2> QED BY <1>1, <2>1, GraphAssumption DEF A!AsyncTarget, Action, State, ignore_state,
             undefined_state
<1> QED BY <1>1, Zenon DEF A!AsyncCommanded

LEMMA CommandedIsGood ==
    ASSUME AsyncGraphInv, AsyncTypes, NEW m, GoodMachine(m), NEW c \in Command \cup {NoCommand}
    PROVE  GoodMachine(A!AsyncCommanded(m, c))
<1> DEFINE d == [m EXCEPT !.pending = c, !.nominal = A!NominalTime]
<1>1. m.cur \in State
  BY DEF GoodMachine
<1>2. CASE m.pending = NoCommand /\ c \in Command /\ A!AsyncTarget(m, c) \in State
  <2>1. A!NominalTime \in Nat /\ A!NominalTime <= now
    BY NominalIsNow
  <2>2. d.pending = c /\ d.nominal = A!NominalTime /\ d.cur = m.cur /\ d.start = m.start
    BY DEF GoodMachine
  <2>3. c # NoCommand
    BY <1>2, SyncAssumption
  <2>4. d \in [cur : State, pending : Command \cup {NoCommand}, nominal : Nat, start : Nat]
    BY <2>1 DEF GoodMachine
  <2>5. A!AsyncTarget(d, c) = A!AsyncTarget(m, c)
    BY <2>2 DEF A!AsyncTarget
  <2> HIDE DEF d
  <2>6. GoodMachine(d)
    BY <1>2, <2>1, <2>2, <2>3, <2>4, <2>5 DEF GoodMachine
  <2>7. A!AsyncCommanded(m, c) = m \/ A!AsyncCommanded(m, c) = d
    BY <1>1, CommandedFacts DEF d
  <2> QED BY <2>6, <2>7
<1>3. CASE A!AsyncCommanded(m, c) = m
  BY <1>3
<1> QED BY <1>1, <1>2, <1>3, CommandedFacts

\* handle_pending_cmd
LEMMA TransitionedFacts ==
    ASSUME AsyncGraphInv, AsyncTypes, NEW m, GoodMachine(m)
    PROVE  /\ GoodMachine(A!AsyncTransitioned(m))
           /\ m.nominal <= now <=> m.pending # NoCommand
           /\ m.pending = NoCommand => A!AsyncTransitioned(m) = m
           /\ m.pending # NoCommand =>
                 A!AsyncTransitioned(m)
                     = [cur |-> A!AsyncTarget(m, m.pending), pending |-> NoCommand,
                        nominal |-> Never, start |-> m.nominal]
<1>1. now \in Nat /\ Never \in Nat /\ now < Never
  BY NominalIsNow
<1>2. m.nominal <= now <=> m.pending # NoCommand
  BY <1>1 DEF GoodMachine
<1>3. CASE m.pending = NoCommand
  BY <1>2, <1>3 DEF A!AsyncTransitioned
<1>4. CASE m.pending # NoCommand
  <2> DEFINE e == [cur |-> A!AsyncTarget(m, m.pending), pending |-> NoCommand,
                   nominal |-> Never, start |-> m.nominal]
  <2>1. A!AsyncTransitioned(m) = e
    BY <1>2, <1>4 DEF A!AsyncTransitioned
  <2>2. A!AsyncTarget(m, m.pending) \in State /\ m.nominal \in Nat
    BY <1>4 DEF GoodMachine
  <2>3. e \in [cur : State, pending : Command \cup {NoCommand}, nominal : Nat, start : Nat]
    BY <1>1, <2>2
  <2>4. e.pending = NoCommand /\ e.nominal = Never /\ e.start = m.nominal
    OBVIOUS
  <2>5. GoodMachine(e)
    <3> HIDE DEF e
    <3> QED BY <1>2, <1>4, <2>3, <2>4 DEF GoodMachine
  <2> QED BY <1>2, <1>4, <2>1, <2>5
<1> QED BY <1>3, <1>4

LEMMA EventFacts ==
    ASSUME AsyncGraphInv, AsyncTypes, NEW m, GoodMachine(m)
    PROVE  /\ A!SequenceEnd(m) \in Nat /\ A!NextEvent(m) \in Nat /\ A!NextEvent(m) <= Never
           /\ A!NextEvent(m) # Never => A!NextEvent(m) = A!SequenceEnd(m)
           /\ m.cur \in graph.seqs /\ A!NextEvent(m) = Never => A!SequenceEnd(m) <= now
<1>1. now \in Nat /\ now <= MaxTime /\ MaxTime \in Nat /\ Never \in Nat
  BY MachineAssumption DEF AsyncTypes
<1>2. m.start \in Nat /\ m.start <= now /\ m.cur \in State
  BY DEF GoodMachine
<1>3. graph.duration[m.cur] \in Durations
  BY <1>2 DEF AsyncGraphInv, Graph
<1>4. graph.duration[m.cur] \in Nat /\ MaxTime + graph.duration[m.cur] < Never
  BY <1>3, GraphAssumption, MachineAssumption
<1>5. A!SequenceEnd(m) \in Nat /\ A!SequenceEnd(m) < Never
  BY <1>1, <1>2, <1>4 DEF A!SequenceEnd
<1> QED BY <1>1, <1>5 DEF A!NextEvent

\* dispatch_seqs: either nothing times out, or a state that leads on does.
LEMMA TimedOutFacts ==
    ASSUME AsyncGraphInv, AsyncTypes, NEW m, GoodMachine(m)
    PROVE  /\ GoodMachine(A!TimedOut(m))
           /\ A!TimedOut(m).cur = m.cur /\ A!TimedOut(m).start = m.start
           /\ A!TimedOut(m) # m =>
                /\ A!TimedOut(m).pending = Timeout /\ A!TimedOut(m).nominal = A!NominalTime
                /\ m.start = A!NominalTime => m.cur \in Short
           /\ m.cur \in graph.seqs /\ m.pending = NoCommand /\ A!NextEvent(m) = Never
              /\ A!AsyncTarget(m, Timeout) < NumStates => A!TimedOut(m) # m
<1> DEFINE d == [m EXCEPT !.pending = Timeout, !.nominal = A!NominalTime]
           over == A!TimedOut(m)
<1>1. m.cur \in State /\ Timeout \in Command /\ Timeout # NoCommand
  BY GraphAssumption, SyncAssumption DEF GoodMachine
<1>2. GoodMachine(over)
  BY <1>1, CommandedIsGood DEF A!TimedOut
<1>3. /\ d.cur = m.cur /\ d.start = m.start /\ d.pending = Timeout /\ d.nominal = A!NominalTime
  BY DEF GoodMachine
<1>4. ASSUME over # m
      PROVE  /\ over = d /\ m.cur \in graph.seqs /\ A!NextEvent(m) = Never
             /\ A!AsyncTarget(m, Timeout) < NumStates
  <2>1. m.cur \in graph.seqs /\ A!NextEvent(m) = Never /\ over = A!AsyncCommanded(m, Timeout)
    BY <1>4, Zenon DEF A!TimedOut
  <2> QED BY <1>4, <2>1, Zenon DEF A!AsyncCommanded
<1>5. ASSUME over # m, m.start = A!NominalTime PROVE m.cur \in Short
  <2>1. A!SequenceEnd(m) <= now
    BY <1>4, <1>5, EventFacts
  <2>2. graph.duration[m.cur] \in Nat
    BY <1>1, GraphAssumption DEF AsyncGraphInv, Graph
  <2>3. now < A!NominalTime + Period /\ now \in Nat /\ A!NominalTime \in Nat /\ Period \in Nat
    BY NominalIsNow, GraphAssumption
  <2>4. graph.duration[m.cur] < Period
    BY <1>5, <2>1, <2>2, <2>3 DEF A!SequenceEnd
  <2> QED BY <1>4, <1>5, <2>4 DEF Short, Dangerous, A!AsyncTarget
<1>6. ASSUME m.cur \in graph.seqs, m.pending = NoCommand, A!NextEvent(m) = Never,
             A!AsyncTarget(m, Timeout) < NumStates
      PROVE  over # m
  <2>1. over = d
    BY <1>1, <1>6, Zenon DEF A!TimedOut, A!AsyncCommanded
  <2> HIDE DEF d, over
  <2> QED BY <1>1, <1>3, <1>6, <2>1
<1> HIDE DEF d
<1> QED BY <1>2, <1>3, <1>4, <1>5, <1>6, Zenon

LEMMA BurstIsShort ==
    AsyncGraphInv /\ AsyncTypes /\ GoodMachine(sm) /\ BurstInv => burst <= A!MaxBurst
<1> SUFFICES ASSUME AsyncGraphInv, AsyncTypes, GoodMachine(sm), BurstInv PROVE burst <= A!MaxBurst
  OBVIOUS
<1>1. NumStates \in Nat /\ 1 <= NumStates /\ A!MaxBurst = NumStates + 1 /\ burst \in Nat
  BY GraphAssumption DEF A!MaxBurst, AsyncTypes
<1>2. CASE burst < 2
  BY <1>1, <1>2
<1>3. CASE burst >= 2
  <2>1. PICK V \in SUBSET State : Behind(V)
    BY <1>3 DEF BurstInv
  <2>2. IsFiniteSet(State) /\ Cardinality(State) = NumStates
    BY <1>1, FS_Interval DEF State
  <2>3. sm.cur \in State /\ sm.cur \notin V
    BY <2>1 DEF GoodMachine, Behind
  <2>4. IsFiniteSet(V) /\ Cardinality(V) \in Nat
    BY <2>2, FS_Subset, FS_CardinalityType
  <2>5. Cardinality(V \cup {sm.cur}) = Cardinality(V) + 1
    BY <2>3, <2>4, FS_AddElement
  <2>6. Cardinality(V \cup {sm.cur}) <= Cardinality(State)
    BY <2>2, <2>3, FS_Subset
  <2> QED BY <1>1, <2>1, <2>2, <2>4, <2>5, <2>6 DEF Behind
<1> QED BY <1>1, <1>2, <1>3

\* A transition out of a short state goes to none the burst came through.
LEMMA BurstGoesOn ==
    ASSUME AsyncGraphInv, AsyncTypes, GoodMachine(sm), NEW V \in SUBSET State, Behind(V),
           sm.cur \in Short, graph' = graph, sm'.cur = graph.next[sm.cur][Timeout],
           burst' = burst + 1
    PROVE  \E W \in SUBSET State : Behind(W)'
<1> PICK W \in SUBSET State : W = V \cup {sm.cur}
  BY DEF GoodMachine
<1>1. Short' = Short
  BY DEF Short, Dangerous
<1>2. sm.cur \in State /\ sm.cur \notin V /\ W \subseteq Short
  BY DEF GoodMachine, Behind
<1>3. \A s \in W : graph.next[s][Timeout] \in W \cup {sm'.cur}
  BY DEF Behind
<1>4. sm'.cur \notin W
  <2> SUFFICES ASSUME sm'.cur \in W PROVE FALSE
    OBVIOUS
  <2>1. W # {} /\ \A s \in W : graph.next[s][Timeout] \in W
    BY <1>3
  <2> QED BY <1>2, <2>1 DEF AsyncGraphInv, LoopsOnTimeouts, Short
<1>5. burst' <= Cardinality(W) + 2
  <2>1. IsFiniteSet(State)
    BY GraphAssumption, FS_Interval DEF State
  <2>2. IsFiniteSet(V) /\ Cardinality(V) \in Nat
    BY <2>1, FS_Subset, FS_CardinalityType
  <2>3. Cardinality(W) = Cardinality(V) + 1
    BY <1>2, <2>2, FS_AddElement
  <2>4. burst \in Nat /\ burst <= Cardinality(V) + 2
    BY DEF AsyncTypes, Behind
  <2> QED BY <2>2, <2>3, <2>4
<1>6. Behind(W)'
  BY <1>1, <1>2, <1>3, <1>4, <1>5 DEF Behind
<1> QED BY <1>6

LEMMA AsyncDispatchInv ==
    ASSUME AsyncInv, NEW pre \in Command \cup {NoCommand}, NEW post \in Command \cup {NoCommand},
           A!AsyncDispatch(pre, post)
    PROVE  AsyncInv'
<1> DEFINE asked == A!AsyncCommanded(sm, pre)
           there == A!AsyncTransitioned(asked)
           over == A!TimedOut(there)
           done == A!AsyncCommanded(over, post)
           moves == asked.nominal <= now
<1>1. AsyncGraphInv /\ AsyncTypes /\ GoodMachine(sm) /\ WakeInv /\ BurstInv
  BY DEF AsyncInv
<1>2. /\ sm' = done /\ wake' = A!WakeAt(moves, over # there, done) /\ told' = TRUE
      /\ askedIn' = sm.cur /\ graph' = graph /\ now' = now
      /\ burst' = IF {pre, post} # {NoCommand} THEN 0
                  ELSE IF moves /\ burst <= A!MaxBurst THEN burst + 1 ELSE burst
  BY DEF A!AsyncDispatch
<1>3. GoodMachine(asked)
  BY <1>1, CommandedIsGood
<1>4. /\ GoodMachine(there)
      /\ moves <=> asked.pending # NoCommand
      /\ asked.pending = NoCommand => there = asked
      /\ asked.pending # NoCommand =>
            there = [cur |-> A!AsyncTarget(asked, asked.pending), pending |-> NoCommand,
                       nominal |-> Never, start |-> asked.nominal]
  <2> HIDE DEF asked
  <2> QED BY <1>1, <1>3, TransitionedFacts
<1> HIDE DEF there, moves
<1>5. /\ GoodMachine(over)
      /\ over.cur = there.cur /\ over.start = there.start
      /\ over # there =>
            /\ over.pending = Timeout /\ over.nominal = A!NominalTime
            /\ there.start = A!NominalTime => there.cur \in Short
      /\ there.cur \in graph.seqs /\ there.pending = NoCommand /\ A!NextEvent(there) = Never
         /\ A!AsyncTarget(there, Timeout) < NumStates => over # there
  BY <1>1, <1>4, TimedOutFacts
<1> HIDE DEF over
<1>6. GoodMachine(done)
  BY <1>1, <1>5, CommandedIsGood
<1>7. \/ done = over
      \/ /\ over.pending = NoCommand /\ post # NoCommand
         /\ done = [over EXCEPT !.pending = post, !.nominal = A!NominalTime]
  <2>1. over.cur \in State
    BY <1>5 DEF GoodMachine
  <2> QED BY <1>1, <2>1, CommandedFacts, SyncAssumption
<1>8. pre = NoCommand => asked = sm
  BY Zenon DEF A!AsyncCommanded
<1>9. asked.pending = NoCommand => asked = sm
  <2>1. sm.cur \in State
    BY <1>1 DEF GoodMachine
  <2>2. \/ asked = sm
        \/ pre \in Command /\ asked = [sm EXCEPT !.pending = pre, !.nominal = A!NominalTime]
    BY <1>1, <2>1, CommandedFacts
  <2>3. CASE pre \in Command /\ asked = [sm EXCEPT !.pending = pre, !.nominal = A!NominalTime]
    <3>1. asked.pending = pre
      BY <1>1, <2>3 DEF GoodMachine
    <3> QED BY <2>3, <3>1, SyncAssumption
  <2> QED BY <2>2, <2>3
<1> HIDE DEF asked, done
<1>10. AsyncGraphInv'
  BY <1>1, <1>2 DEF AsyncGraphInv, LoopsOnTimeouts, Dangerous
<1>11. GoodMachine(sm)'
  BY <1>2, <1>6 DEF GoodMachine, A!AsyncTarget
<1>12. burst <= A!MaxBurst
  BY <1>1, BurstIsShort
<1>13. /\ A!SequenceEnd(done) \in Nat /\ A!NextEvent(done) \in Nat /\ A!NextEvent(done) <= Never
       /\ A!NextEvent(done) # Never => A!NextEvent(done) = A!SequenceEnd(done)
       /\ now \in Nat /\ Never \in Nat /\ now < Never /\ done.nominal \in 0..Never
       /\ A!NominalTime \in 0..now
  <2>1. now \in Nat /\ Never \in Nat /\ now < Never /\ A!NominalTime \in 0..now
    BY <1>1, NominalIsNow
  <2>2. done.nominal \in 0..Never
    BY <1>6, <2>1 DEF GoodMachine
  <2> QED BY <1>1, <1>6, <2>1, <2>2, EventFacts
<1>14. AsyncTypes'
  <2>1. wake' \in A!AtOnce..Never
    BY <1>2, <1>13 DEF A!WakeAt, A!AtOnce, A!Earliest
  <2>2. burst' \in 0..(A!MaxBurst + 1)
    BY <1>1, <1>2, <1>12, GraphAssumption DEF AsyncTypes, A!MaxBurst
  <2>3. sm.cur \in State
    BY <1>1 DEF GoodMachine
  <2>4. A!MaxBurst' = A!MaxBurst /\ A!AtOnce' = A!AtOnce
    BY DEF A!MaxBurst, A!AtOnce
  <2> QED BY <1>1, <1>2, <2>1, <2>2, <2>3, <2>4 DEF AsyncTypes
<1>15. WakeInv'
  <2> SUFFICES ASSUME now < wake'
               PROVE  /\ done.pending = NoCommand /\ sm.cur = done.cur
                      /\ done.cur \in graph.seqs /\ A!AsyncTarget(done, Timeout) < NumStates
                             => wake' <= A!SequenceEnd(done)
    BY <1>2 DEF WakeInv, A!AsyncTarget, A!SequenceEnd
  <2>1. ~moves /\ over = there /\ wake' = A!Earliest(A!NextEvent(done), done.nominal)
    BY <1>2, <1>13 DEF A!WakeAt, A!AtOnce
  <2>2. asked = sm /\ there = sm /\ over = sm /\ sm.pending = NoCommand
    BY <1>4, <1>9, <2>1
  <2>3. wake' <= done.nominal /\ wake' <= A!NextEvent(done) /\ wake' \in Nat
    BY <1>13, <2>1 DEF A!Earliest
  <2>4. done = sm
    <3> SUFFICES ASSUME done # over PROVE FALSE
      BY <2>2
    <3>1. done.nominal = A!NominalTime
      BY <1>5, <1>7 DEF GoodMachine
    <3> QED BY <1>13, <2>3, <3>1
  <2>5. ASSUME sm.cur \in graph.seqs, A!AsyncTarget(sm, Timeout) < NumStates
        PROVE  wake' <= A!SequenceEnd(done)
    <3>1. A!NextEvent(done) # Never
      BY <1>5, <2>1, <2>2, <2>4, <2>5
    <3> QED BY <1>13, <2>3, <3>1
  <2> QED BY <2>2, <2>4, <2>5
<1>16. BurstInv'
  <2>1. CASE {pre, post} # {NoCommand}
    BY <1>2, <2>1 DEF BurstInv
  <2>2. CASE {pre, post} = {NoCommand}
    <3>1. asked = sm /\ done = over /\ sm' = over
      <4>1. pre = NoCommand /\ post = NoCommand
        BY <2>2
      <4> QED BY <1>2, <1>7, <1>8, <4>1
    <3>2. burst' = IF moves THEN burst + 1 ELSE burst
      BY <1>2, <1>12, <2>2
    <3>3. Short' = Short /\ A!NominalTime' = A!NominalTime
      BY <1>2 DEF Short, Dangerous, A!NominalTime
    <3>4. burst \in Nat
      BY <1>1 DEF AsyncTypes
    <3>5. there.pending = NoCommand
      BY <1>4
    <3>6. over.pending # NoCommand => over # there
      BY <3>5
    <3>7. over.pending # NoCommand => over.pending = Timeout /\ over.nominal = A!NominalTime
      BY <1>5, <3>6
    <3>8. ASSUME burst' >= 2
          PROVE  there.start = A!NominalTime /\ \E V \in SUBSET State : Behind(V)'
      <4>1. CASE ~moves
        <5>1. there = sm /\ burst' = burst
          BY <1>4, <3>1, <3>2, <4>1
        <5>2. sm.start = A!NominalTime
          BY <1>1, <3>8, <5>1 DEF BurstInv
        <5>3. PICK V \in SUBSET State : Behind(V)
          BY <1>1, <3>8, <5>1 DEF BurstInv
        <5>4. sm'.cur = sm.cur
          BY <1>5, <3>1, <5>1
        <5>5. Behind(V)'
          BY <1>2, <3>3, <5>1, <5>3, <5>4 DEF Behind
        <5> QED BY <5>1, <5>2, <5>5
      <4>2. CASE moves
        <5>1. sm.pending # NoCommand /\ burst' = burst + 1 /\ burst >= 1
          BY <1>4, <3>1, <3>2, <3>4, <3>8, <4>2
        <5>2. sm.pending = Timeout /\ sm.nominal = A!NominalTime
          BY <1>1, <5>1 DEF BurstInv
        <5>3. there.start = A!NominalTime /\ there.cur = A!AsyncTarget(sm, Timeout)
          BY <1>4, <3>1, <5>1, <5>2
        <5>4. sm'.cur = graph.next[sm.cur][Timeout]
          BY <1>5, <3>1, <5>3 DEF A!AsyncTarget
        <5>5. CASE burst = 1
          <6>1. burst' <= Cardinality({}) + 2
            BY <5>1, <5>5, FS_EmptySet
          <6>2. Behind({})'
            BY <6>1 DEF Behind
          <6> QED BY <5>3, <6>2
        <5>6. CASE burst >= 2
          <6>1. PICK V \in SUBSET State : Behind(V)
            BY <1>1, <5>6 DEF BurstInv
          <6>2. sm.cur \in Short
            BY <1>1, <5>1, <5>6 DEF BurstInv
          <6>3. \E W \in SUBSET State : Behind(W)'
            BY <1>1, <1>2, <5>1, <5>4, <6>1, <6>2, BurstGoesOn
          <6> QED BY <5>3, <6>3
        <5> QED BY <3>4, <5>1, <5>5, <5>6
      <4> QED BY <4>1, <4>2
    <3>9. ASSUME burst' >= 2, over.pending # NoCommand PROVE over.cur \in Short
      BY <1>5, <3>6, <3>8, <3>9
    <3>10. ASSUME burst' >= 2 PROVE over.start = A!NominalTime
      BY <1>5, <3>8, <3>10
    <3> QED BY <3>1, <3>3, <3>7, <3>8, <3>9, <3>10 DEF BurstInv
  <2> QED BY <2>1, <2>2
<1> QED BY <1>10, <1>11, <1>14, <1>15, <1>16 DEF AsyncInv

LEMMA AsyncRequestInv ==
    ASSUME AsyncInv, NEW c \in Command, A!Request(c) PROVE AsyncInv'
<1>1. AsyncGraphInv /\ AsyncTypes /\ GoodMachine(sm) /\ WakeInv /\ BurstInv
  BY DEF AsyncInv
<1>2. /\ sm' = A!AsyncCommanded(sm, c) /\ told' = FALSE /\ burst' = 0
      /\ graph' = graph /\ now' = now /\ wake' = wake /\ askedIn' = askedIn
  BY DEF A!Request
<1>3. GoodMachine(A!AsyncCommanded(sm, c))
  BY <1>1, CommandedIsGood
<1>4. GoodMachine(sm)'
  BY <1>2, <1>3 DEF GoodMachine, A!AsyncTarget
<1>5. AsyncGraphInv'
  BY <1>1, <1>2 DEF AsyncGraphInv, LoopsOnTimeouts, Dangerous
<1>6. AsyncTypes'
  <2>1. 0 \in 0..(A!MaxBurst + 1) /\ A!MaxBurst' = A!MaxBurst /\ A!AtOnce' = A!AtOnce
    BY GraphAssumption DEF A!MaxBurst, A!AtOnce
  <2> QED BY <1>1, <1>2, <2>1 DEF AsyncTypes
<1>7. WakeInv' /\ BurstInv'
  BY <1>2 DEF WakeInv, BurstInv
<1> QED BY <1>4, <1>5, <1>6, <1>7 DEF AsyncInv

LEMMA AsyncPassInv == ASSUME AsyncInv, A!Pass PROVE AsyncInv'
<1>1. AsyncGraphInv /\ AsyncTypes /\ GoodMachine(sm) /\ WakeInv /\ BurstInv
  BY DEF AsyncInv
<1>2. /\ now < MaxTime /\ now' = now + 1 /\ burst' = 0 /\ graph' = graph /\ sm' = sm
      /\ wake' = wake /\ told' = told /\ askedIn' = askedIn
  BY DEF A!Pass
<1>3. now \in Nat /\ now' \in 0..MaxTime /\ now <= now'
  BY <1>1, <1>2, MachineAssumption DEF AsyncTypes
<1>4. GoodMachine(sm)'
  BY <1>1, <1>2, <1>3 DEF GoodMachine, A!AsyncTarget
<1>5. AsyncGraphInv'
  BY <1>1, <1>2 DEF AsyncGraphInv, LoopsOnTimeouts, Dangerous
<1>6. AsyncTypes'
  <2>1. 0 \in 0..(A!MaxBurst + 1) /\ A!MaxBurst' = A!MaxBurst /\ A!AtOnce' = A!AtOnce
    BY GraphAssumption DEF A!MaxBurst, A!AtOnce
  <2> QED BY <1>1, <1>2, <1>3, <2>1 DEF AsyncTypes
<1>7. WakeInv'
  <2>1. wake \in Int
    BY <1>1, NominalIsNow DEF AsyncTypes, A!AtOnce
  <2>2. now' < wake => now < wake
    BY <1>3, <2>1
  <2> QED BY <1>1, <1>2, <2>2 DEF WakeInv, A!AsyncTarget, A!SequenceEnd
<1>8. BurstInv'
  BY <1>2 DEF BurstInv
<1> QED BY <1>4, <1>5, <1>6, <1>7, <1>8 DEF AsyncInv

LEMMA AsyncInitInv == A!AsyncInit => AsyncInv
<1> SUFFICES ASSUME A!AsyncInit PROVE AsyncInv
  OBVIOUS
<1>1. /\ graph \in Graphs /\ A!ValidateGraph(graph, TRUE)
      /\ now = 0 /\ wake = A!AtOnce /\ told = FALSE /\ askedIn = 0 /\ burst = 0
      /\ sm = [cur |-> 0, pending |-> NoCommand, nominal |-> Never, start |-> 0]
  BY DEF A!AsyncInit
<1>2. NumStates \in Nat \ {0} /\ MaxTime \in Nat /\ Never \in Nat
  BY GraphAssumption, MachineAssumption
<1>3. AsyncGraphInv
  <2>1. graph \in Graph
    BY <1>1, SyncAssumption
  <2>2. ValidateGraph(graph, TRUE)
    BY <1>1, SameAsyncGraph
  <2>3. ~LoopsOnTimeouts(graph, TRUE)
    BY <2>1, <2>2, ValidationIsExact
  <2> QED BY <1>1, <2>1, <2>3 DEF AsyncGraphInv
<1>4. AsyncTypes
  <2>1. A!AtOnce \in A!AtOnce..Never
    BY <1>2 DEF A!AtOnce
  <2>2. 0 \in 0..MaxTime /\ 0 \in State /\ 0 \in 0..(A!MaxBurst + 1)
    BY <1>2 DEF A!MaxBurst, State
  <2> QED BY <1>1, <2>1, <2>2 DEF AsyncTypes
<1>5. GoodMachine(sm)
  BY <1>1, <1>2 DEF GoodMachine, State
<1>6. WakeInv /\ BurstInv
  BY <1>1 DEF WakeInv, BurstInv
<1> QED BY <1>3, <1>4, <1>5, <1>6 DEF AsyncInv

LEMMA AsyncNextInv == AsyncInv /\ A!AsyncNext => AsyncInv'
<1> SUFFICES ASSUME AsyncInv, A!AsyncNext PROVE AsyncInv'
  OBVIOUS
<1>1. abort \in Command /\ go \in Command
  BY MachineAssumption
<1>2. CASE \E pre, post \in {abort} \cup {NoCommand} : A!AsyncDispatch(pre, post)
  BY <1>1, <1>2, AsyncDispatchInv
<1>3. CASE \E c \in {go} : A!Request(c)
  BY <1>1, <1>3, AsyncRequestInv
<1>4. CASE A!Pass
  BY <1>4, AsyncPassInv
<1> QED BY <1>2, <1>3, <1>4 DEF A!AsyncNext

LEMMA AsyncInvShows == AsyncInv => A!AsyncTypeOK /\ A!WakesInTime /\ A!BurstsEnd
<1> SUFFICES ASSUME AsyncInv PROVE A!AsyncTypeOK /\ A!WakesInTime /\ A!BurstsEnd
  OBVIOUS
<1>1. AsyncGraphInv /\ AsyncTypes /\ GoodMachine(sm) /\ WakeInv /\ BurstInv
  BY DEF AsyncInv
<1>2. /\ now \in Nat /\ Never \in Nat /\ now < Never /\ wake \in Int
      /\ Period \in Nat /\ A!SequenceEnd(sm) \in Nat
  BY <1>1, NominalIsNow, EventFacts, GraphAssumption DEF AsyncTypes, A!AtOnce
<1>3. sm \in A!Machine
  <2>1. sm \in [cur : State, pending : Command \cup {NoCommand}, nominal : Nat, start : Nat]
        /\ sm.start <= now /\ sm.nominal <= Never
    BY <1>1, <1>2 DEF GoodMachine
  <2>2. sm.start \in -Period..Never /\ sm.nominal \in -Period..Never
    BY <1>2, <2>1
  <2> QED BY <2>1, <2>2, SameAsyncGraph DEF A!Machine
<1>4. A!AsyncTypeOK
  BY <1>1, <1>3, SameAsyncGraph DEF A!AsyncTypeOK, AsyncTypes, AsyncGraphInv
<1>5. A!WakesInTime
  BY <1>1, <1>2 DEF WakeInv, A!WakesInTime
<1>6. A!BurstsEnd
  BY <1>1, BurstIsShort DEF A!BurstsEnd
<1> QED BY <1>4, <1>5, <1>6

(***************************************************************************)
(* AsyncStateMachine, for every configuration init_finalize accepts: until *)
(* the time dispatch asked for there is nothing for it to do, and the      *)
(* calls it asks for at once come to an end before time passes.            *)
(***************************************************************************)
THEOREM AsyncMachineIsCalledInTime == PartsSpec => []AsyncIsCalledInTime
<1> DEFINE Runs == part = "async" => AsyncInv
           steps == <<part, timeouts, syncVars, async>>
<1>1. PartsInit => Runs
  BY AsyncInitInv DEF PartsInit
<1>2. Runs /\ [PartsNext]_steps => Runs'
  <2> SUFFICES ASSUME Runs, [PartsNext]_steps, part' = "async" PROVE AsyncInv'
    OBVIOUS
  <2>1. part = "async" /\ AsyncInv
    BY DEF PartsNext
  <2>2. CASE A!AsyncNext
    BY <2>1, <2>2, AsyncNextInv
  <2>3. CASE UNCHANGED <<syncVars, async>>
    <3>1. UNCHANGED <<graph, now, sm, wake, told, askedIn, burst>>
      BY <2>3 DEF syncVars, vars, machine, sequences, async
    <3> QED BY <2>1, <3>1
        DEF AsyncInv, AsyncGraphInv, AsyncTypes, GoodMachine, WakeInv, BurstInv, Behind, Short,
            LoopsOnTimeouts, Dangerous, A!AsyncTarget, A!SequenceEnd, A!NominalTime, A!MaxBurst
  <2> QED BY <2>1, <2>2, <2>3 DEF PartsNext
<1>3. Runs => AsyncIsCalledInTime
  BY AsyncInvShows DEF AsyncIsCalledInTime
<1> QED BY <1>1, <1>2, <1>3, PTL DEF PartsSpec
=============================================================================
