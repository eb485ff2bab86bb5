----------------------- MODULE SyncStateMachineProofs -----------------------
(***************************************************************************)
(* What holds of a SyncStateMachine for every configuration, command table *)
(* and control period.                                                     *)
(***************************************************************************)
EXTENDS SyncStateMachine, TLAPS

(***************************************************************************)
(* The types, and what a pending command is: one of the table, leading to  *)
(* a state.                                                                *)
(***************************************************************************)
PendingLeadsToState == pending # NoCommand => pending \in Command /\ Target(pending) < NumStates

\* Inside a dispatch only the post tasks may still have to follow, in a whole transition.
TasksCatchUp ==
    pc = "sequences" =>
        /\ tasks.pre.for = cur
        /\ entered # "whole" => tasks.post.for = cur

\* The sequences of the current state are started, and ahead of it those of the next.
OwnSequencesRun ==
    /\ cur \in graph.seqs => cur \in running
    /\ pc \in {"idle", "preTasks"} /\ Partial /\ Target(lastPending) \in graph.seqs
           => Target(lastPending) \in running

Inv ==
    /\ TypeOK
    /\ OwnSequencesRun
    /\ PendingLeadsToState
    /\ DispatchAssertions
    /\ TasksFollowTheState
    /\ TasksCatchUp

(***************************************************************************)
(* A command's action in a state of a well-formed configuration is a state *)
(* number or one of the two markers above them all.                        *)
(***************************************************************************)
LEMMA TargetIsState ==
    ASSUME graph \in Graphs, cur \in State, NEW c \in Command, Target(c) < NumStates
    PROVE  Target(c) \in State
<1>1. graph.next[cur][c] \in Action
  BY SyncAssumption DEF Graph
<1>2. NumStates \in Nat \ {0}
  BY GraphAssumption
<1> QED
  BY <1>1, <1>2 DEF Target, Action, State, ignore_state, undefined_state

(***************************************************************************)
(* Configuring a group of tasks keeps its shape and sets what it is for.   *)
(***************************************************************************)
LEMMA ConfiguredIsTasks ==
    ASSUME NEW group \in Tasks, NEW s \in State
    PROVE  Configured(group, s) \in Tasks /\ Configured(group, s).for = s
BY DEF Configured, Tasks, AtMost, CallBound

(***************************************************************************)
(* Starting sequences keeps the shape of the started set and of the ages.  *)
(***************************************************************************)
LEMMA StartShapes ==
    ASSUME TypeOK, NEW started \in SUBSET State, NEW ended \in SUBSET State,
           NEW at \in 0..MaxAge, StartSequences(started, ended, at)
    PROVE  /\ running' \subseteq graph.seqs
           /\ age' \in [State -> 0..MaxAge]
           /\ running' = (running \ ended) \cup (started \cap graph.seqs)
<1>1. MaxAge \in Nat
  BY SyncAssumption
<1> QED
  BY <1>1 DEF StartSequences, TypeOK

(***************************************************************************)
(* The change of state keeps the types of everything it assigns.           *)
(***************************************************************************)
LEMMA SetStateShapes ==
    ASSUME TypeOK, NEW new \in State, NEW started \in SUBSET {new},
           NEW at \in 0..MaxAge, SetState(new, started, at)
    PROVE  /\ cur' = new /\ cur' \in State /\ old' \in State /\ older' \in State
           /\ running' = (running \ ({cur} \ {new})) \cup (started \cap graph.seqs)
           /\ running' \subseteq graph.seqs
           /\ fired' \subseteq running'
           /\ age' \in [State -> 0..MaxAge]
<1>1. cur \in State /\ old \in State /\ older \in State /\ fired \subseteq running
  BY DEF TypeOK
<1>2. cur' = new /\ old' = cur /\ older' = old
  BY DEF SetState
<1>3. fired' = fired \ (({cur} \ {new}) \cup started)
  BY DEF SetState
<1>4. StartSequences(started, {cur} \ {new}, at)
  BY DEF SetState
<1>5. started \in SUBSET State /\ {cur} \ {new} \in SUBSET State
  BY <1>1
<1>6. /\ running' \subseteq graph.seqs
      /\ age' \in [State -> 0..MaxAge]
      /\ running' = (running \ ({cur} \ {new})) \cup (started \cap graph.seqs)
  BY <1>4, <1>5, StartShapes
<1> QED
  BY <1>1, <1>2, <1>3, <1>6

(***************************************************************************)
(* Forgetting the calls counted so far changes no configuration.           *)
(***************************************************************************)
LEMMA ForgetKeeps ==
    ASSUME tasks \in [pre : Tasks, post : Tasks]
    PROVE  /\ ForgetCalls \in [pre : Tasks, post : Tasks]
           /\ ForgetCalls.pre.for = tasks.pre.for
           /\ ForgetCalls.post.for = tasks.post.for
BY DEF ForgetCalls, Tasks, CallBound

LEMMA InitInv == Init => Inv
<1> SUFFICES ASSUME Init PROVE Inv
  OBVIOUS
<1>1. 0 \in State /\ MaxAge \in Nat /\ NoCommand \notin Command
  BY GraphAssumption, SyncAssumption DEF State
<1>2. tasks \in [pre : Tasks, post : Tasks] /\ tasks.pre.for = 0 /\ tasks.post.for = 0
  BY <1>1 DEF Init, Tasks, CallBound
<1>3. TypeOK
  BY <1>1, <1>2 DEF Init, TypeOK, Once, CallBound
<1>4. PendingLeadsToState /\ DispatchAssertions /\ TasksCatchUp
  BY DEF Init, PendingLeadsToState, DispatchAssertions, TasksCatchUp, Partial
<1>5. TasksFollowTheState
  BY <1>2 DEF Init, TasksFollowTheState, Partial
<1>6. OwnSequencesRun
  BY DEF Init, OwnSequencesRun, Partial
<1> QED
  BY <1>3, <1>4, <1>5, <1>6 DEF Inv

LEMMA CommandedKeepsInv ==
    ASSUME Inv, NEW c \in Command, Commanded(c)
    PROVE  Inv'
<1>1. TypeOK /\ NoCommand \notin Command
  BY SyncAssumption DEF Inv
<1>2. pending = NoCommand /\ pending' = c /\ nominal' = "set" /\ Target(c) < NumStates
  BY DEF Commanded, handle_cmd, Accepts
<1>3. /\ UNCHANGED <<graph, cur, old, older, lastPending, running, age, fired, pc, entered>>
      /\ zeroRuns' = 0 /\ tasks' = ForgetCalls
  BY DEF Commanded, machine
<1>4. /\ tasks' \in [pre : Tasks, post : Tasks]
      /\ tasks'.pre.for = tasks.pre.for
      /\ tasks'.post.for = tasks.post.for
  BY <1>1, <1>3, ForgetKeeps DEF TypeOK
<1>5. pc \in {"idle", "preTasks", "postTasks"}
  BY DEF Commanded
<1>6. pc \in {"idle", "preTasks"} => ~Partial
  BY <1>1, <1>2 DEF Inv, DispatchAssertions, Partial
<1>7. TypeOK'
  BY <1>1, <1>2, <1>3, <1>4 DEF TypeOK, CallBound
<1>8. PendingLeadsToState'
  BY <1>2, <1>3 DEF PendingLeadsToState, Target
<1>9. DispatchAssertions'
  BY <1>1, <1>2, <1>3, <1>5, <1>6 DEF DispatchAssertions, Partial
<1>10. TasksFollowTheState'
  BY <1>3, <1>4, <1>5, <1>6 DEF Inv, TasksFollowTheState, Partial, Target
<1>11. TasksCatchUp'
  BY <1>3, <1>5 DEF TasksCatchUp
<1>12. OwnSequencesRun'
  BY <1>3 DEF Inv, OwnSequencesRun, Partial, Target
<1> QED
  BY <1>7, <1>8, <1>9, <1>10, <1>11, <1>12 DEF Inv

LEMMA BeginCycleKeepsInv ==
    ASSUME Inv, BeginCycle
    PROVE  Inv'
<1>1. TypeOK
  BY DEF Inv
<1>2. /\ UNCHANGED <<graph, cur, old, older, pending, nominal, lastPending, running, fired, zeroRuns, entered>>
      /\ pc = "idle" /\ pc' = "preTasks"
  BY DEF BeginCycle, machine
<1>3. age' \in [State -> 0..MaxAge]
  <2>1. MaxAge \in Nat /\ Period \in Nat
    BY SyncAssumption, GraphAssumption
  <2> QED
    BY <1>1, <2>1 DEF BeginCycle, TypeOK, AtMost
<1>4. /\ tasks' \in [pre : Tasks, post : Tasks]
      /\ tasks'.pre.for = tasks.pre.for
      /\ tasks'.post.for = tasks.post.for
  BY <1>1 DEF BeginCycle, TypeOK, Tasks, CallBound
<1>5. TypeOK'
  BY <1>1, <1>2, <1>3, <1>4 DEF TypeOK
<1>6. PendingLeadsToState' /\ DispatchAssertions' /\ TasksCatchUp'
  BY <1>2 DEF Inv, PendingLeadsToState, DispatchAssertions, TasksCatchUp, Partial, Target
<1>7. TasksFollowTheState'
  BY <1>2, <1>4 DEF Inv, TasksFollowTheState, Partial, Target
<1>8. OwnSequencesRun'
  BY <1>2 DEF Inv, OwnSequencesRun, Partial, Target
<1> QED
  BY <1>5, <1>6, <1>7, <1>8 DEF Inv

LEMMA NoTransitionKeepsInv ==
    ASSUME Inv, NoTransition
    PROVE  Inv'
<1>1. TypeOK
  BY DEF Inv
<1>2. /\ UNCHANGED <<graph, cur, old, older, pending, nominal, lastPending, running, age, fired, zeroRuns, tasks>>
      /\ pc = "preTasks" /\ pc' = "sequences" /\ pending = NoCommand /\ entered' = "none"
  BY DEF NoTransition, machine, sequences
<1>3. ~Partial
  BY <1>2 DEF Inv, DispatchAssertions, Partial
<1>4. TypeOK'
  BY <1>1, <1>2 DEF TypeOK
<1>5. PendingLeadsToState' /\ DispatchAssertions' /\ TasksFollowTheState'
  BY <1>2 DEF Inv, PendingLeadsToState, DispatchAssertions, TasksFollowTheState, Partial, Target
<1>6. TasksCatchUp'
  BY <1>2, <1>3 DEF Inv, TasksFollowTheState, TasksCatchUp
<1>7. OwnSequencesRun'
  BY <1>2 DEF Inv, OwnSequencesRun
<1> QED
  BY <1>4, <1>5, <1>6, <1>7 DEF Inv

(***************************************************************************)
(* Both kinds of transition enter the pending command's target.            *)
(***************************************************************************)
LEMMA WholeTransitionKeepsInv ==
    ASSUME Inv, WholeTransition
    PROVE  Inv'
<1> DEFINE new == Target(pending)
<1>1. TypeOK /\ pending # NoCommand /\ pending \in Command /\ new \in State
  BY TargetIsState DEF Inv, WholeTransition, PendingLeadsToState, TypeOK
<1>2. /\ UNCHANGED <<graph, lastPending, zeroRuns>>
      /\ pc' = "sequences" /\ entered' = "whole"
      /\ pending' = NoCommand /\ nominal' = "never"
      /\ SetState(new, {new}, 0)
      /\ tasks' = [tasks EXCEPT !.pre = Configured(tasks.pre, new)]
  BY DEF WholeTransition, ClearPending
<1>3. 0 \in 0..MaxAge
  BY SyncAssumption
<1>4. /\ cur' = new /\ cur' \in State /\ old' \in State /\ older' \in State
      /\ running' = (running \ ({cur} \ {new})) \cup ({new} \cap graph.seqs)
      /\ running' \subseteq graph.seqs
      /\ fired' \subseteq running'
      /\ age' \in [State -> 0..MaxAge]
  BY <1>1, <1>2, <1>3, SetStateShapes
<1>5. tasks' \in [pre : Tasks, post : Tasks] /\ tasks'.pre.for = new
  BY <1>1, <1>2, ConfiguredIsTasks DEF TypeOK
<1>6. TypeOK'
  BY <1>1, <1>2, <1>4, <1>5 DEF TypeOK
<1>7. PendingLeadsToState' /\ DispatchAssertions' /\ TasksFollowTheState'
  BY <1>2 DEF PendingLeadsToState, DispatchAssertions, TasksFollowTheState
<1>8. TasksCatchUp'
  BY <1>2, <1>4, <1>5 DEF TasksCatchUp
<1>9. OwnSequencesRun'
  BY <1>2, <1>4 DEF OwnSequencesRun
<1> QED
  BY <1>6, <1>7, <1>8, <1>9 DEF Inv

LEMMA CompletePartialKeepsInv ==
    ASSUME Inv, CompletePartial
    PROVE  Inv'
<1> DEFINE new == Target(pending)
<1>1. TypeOK /\ pending # NoCommand /\ pending \in Command /\ new \in State
  BY TargetIsState DEF Inv, CompletePartial, PendingLeadsToState, TypeOK
<1>2. /\ UNCHANGED <<graph, lastPending, zeroRuns>>
      /\ pc = "preTasks" /\ pc' = "sequences" /\ entered' = "partial"
      /\ pending' = NoCommand /\ nominal' = "never"
      /\ SetState(new, {}, 0)
      /\ tasks' = [tasks EXCEPT !.post = Configured(tasks.post, new)]
  BY DEF CompletePartial, ClearPending
<1>3. 0 \in 0..MaxAge
  BY SyncAssumption
<1>4. /\ cur' = new /\ cur' \in State /\ old' \in State /\ older' \in State
      /\ running' = (running \ ({cur} \ {new})) \cup ({} \cap graph.seqs)
      /\ running' \subseteq graph.seqs
      /\ fired' \subseteq running'
      /\ age' \in [State -> 0..MaxAge]
  BY <1>1, <1>2, <1>3, SetStateShapes
<1>5. /\ tasks' \in [pre : Tasks, post : Tasks]
      /\ tasks'.post.for = new
      /\ tasks'.pre.for = tasks.pre.for
  BY <1>1, <1>2, ConfiguredIsTasks DEF TypeOK
<1>6. tasks.pre.for = new
  BY <1>2 DEF Inv, CompletePartial, TasksFollowTheState, DispatchAssertions
<1>7. TypeOK'
  BY <1>1, <1>2, <1>4, <1>5 DEF TypeOK
<1>8. PendingLeadsToState' /\ DispatchAssertions' /\ TasksFollowTheState'
  BY <1>2 DEF PendingLeadsToState, DispatchAssertions, TasksFollowTheState
<1>9. TasksCatchUp'
  BY <1>2, <1>4, <1>5, <1>6 DEF TasksCatchUp
<1>10. new \in graph.seqs => new \in running
  BY <1>2 DEF Inv, CompletePartial, OwnSequencesRun, DispatchAssertions
<1>11. OwnSequencesRun'
  BY <1>2, <1>4, <1>10 DEF OwnSequencesRun
<1> QED
  BY <1>7, <1>8, <1>9, <1>11 DEF Inv

LEMMA RunSequencesKeepsInv ==
    ASSUME Inv, RunSequences
    PROVE  Inv'
<1> DEFINE timesOut == cur \in graph.seqs /\ Ended(cur)
           counted  == IF timesOut /\ Accepts(Timeout) THEN ForgetCalls ELSE tasks
<1>1. TypeOK /\ Timeout \in Command /\ NoCommand \notin Command
  BY SyncAssumption, GraphAssumption DEF Inv
<1>2. /\ UNCHANGED <<graph, cur, old, older, lastPending, running, age, entered>>
      /\ pc = "sequences" /\ pc' = "postTasks"
      /\ fired' = fired \cup (graph.seqs \cap {cur})
  BY DEF RunSequences, machine
<1>3. /\ pending = NoCommand /\ nominal = "never"
      /\ tasks.pre.for = cur
      /\ entered # "whole" => tasks.post.for = cur
  BY <1>2 DEF Inv, DispatchAssertions, TasksCatchUp
<1>4. \/ UNCHANGED <<pending, nominal>>
      \/ pending' = Timeout /\ nominal' = "set" /\ Target(Timeout) < NumStates
  BY DEF RunSequences, handle_cmd, Accepts
<1>5. /\ counted \in [pre : Tasks, post : Tasks]
      /\ counted.pre.for = tasks.pre.for
      /\ counted.post.for = tasks.post.for
  BY <1>1, ForgetKeeps DEF TypeOK
<1>6. /\ tasks' \in [pre : Tasks, post : Tasks]
      /\ tasks'.pre.for = cur
      /\ tasks'.post.for = cur
  <2>1. tasks' = IF entered = "whole"
                   THEN [counted EXCEPT !.post = Configured(counted.post, cur)]
                   ELSE counted
    BY DEF RunSequences
  <2>2. cur \in State /\ counted.post \in Tasks
    BY <1>1, <1>5 DEF TypeOK
  <2>3. Configured(counted.post, cur) \in Tasks /\ Configured(counted.post, cur).for = cur
    BY <2>2, ConfiguredIsTasks
  <2> HIDE DEF counted
  <2> QED
    BY <1>3, <1>5, <2>1, <2>2, <2>3
<1>7. zeroRuns' \in 0..CallBound
  BY <1>1 DEF RunSequences, TypeOK, AtMost, Once, CallBound
<1>8. fired' \subseteq running'
  BY <1>1, <1>2 DEF Inv, TypeOK, OwnSequencesRun
<1>9. TypeOK'
  BY <1>1, <1>2, <1>4, <1>6, <1>7, <1>8 DEF TypeOK
<1>10. PendingLeadsToState'
  BY <1>1, <1>2, <1>3, <1>4 DEF PendingLeadsToState, Target
<1>11. DispatchAssertions'
  BY <1>1, <1>2, <1>3, <1>4 DEF DispatchAssertions
<1>12. TasksFollowTheState' /\ TasksCatchUp'
  BY <1>2, <1>6 DEF TasksFollowTheState, TasksCatchUp
<1>13. OwnSequencesRun'
  BY <1>2 DEF Inv, OwnSequencesRun
<1> QED
  BY <1>9, <1>10, <1>11, <1>12, <1>13 DEF Inv

LEMMA EndCycleKeepsInv ==
    ASSUME Inv, EndCycle
    PROVE  Inv'
<1> DEFINE new == Target(pending)
<1>1. TypeOK
  BY DEF Inv
<1>2. /\ UNCHANGED <<graph, cur, old, older, pending, nominal>>
      /\ pc = "postTasks" /\ pc' = "idle"
      /\ lastPending' = pending /\ entered' = "none"
  BY DEF EndCycle, machine
<1>3. tasks.pre.for = cur /\ tasks.post.for = cur
  BY <1>2 DEF Inv, TasksFollowTheState
<1>4. PendingLeadsToState' /\ TasksCatchUp'
  BY <1>2 DEF Inv, PendingLeadsToState, TasksCatchUp, Target
<1>5. DispatchAssertions'
  BY <1>2 DEF Inv, DispatchAssertions, Partial
<1>6. CASE pending = NoCommand
  <2>1. UNCHANGED <<running, age, fired, zeroRuns, tasks>>
    BY <1>6 DEF EndCycle, sequences
  <2>2. TypeOK'
    BY <1>1, <1>2, <2>1 DEF TypeOK
  <2>3. TasksFollowTheState' /\ OwnSequencesRun'
    BY <1>2, <1>3, <1>6, <2>1 DEF Inv, TasksFollowTheState, OwnSequencesRun, Partial
  <2> QED
    BY <1>4, <1>5, <2>2, <2>3 DEF Inv
<1>7. CASE pending # NoCommand
  <2>1. pending \in Command /\ new \in State /\ 0 \in 0..MaxAge
    BY <1>1, <1>7, TargetIsState, SyncAssumption DEF Inv, PendingLeadsToState, TypeOK
  <2>2. /\ tasks' = [tasks EXCEPT !.pre = Configured(tasks.pre, new)]
        /\ StartSequences({new}, {}, 0)
        /\ fired' = fired \cup ({new} \cap graph.seqs)
        /\ zeroRuns' = AtMost(zeroRuns + Once(new \in graph.seqs), CallBound)
    BY <1>7 DEF EndCycle
  <2>3. /\ running' \subseteq graph.seqs
        /\ age' \in [State -> 0..MaxAge]
        /\ running' = (running \ {}) \cup ({new} \cap graph.seqs)
    BY <1>1, <2>1, <2>2, StartShapes
  <2>4. /\ tasks' \in [pre : Tasks, post : Tasks]
        /\ tasks'.pre.for = new
        /\ tasks'.post.for = cur
    BY <1>1, <1>3, <2>1, <2>2, ConfiguredIsTasks DEF TypeOK
  <2>5. zeroRuns' \in 0..CallBound
    BY <1>1, <2>2 DEF TypeOK, AtMost, Once, CallBound
  <2>6. TypeOK'
    BY <1>1, <1>2, <2>2, <2>3, <2>4, <2>5 DEF TypeOK
  <2>7. TasksFollowTheState'
    BY <1>2, <1>7, <2>4 DEF TasksFollowTheState, Partial, Target
  <2>8. OwnSequencesRun'
    BY <1>2, <1>7, <2>3 DEF Inv, OwnSequencesRun, Partial, Target
  <2> QED
    BY <1>4, <1>5, <2>6, <2>7, <2>8 DEF Inv
<1> QED
  BY <1>6, <1>7

LEMMA ForceStateKeepsInv ==
    ASSUME Inv, NEW new \in State, NEW at \in Durations, ForceState(new, at)
    PROVE  Inv'
<1>1. TypeOK
  BY DEF Inv
<1>2. /\ UNCHANGED <<graph, zeroRuns, pc, entered>>
      /\ pc = "idle"
      /\ pending' = NoCommand /\ nominal' = "never" /\ lastPending' = NoCommand
      /\ SetState(new, {new}, at)
      /\ tasks' = [pre |-> Configured(tasks.pre, new), post |-> Configured(tasks.post, new)]
  BY DEF ForceState, ClearPending
<1>3. at \in 0..MaxAge
  BY SyncAssumption, GraphAssumption
<1>4. /\ cur' = new /\ cur' \in State /\ old' \in State /\ older' \in State
      /\ running' = (running \ ({cur} \ {new})) \cup ({new} \cap graph.seqs)
      /\ running' \subseteq graph.seqs
      /\ fired' \subseteq running'
      /\ age' \in [State -> 0..MaxAge]
  BY <1>1, <1>2, <1>3, SetStateShapes
<1>5. /\ tasks' \in [pre : Tasks, post : Tasks]
      /\ tasks'.pre.for = new
      /\ tasks'.post.for = new
  <2>1. tasks.pre \in Tasks /\ tasks.post \in Tasks
    BY <1>1 DEF TypeOK
  <2>2. /\ Configured(tasks.pre, new) \in Tasks /\ Configured(tasks.pre, new).for = new
        /\ Configured(tasks.post, new) \in Tasks /\ Configured(tasks.post, new).for = new
    BY <2>1, ConfiguredIsTasks
  <2> QED
    BY <1>2, <2>2
<1>6. TypeOK'
  BY <1>1, <1>2, <1>4, <1>5 DEF TypeOK
<1>7. PendingLeadsToState' /\ DispatchAssertions' /\ TasksCatchUp'
  BY <1>2 DEF PendingLeadsToState, DispatchAssertions, TasksCatchUp, Partial
<1>8. TasksFollowTheState'
  BY <1>2, <1>4, <1>5 DEF TasksFollowTheState, Partial
<1>9. OwnSequencesRun'
  BY <1>2, <1>4 DEF OwnSequencesRun, Partial
<1> QED
  BY <1>6, <1>7, <1>8, <1>9 DEF Inv

LEMMA StepKeepsInv == Inv /\ [Next]_vars => Inv'
<1> SUFFICES ASSUME Inv, [Next]_vars PROVE Inv'
  OBVIOUS
<1>1. CASE UNCHANGED vars
  BY <1>1 DEF Inv, TypeOK, OwnSequencesRun, PendingLeadsToState, DispatchAssertions,
              TasksFollowTheState, TasksCatchUp, Partial, Target, vars, machine, sequences
<1>2. CASE Dispatch
  BY <1>2, BeginCycleKeepsInv, NoTransitionKeepsInv, WholeTransitionKeepsInv,
     CompletePartialKeepsInv, RunSequencesKeepsInv, EndCycleKeepsInv DEF Dispatch
<1>3. CASE \E c \in Command : Commanded(c)
  BY <1>3, CommandedKeepsInv
<1>4. CASE \E s \in State, at \in Durations : ForceState(s, at)
  BY <1>4, ForceStateKeepsInv
<1> QED
  BY <1>1, <1>2, <1>3, <1>4 DEF Next

LEMMA AlwaysInv == Spec => []Inv
BY InitInv, StepKeepsInv, PTL DEF Spec

(***************************************************************************)
(* The machine's state keeps its types, forced or not.                     *)
(***************************************************************************)
THEOREM TypeCorrect == Spec => []TypeOK
<1>1. Inv => TypeOK
  BY DEF Inv
<1> QED
  BY <1>1, AlwaysInv, PTL

(***************************************************************************)
(* The assertions in dispatch and handle_cmd about pending commands never  *)
(* fail, for any configuration and whatever tasks and clients command.     *)
(***************************************************************************)
THEOREM AssertionsHold == Spec => []DispatchAssertions
<1>1. Inv => DispatchAssertions
  BY DEF Inv
<1> QED
  BY <1>1, AlwaysInv, PTL

(***************************************************************************)
(* Control tasks are never dispatched configured for another state.        *)
(***************************************************************************)
THEOREM TasksFollow == Spec => []TasksFollowTheState
<1>1. Inv => TasksFollowTheState
  BY DEF Inv
<1> QED
  BY <1>1, AlwaysInv, PTL

(***************************************************************************)
(* A command once accepted is carried out from the state it was accepted   *)
(* in, or dropped by force_state.                                          *)
(***************************************************************************)
THEOREM CommandsAreCarriedOut == Spec => AcceptedIsCarriedOut
<1>1. ASSUME Inv, [Next]_vars, pending # NoCommand
      PROVE  \/ pending' = pending /\ cur' = cur
             \/ pending' = NoCommand /\ cur' = Target(pending)
             \/ \E s \in State, at \in Durations : ForceState(s, at)
  <2>1. CASE UNCHANGED vars
    BY <2>1 DEF vars, machine
  <2>2. CASE BeginCycle \/ NoTransition \/ EndCycle
    BY <2>2 DEF BeginCycle, NoTransition, EndCycle, machine
  <2>3. CASE WholeTransition \/ CompletePartial
    BY <2>3 DEF WholeTransition, CompletePartial, SetState, ClearPending
  <2>4. CASE RunSequences
    BY <1>1, <2>4 DEF Inv, DispatchAssertions, RunSequences
  <2>5. CASE \E c \in Command : Commanded(c)
    BY <1>1, <2>5 DEF Commanded, Accepts
  <2>6. CASE \E s \in State, at \in Durations : ForceState(s, at)
    BY <2>6
  <2> QED
    BY <1>1, <2>1, <2>2, <2>3, <2>4, <2>5, <2>6 DEF Next, Dispatch
<1> QED
  BY <1>1, AlwaysInv, PTL DEF Spec, AcceptedIsCarriedOut

-----------------------------------------------------------------------------
(* A machine that is not forced.                                           *)

\* What init_finalize makes sure of, and finalize_state_from_file.
GraphIsValid ==
    /\ \A s \in State, c \in Command : graph.next[s][c] # 0
    /\ \A s \in graph.seqs \ {0} :
          graph.duration[s] < Period => ~(graph.next[s][Timeout] < NumStates)

\* Between the halves of a partial transition the next state's parts run already; within
\* a dispatch, a whole transition has its post tasks and its time-zero events to come.
Ahead == pc \in {"idle", "preTasks"} /\ Partial
Newest == IF Ahead THEN Target(lastPending) ELSE cur
Halfway == pc = "sequences" /\ entered = "whole"

(***************************************************************************)
(* What was done since the last command was accepted, at every place of    *)
(* the dispatch.                                                           *)
(***************************************************************************)
PartsRun ==
    LET pre  == IF pending # NoCommand /\ ~Ahead THEN 0 ELSE 1
        post == IF pending # NoCommand \/ Halfway THEN 0 ELSE 1
    IN  /\ tasks.pre.since = pre
        /\ tasks.post.since = post
        /\ zeroRuns = IF Newest \in graph.seqs /\ ~Halfway THEN pre ELSE 0
        /\ running = graph.seqs \cap {cur, Newest}
        /\ fired = IF Halfway THEN {} ELSE running
        /\ Halfway => cur # 0 /\ (cur \in graph.seqs => age[cur] = 0)

UnforcedInv == Inv /\ GraphIsValid /\ PartsRun

LEMMA UnforcedInit == Init => UnforcedInv
<1> SUFFICES ASSUME Init PROVE UnforcedInv
  OBVIOUS
<1>1. GraphIsValid
  BY DEF Init, GraphIsValid, ParsesStates, ValidSyncGraph
<1>2. ~Ahead /\ ~Halfway /\ Newest = 0
  BY DEF Init, Ahead, Halfway, Newest, Partial
<1>3. PartsRun
  BY <1>2 DEF Init, PartsRun, Once
<1> QED BY <1>1, <1>3, InitInv DEF UnforcedInv

\* Configuring a group of tasks for the first time since the command counts as one.
LEMMA FirstConfigured ==
    ASSUME NEW group \in Tasks, NEW s, group.since = 0
    PROVE  Configured(group, s).since = 1
BY DEF Configured, Tasks, AtMost, CallBound

LEMMA TaskShapes ==
    ASSUME TypeOK
    PROVE  tasks.pre \in Tasks /\ tasks.post \in Tasks /\ tasks = [pre |-> tasks.pre, post |-> tasks.post]
BY DEF TypeOK

LEMMA CommandedRunsParts ==
    ASSUME UnforcedInv, NEW c \in Command, Commanded(c)
    PROVE  PartsRun'
<1>1. TypeOK /\ c # NoCommand
  BY SyncAssumption DEF UnforcedInv, Inv
<1>2. /\ pending = NoCommand /\ pending' = c /\ tasks' = ForgetCalls /\ zeroRuns' = 0
      /\ UNCHANGED <<graph, cur, old, older, lastPending, running, age, fired, pc, entered>>
      /\ pc # "sequences"
  BY DEF Commanded, handle_cmd, Accepts, machine
<1>3. ~Ahead
  BY <1>2 DEF UnforcedInv, Inv, DispatchAssertions, Ahead, Partial
<1>4. ~Ahead' /\ ~Halfway' /\ ~Halfway /\ Newest' = Newest
  BY <1>2, <1>3 DEF Ahead, Partial, Halfway, Newest
<1>5. tasks'.pre.since = 0 /\ tasks'.post.since = 0
  BY <1>1, <1>2, TaskShapes DEF ForgetCalls, Tasks
<1> QED BY <1>1, <1>2, <1>3, <1>4, <1>5 DEF UnforcedInv, PartsRun

LEMMA BeginCycleRunsParts ==
    ASSUME UnforcedInv, BeginCycle
    PROVE  PartsRun'
<1>1. TypeOK
  BY DEF UnforcedInv, Inv
<1>2. /\ pc = "idle" /\ pc' = "preTasks"
      /\ UNCHANGED <<graph, cur, old, older, pending, nominal, lastPending, running, fired, zeroRuns, entered>>
  BY DEF BeginCycle, machine
<1>3. tasks'.pre.since = tasks.pre.since /\ tasks'.post.since = tasks.post.since
  BY <1>1, TaskShapes DEF BeginCycle, Tasks
<1>4. (Ahead <=> Ahead') /\ Newest' = Newest /\ ~Halfway /\ ~Halfway'
  BY <1>2 DEF Ahead, Newest, Halfway, Partial, Target
<1> QED BY <1>2, <1>3, <1>4 DEF UnforcedInv, PartsRun

LEMMA NoTransitionRunsParts ==
    ASSUME UnforcedInv, NoTransition
    PROVE  PartsRun'
<1>1. /\ pc = "preTasks" /\ pc' = "sequences" /\ pending = NoCommand /\ entered' = "none"
      /\ UNCHANGED <<graph, cur, old, older, pending, nominal, lastPending, running, age, fired,
                     zeroRuns, tasks>>
  BY DEF NoTransition, machine, sequences
<1>2. ~Ahead /\ ~Ahead' /\ ~Halfway /\ ~Halfway' /\ Newest' = cur /\ Newest = cur
  BY <1>1 DEF UnforcedInv, Inv, DispatchAssertions, Ahead, Halfway, Newest, Partial
<1> QED BY <1>1, <1>2 DEF UnforcedInv, PartsRun

LEMMA WholeTransitionRunsParts ==
    ASSUME UnforcedInv, WholeTransition
    PROVE  PartsRun'
<1> DEFINE new == Target(pending)
<1>1. TypeOK /\ pending # NoCommand /\ pending \in Command /\ new \in State /\ new # 0
  BY TargetIsState
  DEF UnforcedInv, Inv, WholeTransition, PendingLeadsToState, TypeOK, GraphIsValid, Target
<1>2. /\ UNCHANGED <<graph, lastPending, zeroRuns>>
      /\ pc = "preTasks" /\ pc' = "sequences" /\ entered' = "whole" /\ ~Partial
      /\ pending' = NoCommand
      /\ SetState(new, {new}, 0)
      /\ tasks' = [tasks EXCEPT !.pre = Configured(tasks.pre, new)]
  BY DEF WholeTransition, ClearPending
<1>3. ~Ahead /\ ~Ahead' /\ ~Halfway /\ Halfway' /\ Newest = cur /\ Newest' = cur'
  BY <1>2 DEF Ahead, Halfway, Newest
<1>4. tasks.pre.since = 0 /\ tasks.post.since = 0 /\ zeroRuns = 0
  BY <1>1, <1>3 DEF UnforcedInv, PartsRun
<1>5. tasks'.pre.since = 1 /\ tasks'.post.since = 0
  BY <1>1, <1>2, <1>4, TaskShapes, FirstConfigured
<1>6. running = graph.seqs \cap {cur} /\ fired = running
  BY <1>3 DEF UnforcedInv, PartsRun
<1>7. /\ cur' = new
      /\ running' = (running \ ({cur} \ {new})) \cup ({new} \cap graph.seqs)
      /\ fired' = fired \ (({cur} \ {new}) \cup {new})
      /\ age' = [s \in State |-> IF s \in {new} \cap graph.seqs THEN 0
                                 ELSE IF s \in {cur} \ {new} THEN 0 ELSE age[s]]
  BY <1>2 DEF SetState, StartSequences
<1>8. running' = graph.seqs' \cap {cur', Newest'} /\ fired' = {}
  BY <1>2, <1>3, <1>6, <1>7
<1> QED BY <1>1, <1>2, <1>3, <1>4, <1>5, <1>7, <1>8 DEF PartsRun

LEMMA CompletePartialRunsParts ==
    ASSUME UnforcedInv, CompletePartial
    PROVE  PartsRun'
<1> DEFINE new == Target(pending)
<1>1. TypeOK /\ pending # NoCommand
  BY DEF UnforcedInv, Inv, CompletePartial
<1>2. /\ UNCHANGED <<graph, lastPending, zeroRuns>>
      /\ pc = "preTasks" /\ pc' = "sequences" /\ entered' = "partial" /\ Partial
      /\ pending' = NoCommand
      /\ SetState(new, {}, 0)
      /\ tasks' = [tasks EXCEPT !.post = Configured(tasks.post, new)]
  BY DEF CompletePartial, ClearPending
<1>3. lastPending = pending
  BY <1>2 DEF UnforcedInv, Inv, DispatchAssertions
<1>4. Ahead /\ ~Ahead' /\ ~Halfway /\ ~Halfway' /\ Newest = new /\ Newest' = cur'
  BY <1>2, <1>3 DEF Ahead, Halfway, Newest
<1>5. tasks.pre.since = 1 /\ tasks.post.since = 0 /\ zeroRuns = IF new \in graph.seqs THEN 1 ELSE 0
  BY <1>1, <1>4 DEF UnforcedInv, PartsRun
<1>6. tasks'.pre.since = 1 /\ tasks'.post.since = 1
  BY <1>1, <1>2, <1>5, TaskShapes, FirstConfigured
<1>7. running = graph.seqs \cap {cur, new} /\ fired = running
  BY <1>4 DEF UnforcedInv, PartsRun
<1>8. /\ cur' = new
      /\ running' = (running \ ({cur} \ {new})) \cup ({} \cap graph.seqs)
      /\ fired' = fired \ (({cur} \ {new}) \cup {})
  BY <1>2 DEF SetState, StartSequences
<1>9. running' = graph.seqs' \cap {cur', Newest'} /\ fired' = running'
  BY <1>2, <1>4, <1>7, <1>8
<1> QED BY <1>2, <1>4, <1>5, <1>6, <1>8, <1>9 DEF PartsRun

LEMMA RunSequencesRunsParts ==
    ASSUME UnforcedInv, RunSequences
    PROVE  PartsRun'
<1> DEFINE timesOut == cur \in graph.seqs /\ Ended(cur)
           leaves == timesOut /\ Accepts(Timeout)
           counted  == IF leaves THEN ForgetCalls ELSE tasks
           begun == Once(cur \in graph.seqs \ fired)
<1>1. TypeOK /\ Timeout \in Command /\ NoCommand \notin Command
  BY SyncAssumption, GraphAssumption DEF UnforcedInv, Inv
<1>2. /\ UNCHANGED <<graph, cur, old, older, lastPending, running, age, entered>>
      /\ pc = "sequences" /\ pc' = "postTasks"
      /\ fired' = fired \cup (graph.seqs \cap {cur})
      /\ zeroRuns' = IF leaves THEN 0 ELSE AtMost(zeroRuns + begun, CallBound)
      /\ tasks' = IF entered = "whole"
                    THEN [counted EXCEPT !.post = Configured(counted.post, cur)]
                    ELSE counted
      /\ IF timesOut THEN handle_cmd(Timeout) ELSE UNCHANGED <<pending, nominal>>
  BY DEF RunSequences, machine
<1>3. pending = NoCommand
  BY <1>2 DEF UnforcedInv, Inv, DispatchAssertions
<1>4. ~Ahead /\ ~Ahead' /\ ~Halfway' /\ Newest = cur /\ Newest' = cur'
      /\ (Halfway <=> entered = "whole")
  BY <1>2 DEF Ahead, Halfway, Newest
<1>5. /\ tasks.pre.since = 1
      /\ tasks.post.since = IF Halfway THEN 0 ELSE 1
      /\ zeroRuns = IF cur \in graph.seqs /\ ~Halfway THEN 1 ELSE 0
      /\ running = graph.seqs \cap {cur}
      /\ fired = IF Halfway THEN {} ELSE running
      /\ Halfway => cur # 0 /\ (cur \in graph.seqs => age[cur] = 0)
  BY <1>3, <1>4 DEF UnforcedInv, PartsRun
<1>6. pending' = IF leaves THEN Timeout ELSE NoCommand
  BY <1>2, <1>3 DEF handle_cmd
\* A state just entered at once is too long, or stays.
<1>7. Halfway => ~leaves
  <2> SUFFICES ASSUME Halfway, leaves PROVE FALSE
    OBVIOUS
  <2>1. cur \in graph.seqs \ {0} /\ 0 >= graph.duration[cur] /\ graph.next[cur][Timeout] < NumStates
    BY <1>5 DEF Ended, Accepts, Target
  <2>2. graph.duration[cur] \in Nat /\ Period \in Nat \ {0}
    BY <1>1, GraphAssumption, SyncAssumption DEF TypeOK, Graph
  <2> QED BY <2>1, <2>2 DEF UnforcedInv, GraphIsValid
<1>8. CASE leaves
  <2>1. tasks' = ForgetCalls /\ zeroRuns' = 0 /\ pending' = Timeout /\ ~Halfway
    BY <1>2, <1>4, <1>6, <1>7, <1>8
  <2>2. tasks'.pre.since = 0 /\ tasks'.post.since = 0
    BY <1>1, <2>1, TaskShapes DEF ForgetCalls, Tasks
  <2> QED BY <1>1, <1>2, <1>4, <1>5, <2>1, <2>2 DEF PartsRun
<1>9. CASE ~leaves /\ Halfway
  <2>1. tasks' = [tasks EXCEPT !.post = Configured(tasks.post, cur)]
    BY <1>2, <1>4, <1>9
  <2>2. tasks'.pre.since = 1 /\ tasks'.post.since = 1
    BY <1>1, <1>5, <1>9, <2>1, TaskShapes, FirstConfigured
  <2>3. zeroRuns' = IF cur \in graph.seqs THEN 1 ELSE 0
    BY <1>2, <1>5, <1>9 DEF AtMost, Once, CallBound
  <2>4. pending' = NoCommand
    BY <1>6, <1>9
  <2>5. running' = graph.seqs' \cap {cur', Newest'} /\ fired' = running'
    BY <1>2, <1>4, <1>5, <1>9
  <2> QED BY <1>2, <1>4, <2>2, <2>3, <2>4, <2>5 DEF PartsRun
<1>10. CASE ~leaves /\ ~Halfway
  <2>1. tasks' = tasks /\ pending' = NoCommand
    BY <1>2, <1>4, <1>6, <1>10
  <2>2. zeroRuns' = IF cur \in graph.seqs THEN 1 ELSE 0
    BY <1>2, <1>5, <1>10 DEF AtMost, Once, CallBound
  <2>3. running' = graph.seqs' \cap {cur', Newest'} /\ fired' = running'
    BY <1>2, <1>4, <1>5, <1>10
  <2> QED BY <1>2, <1>4, <1>5, <1>10, <2>1, <2>2, <2>3 DEF PartsRun
<1> QED BY <1>8, <1>9, <1>10

LEMMA EndCycleRunsParts ==
    ASSUME UnforcedInv, EndCycle
    PROVE  PartsRun'
<1> DEFINE new == Target(pending)
<1>1. TypeOK
  BY DEF UnforcedInv, Inv
<1>2. /\ UNCHANGED <<graph, cur, old, older, pending, nominal>>
      /\ pc = "postTasks" /\ pc' = "idle" /\ lastPending' = pending
  BY DEF EndCycle, machine
<1>3. ~Ahead /\ ~Halfway /\ ~Halfway' /\ Newest = cur
  BY <1>2 DEF Ahead, Halfway, Newest
<1>4. running = graph.seqs \cap {cur} /\ fired = running
  BY <1>3 DEF UnforcedInv, PartsRun
<1>5. CASE pending = NoCommand
  <2>1. UNCHANGED <<running, fired, zeroRuns, tasks>>
    BY <1>5 DEF EndCycle, sequences
  <2>2. ~Ahead' /\ Newest' = cur
    BY <1>2, <1>5 DEF Ahead, Newest, Partial
  <2> QED BY <1>2, <1>3, <1>4, <1>5, <2>1, <2>2 DEF UnforcedInv, PartsRun
<1>6. CASE pending # NoCommand
  <2>1. /\ tasks' = [tasks EXCEPT !.pre = Configured(tasks.pre, new)]
        /\ running' = (running \ {}) \cup ({new} \cap graph.seqs)
        /\ fired' = fired \cup ({new} \cap graph.seqs)
        /\ zeroRuns' = AtMost(zeroRuns + Once(new \in graph.seqs), CallBound)
    BY <1>6 DEF EndCycle, StartSequences
  <2>2. tasks.pre.since = 0 /\ tasks.post.since = 0 /\ zeroRuns = 0
    BY <1>3, <1>6 DEF UnforcedInv, PartsRun
  <2>3. tasks'.pre.since = 1 /\ tasks'.post.since = 0
    BY <1>1, <2>1, <2>2, TaskShapes, FirstConfigured
  <2>4. Ahead' /\ Newest' = new
    BY <1>2, <1>6 DEF Ahead, Newest, Partial, Target
  <2>5. zeroRuns' = IF new \in graph.seqs THEN 1 ELSE 0
    BY <2>1, <2>2 DEF AtMost, Once, CallBound
  <2>6. running' = graph.seqs' \cap {cur', Newest'} /\ fired' = running'
    BY <1>2, <1>4, <2>1, <2>4
  <2> QED BY <1>2, <1>3, <1>6, <2>3, <2>4, <2>5, <2>6 DEF PartsRun
<1> QED BY <1>5, <1>6

LEMMA UnforcedNext == ~Settable /\ UnforcedInv /\ [Next]_vars => UnforcedInv'
<1> SUFFICES ASSUME ~Settable, UnforcedInv, [Next]_vars PROVE UnforcedInv'
  OBVIOUS
<1>1. Inv'
  BY StepKeepsInv DEF UnforcedInv
<1>2. graph' = graph
  BY DEF Next, Dispatch, BeginCycle, NoTransition, WholeTransition, CompletePartial,
         RunSequences, EndCycle, Commanded, ForceState, vars
<1>3. GraphIsValid'
  BY <1>2 DEF UnforcedInv, GraphIsValid
<1>4. PartsRun'
  <2>1. CASE UNCHANGED vars
    BY <2>1 DEF vars, machine, sequences, UnforcedInv, PartsRun, Ahead, Newest, Halfway, Partial,
                Target
  <2>2. CASE Dispatch
    BY <2>2, BeginCycleRunsParts, NoTransitionRunsParts, WholeTransitionRunsParts,
       CompletePartialRunsParts, RunSequencesRunsParts, EndCycleRunsParts DEF Dispatch
  <2>3. CASE \E c \in Command : Commanded(c)
    BY <2>3, CommandedRunsParts
  <2>4. CASE \E s \in State, at \in Durations : ForceState(s, at)
    BY <2>4 DEF ForceState
  <2> QED BY <2>1, <2>2, <2>3, <2>4 DEF Next
<1> QED BY <1>1, <1>3, <1>4 DEF UnforcedInv

LEMMA UnforcedShows == UnforcedInv => EachPartRunsOnce /\ OnlyOwnSequencesRun
<1> SUFFICES ASSUME UnforcedInv, pc = "idle" PROVE EachPartRunsOnce /\ OnlyOwnSequencesRun
  BY DEF EachPartRunsOnce, OnlyOwnSequencesRun
<1>1. (Ahead <=> Partial) /\ ~Halfway /\ Newest = IF Partial THEN Target(lastPending) ELSE cur
  BY DEF Ahead, Halfway, Newest
<1>2. Partial => pending # NoCommand
  BY DEF UnforcedInv, Inv, DispatchAssertions, Partial
<1>3. EachPartRunsOnce
  BY <1>1, <1>2 DEF UnforcedInv, PartsRun, EachPartRunsOnce
<1>4. {cur, Newest} = {cur} \cup {Target(c) : c \in {lastPending} \ {NoCommand}}
  BY <1>1 DEF Partial
<1> QED BY <1>1, <1>3, <1>4 DEF UnforcedInv, PartsRun, OnlyOwnSequencesRun

-----------------------------------------------------------------------------
(* Its timing, when durations are whole periods.                           *)

Multiples == {k * Period : k \in Nat}
WholePeriods == \A d \in Durations : d % Period = 0

LEMMA PeriodIsNat == Period \in Nat \ {0} /\ Multiples \subseteq Nat /\ MaxAge \in Nat
BY GraphAssumption, SyncAssumption DEF Multiples

LEMMA WholeAreMultiples == WholePeriods => Durations \subseteq Multiples
<1> SUFFICES ASSUME WholePeriods, NEW d \in Durations PROVE d \in Multiples
  OBVIOUS
<1>1. d \in Nat /\ Period \in Nat \ {0} /\ d % Period = 0
  BY GraphAssumption DEF WholePeriods
<1>2. d = (d \div Period) * Period /\ d \div Period \in Nat
  BY <1>1
<1> QED BY <1>2 DEF Multiples

\* Two multiples are a period apart, or the same.
LEMMA NextMultiple ==
    ASSUME NEW m \in Multiples, NEW n \in Multiples, m < n
    PROVE  m + Period \in Multiples /\ m + Period <= n
<1>1. PICK k \in Nat : m = k * Period
  BY DEF Multiples
<1>2. PICK l \in Nat : n = l * Period
  BY DEF Multiples
<1>3. Period \in Nat \ {0}
  BY GraphAssumption
<1>4. k < l
  <2> SUFFICES ASSUME l <= k PROVE FALSE
    BY <1>1, <1>2
  <2>1. l * Period <= k * Period
    BY <1>3
  <2> QED BY <1>1, <1>2, <1>3, <2>1
<1>5. (k + 1) * Period <= l * Period
  BY <1>3, <1>4
<1>6. (k + 1) * Period = m + Period /\ k + 1 \in Nat
  BY <1>1, <1>3
<1> QED BY <1>2, <1>5, <1>6 DEF Multiples

\* A state that a timeout leaves; state 0 is left when dispatching starts.
Leaves(s) == s \in graph.seqs \ {0} /\ graph.next[s][Timeout] < NumStates

(***************************************************************************)
(* The sequences of such a state come to their end exactly, and it is left *)
(* in that cycle.                                                          *)
(***************************************************************************)
InTime ==
    /\ Leaves(Newest) =>
          /\ age[Newest] \in Multiples
          /\ age[Newest] <= graph.duration[Newest]
          /\ pc = "idle" => age[Newest] < graph.duration[Newest]
          /\ pc = "postTasks" => (age[cur] = graph.duration[cur] <=> pending = Timeout)
    /\ pc = "postTasks" /\ pending = Timeout => cur \in graph.seqs

LEMMA LeavesLate ==
    ASSUME UnforcedInv, WholePeriods, NEW s, Leaves(s)
    PROVE  /\ s \in State /\ graph.duration[s] \in Multiples /\ 0 \in Multiples
           /\ graph.duration[s] \in Nat
           /\ 0 < graph.duration[s]
           /\ graph.duration[s] + Period <= MaxAge
<1>1. graph \in Graph /\ s \in State /\ s \in graph.seqs \ {0}
  BY SyncAssumption DEF UnforcedInv, Inv, TypeOK, Leaves, Graph
<1>2. graph.duration[s] \in Durations
  BY <1>1 DEF Graph
<1>3. graph.duration[s] \in Nat /\ Period \in Nat \ {0}
  BY <1>2, GraphAssumption
<1>5. 0 \in Multiples
  <2>1. 0 * Period = 0
    BY <1>3
  <2> QED BY <2>1 DEF Multiples
<1>4. ~(graph.duration[s] < Period)
  BY DEF UnforcedInv, GraphIsValid, Leaves
<1>6. graph.duration[s] \in Multiples
  BY <1>2, WholeAreMultiples
<1>7. 0 < graph.duration[s]
  BY <1>3, <1>4
<1>8. graph.duration[s] + Period <= MaxAge
  BY <1>2, SyncAssumption
<1> QED BY <1>1, <1>3, <1>5, <1>6, <1>7, <1>8

LEMMA InTimeInit == WholePeriods /\ Init => InTime
BY DEF Init, InTime, Leaves, Newest, Ahead, Partial

LEMMA CommandedInTime ==
    ASSUME UnforcedInv, InTime, NEW c \in Command, Commanded(c)
    PROVE  InTime'
<1>1. c # Timeout
  BY SyncAssumption DEF Commanded
<1>2. /\ pending = NoCommand /\ pending' = c /\ pc \in {"idle", "preTasks", "postTasks"}
      /\ UNCHANGED <<graph, cur, old, older, lastPending, running, age, fired, pc, entered>>
  BY DEF Commanded, handle_cmd, Accepts, machine
<1>3. NoCommand # Timeout
  BY SyncAssumption, GraphAssumption
<1> QED BY <1>1, <1>2, <1>3 DEF InTime, Leaves, Newest, Ahead, Partial, Target

LEMMA BeginCycleInTime ==
    ASSUME UnforcedInv, WholePeriods, InTime, BeginCycle
    PROVE  InTime'
<1>1. /\ pc = "idle" /\ pc' = "preTasks"
      /\ UNCHANGED <<graph, cur, old, older, pending, nominal, lastPending, running, fired, zeroRuns, entered>>
      /\ age' = [s \in State |-> IF s \in running THEN AtMost(age[s] + Period, MaxAge) ELSE age[s]]
  BY DEF BeginCycle, machine
<1>2. Newest' = Newest
  BY <1>1 DEF Ahead, Newest, Partial, Target
<1>3. ASSUME Leaves(Newest)
      PROVE  age'[Newest] \in Multiples /\ age'[Newest] <= graph.duration[Newest]
  <2> DEFINE d == graph.duration[Newest]
             a == age[Newest]
  <2>1. /\ Newest \in State /\ d \in Multiples /\ d \in Nat /\ d + Period <= MaxAge
        /\ a \in Multiples /\ a < d /\ a \in Nat
    BY <1>1, <1>3, LeavesLate, PeriodIsNat DEF InTime
  <2>2. Newest \in running
    BY <1>3 DEF UnforcedInv, PartsRun, Leaves
  <2>3. a + Period \in Multiples /\ a + Period <= d
    BY <2>1, NextMultiple
  <2>4. age'[Newest] = AtMost(a + Period, MaxAge)
    BY <1>1, <2>1, <2>2
  <2>5. age'[Newest] = a + Period
    BY <2>1, <2>3, <2>4, PeriodIsNat DEF AtMost
  <2> QED BY <2>3, <2>5
<1> QED BY <1>1, <1>2, <1>3 DEF InTime, Leaves

LEMMA TransitionInTime ==
    ASSUME UnforcedInv, WholePeriods, InTime, NoTransition \/ WholeTransition \/ CompletePartial
    PROVE  InTime'
<1>1. pc = "preTasks" /\ pc' = "sequences" /\ graph' = graph /\ lastPending' = lastPending
  BY DEF NoTransition, WholeTransition, CompletePartial
<1>2. Newest' = cur'
  BY <1>1 DEF Newest, Ahead
<1>3. ASSUME Leaves(cur')
      PROVE  age'[cur'] \in Multiples /\ age'[cur'] <= graph.duration[cur']
  <2>1. CASE NoTransition
    <3>1. Newest = cur /\ cur' = cur /\ age' = age
      BY <2>1 DEF NoTransition, machine, sequences, UnforcedInv, Inv, DispatchAssertions, Newest,
                  Ahead, Partial
    <3> QED BY <1>3, <3>1 DEF InTime
  <2>2. CASE WholeTransition
    <3>1. StartSequences({cur'}, {cur} \ {cur'}, 0)
      BY <2>2 DEF WholeTransition, SetState
    <3>2. age'[cur'] = 0
      BY <1>3, <3>1, LeavesLate DEF StartSequences, Leaves
    <3> QED BY <1>3, <3>2, LeavesLate
  <2>3. CASE CompletePartial
    <3>1. StartSequences({}, {cur} \ {cur'}, 0) /\ cur' = Target(pending) /\ Partial
      BY <2>3 DEF CompletePartial, SetState
    <3>2. Newest = cur'
      BY <1>1, <3>1 DEF Newest, Ahead, UnforcedInv, Inv, DispatchAssertions
    <3>3. age'[cur'] = age[cur']
      BY <1>3, <3>1, LeavesLate DEF StartSequences
    <3> QED BY <1>3, <3>2, <3>3 DEF InTime
  <2> QED BY <2>1, <2>2, <2>3
<1> QED BY <1>1, <1>2, <1>3 DEF InTime, Leaves

LEMMA RunSequencesInTime ==
    ASSUME UnforcedInv, WholePeriods, InTime, RunSequences
    PROVE  InTime'
<1> DEFINE timesOut == cur \in graph.seqs /\ Ended(cur)
<1>1. /\ UNCHANGED <<graph, cur, old, older, lastPending, running, age, entered>>
      /\ pc = "sequences" /\ pc' = "postTasks"
      /\ IF timesOut THEN handle_cmd(Timeout) ELSE UNCHANGED <<pending, nominal>>
  BY DEF RunSequences, machine
<1>2. pending = NoCommand /\ NoCommand # Timeout
  BY <1>1, SyncAssumption, GraphAssumption DEF UnforcedInv, Inv, DispatchAssertions
<1>3. pending' = Timeout <=> timesOut /\ graph.next[cur][Timeout] < NumStates
  BY <1>1, <1>2 DEF handle_cmd, Accepts, Target
<1>4. Newest = cur /\ Newest' = cur
  BY <1>1 DEF Newest, Ahead
<1>5. ASSUME Leaves(cur)
      PROVE  age[cur] = graph.duration[cur] <=> pending' = Timeout
  <2>1. age[cur] <= graph.duration[cur] /\ age[cur] \in Nat /\ graph.duration[cur] \in Nat
    BY <1>4, <1>5, LeavesLate, PeriodIsNat DEF InTime
  <2> QED BY <1>3, <1>5, <2>1 DEF Ended, Leaves
<1> QED BY <1>1, <1>3, <1>4, <1>5 DEF InTime, Leaves

LEMMA EndCycleInTime ==
    ASSUME UnforcedInv, WholePeriods, InTime, EndCycle
    PROVE  InTime' /\ NoGapNoSquash
<1> DEFINE new == Target(pending)
<1>1. /\ UNCHANGED <<graph, cur, old, older, pending, nominal>>
      /\ pc = "postTasks" /\ pc' = "idle" /\ lastPending' = pending
  BY DEF EndCycle, machine
<1>2. Newest = cur /\ NoCommand # Timeout
  BY <1>1, SyncAssumption, GraphAssumption DEF Newest, Ahead
<1>3. CASE pending = NoCommand
  <2>1. age' = age /\ Newest' = cur
    BY <1>1, <1>3 DEF EndCycle, sequences, Newest, Ahead, Partial
  <2>2. ASSUME Leaves(cur)
        PROVE  age[cur] < graph.duration[cur]
    <3>1. age[cur] <= graph.duration[cur] /\ age[cur] # graph.duration[cur] /\ age[cur] \in Nat
      BY <1>1, <1>2, <1>3, <2>2, PeriodIsNat DEF InTime
    <3> QED BY <2>2, <3>1, LeavesLate
  <2> QED BY <1>1, <1>2, <1>3, <2>1, <2>2 DEF InTime, Leaves, NoGapNoSquash
<1>4. CASE pending # NoCommand
  <2>1. /\ StartSequences({new}, {}, 0) /\ fired' = fired \cup ({new} \cap graph.seqs)
        /\ Newest' = new
    BY <1>1, <1>4 DEF EndCycle, Newest, Ahead, Partial, Target
  <2>2. new \in State
    BY <1>4, TargetIsState DEF UnforcedInv, Inv, TypeOK, PendingLeadsToState
  <2>3. new \in graph.seqs => age'[new] = 0
    BY <2>1, <2>2 DEF StartSequences
  <2>4. InTime'
    BY <1>1, <2>1, <2>3, LeavesLate DEF InTime, Leaves
  <2>5. pending = Timeout /\ cur # 0 => age[cur] = graph.duration[cur]
    BY <1>1, <1>2, <1>4 DEF InTime, Leaves, UnforcedInv, Inv, PendingLeadsToState, Target
  <2> QED BY <1>1, <2>1, <2>3, <2>4, <2>5 DEF NoGapNoSquash
<1> QED BY <1>3, <1>4

LEMMA InTimeNext ==
    ~Settable /\ WholePeriods /\ UnforcedInv /\ InTime /\ [Next]_vars => InTime' /\ NoGapNoSquash
<1> SUFFICES ASSUME ~Settable, WholePeriods, UnforcedInv, InTime, [Next]_vars
             PROVE  InTime' /\ NoGapNoSquash
  OBVIOUS
<1>1. CASE UNCHANGED vars
  BY <1>1 DEF vars, machine, sequences, InTime, Newest, Ahead, Leaves, Partial, Target, NoGapNoSquash
<1>2. CASE EndCycle
  BY <1>2, EndCycleInTime
<1>3. CASE BeginCycle
  BY <1>3, BeginCycleInTime DEF BeginCycle, NoGapNoSquash
<1>4. CASE NoTransition \/ WholeTransition \/ CompletePartial
  BY <1>4, TransitionInTime DEF NoTransition, WholeTransition, CompletePartial, NoGapNoSquash
<1>5. CASE RunSequences
  BY <1>5, RunSequencesInTime DEF RunSequences, NoGapNoSquash
<1>6. CASE \E c \in Command : Commanded(c)
  BY <1>6, CommandedInTime DEF Commanded, NoGapNoSquash
<1>7. CASE \E s \in State, at \in Durations : ForceState(s, at)
  BY <1>7 DEF ForceState
<1> QED BY <1>1, <1>2, <1>3, <1>4, <1>5, <1>6, <1>7 DEF Next, Dispatch

(***************************************************************************)
(* A SyncStateMachine between dispatches: each part of a transition was    *)
(* run as often as it has come along, and no other state's event sequences *)
(* are started, for any configuration and whatever tasks and clients       *)
(* command.                                                                *)
(***************************************************************************)
THEOREM EachPartOnce ==
    ASSUME ~Settable PROVE Spec => [](EachPartRunsOnce /\ OnlyOwnSequencesRun)
BY UnforcedInit, UnforcedNext, UnforcedShows, PTL DEF Spec

(***************************************************************************)
(* A series of states that time out has no gaps, if durations are whole    *)
(* periods: each takes exactly its duration, and the next begins then.     *)
(***************************************************************************)
THEOREM NoGaps ==
    ASSUME ~Settable, WholePeriods PROVE Spec => [][NoGapNoSquash]_vars
<1>1. Init => UnforcedInv /\ InTime
  BY UnforcedInit, InTimeInit
<1>2. UnforcedInv /\ InTime /\ [Next]_vars => (UnforcedInv /\ InTime)' /\ NoGapNoSquash
  BY UnforcedNext, InTimeNext
<1> QED BY <1>1, <1>2, PTL DEF Spec
=============================================================================
