-------------------------- MODULE SyncStateMachine --------------------------
(***************************************************************************)
(* SyncStateMachine: the vehicle's state machine, dispatched exactly once  *)
(* per control cycle.  A dispatch runs the pre-transition tasks, takes the *)
(* pending command, runs the state's event sequences and then the          *)
(* post-transition tasks.  A command that arrives while the sequences or   *)
(* the post tasks run starts its transition in the same dispatch and ends  *)
(* it in the next one (a partial transition).                              *)
(*                                                                         *)
(* A dispatch is four steps here, because control tasks are callbacks that *)
(* may command the machine from inside it.  Event sequences and tasks are  *)
(* not in the tree: a sequence is its age in the time units of Period and  *)
(* whether its time-zero events ran; a group of tasks is the state it was  *)
(* last configured for.  Telemetry (event_sequence_time, names, signals)   *)
(* is left out.                                                            *)
(***************************************************************************)
EXTENDS StateGraph

CONSTANTS
    Graphs,           \* the configurations the machine may be given
    NoCommand,        \* noop_cmd_index
    ExternalCommand,  \* commands that may arrive between dispatches
    TaskCommand,      \* commands control tasks may issue when dispatched
    MaxAge,           \* bound on the age a sequence is followed to
    Settable          \* is it a SettableSyncStateMachine

ASSUME SyncAssumption ==
    /\ Graphs \subseteq Graph
    /\ NoCommand \notin Command
    /\ ExternalCommand \subseteq Command \ {Timeout}
    /\ TaskCommand \subseteq Command \ {Timeout}
    /\ MaxAge \in Nat
    /\ \A d \in Durations : d + Period <= MaxAge
    /\ Settable \in BOOLEAN

VARIABLES
    graph,        \* the configuration
    cur, old, older,
    pending,      \* pending_cmd_index
    nominal,      \* "set" unless nominal_transition_time is nano_t_max
    lastPending,  \* last_pending_cmd_index
    running,      \* states whose event sequences are started
    age,          \* how far each of those has come
    fired,        \* those whose time-zero events ran
    zeroRuns,     \* times time-zero events ran since a command was accepted
    tasks,        \* the pre- and post-transition tasks
    pc,           \* the part of dispatch to run next
    entered       \* the transition this dispatch made: "none", "whole", "partial"

machine   == <<cur, old, older>>
sequences == <<running, age, fired, zeroRuns>>
vars == <<graph, machine, pending, nominal, lastPending, sequences, tasks, pc, entered>>

\* Counts of task_start/stop/cmd calls are followed up to this.
CallBound == 3
AtMost(n, bound) == IF n <= bound THEN n ELSE bound

Once(happens) == IF happens THEN 1 ELSE 0

\* A group of tasks: its configuration, and the times it was configured
\* since the last command was accepted and in this control cycle.
Tasks == [for : State, since : 0..CallBound, cycle : 0..CallBound]

TypeOK ==
    /\ graph \in Graphs
    /\ cur \in State /\ old \in State /\ older \in State
    /\ pending \in Command \cup {NoCommand}
    /\ nominal \in {"set", "never"}
    /\ lastPending \in Command \cup {NoCommand}
    /\ running \subseteq graph.seqs
    /\ age \in [State -> 0..MaxAge]
    /\ fired \subseteq running
    /\ zeroRuns \in 0..CallBound
    /\ tasks \in [pre : Tasks, post : Tasks]
    /\ pc \in {"idle", "preTasks", "sequences", "postTasks"}
    /\ entered \in {"none", "whole", "partial"}

\* set_initial_state: the sequences of state 0 are started and dispatched.
Init ==
    /\ graph \in {g \in Graphs : ParsesStates(g) /\ ValidInitialState(g) /\ ValidSyncGraph(g)}
    /\ cur = 0 /\ old = 0 /\ older = 0
    /\ pending = NoCommand
    /\ nominal = "never"
    /\ lastPending = NoCommand
    /\ running = graph.seqs \cap {0}
    /\ age = [s \in State |-> 0]
    /\ fired = running
    /\ zeroRuns = Once(0 \in graph.seqs)
    /\ tasks = LET initial == [for |-> 0, since |-> 1, cycle |-> 0]
               IN  [pre |-> initial, post |-> initial]
    /\ pc = "idle"
    /\ entered = "none"

-----------------------------------------------------------------------------
(* Commands.                                                               *)

Target(c) == graph.next[cur][c]

\* is_cmd_allowed: its range check comes before the test for ignore_state.
is_cmd_allowed(c) ==
    \/ c = NoCommand
    \/ /\ Target(c) < NumStates
       /\ \/ Target(c) = ignore_state
          \/ Target(c) # undefined_state

\* handle_cmd accepts a command for good only if none is pending.
Bug_Accepts(c) == Target(c) < NumStates

Accepts(c) ==
    /\ pending = NoCommand
    /\ Target(c) < NumStates

\* The calls counted from the acceptance of a command.
ForgetCalls == [pre |-> [tasks.pre EXCEPT !.since = 0], post |-> [tasks.post EXCEPT !.since = 0]]

handle_cmd(c) ==
    IF Accepts(c)
      THEN /\ pending' = c
           /\ nominal' = "set"
      ELSE UNCHANGED <<pending, nominal>>

\* A command from outside between dispatches, or from a task within one.
Commanded(c) ==
    /\ \/ pc = "idle" /\ c \in ExternalCommand
       \/ pc \in {"preTasks", "postTasks"} /\ c \in TaskCommand
    /\ Accepts(c)
    /\ handle_cmd(c)
    /\ tasks' = ForgetCalls
    /\ zeroRuns' = 0
    /\ UNCHANGED <<graph, machine, lastPending, running, age, fired, pc, entered>>

-----------------------------------------------------------------------------
(* Tasks, event sequences and the change of state.                         *)

\* transition_pre_tasks, transition_post_tasks: start, stop or command each for s.
Configured(group, s) ==
    [for   |-> s,
     since |-> AtMost(group.since + 1, CallBound),
     cycle |-> AtMost(group.cycle + 1, CallBound)]

\* start_seqs, after end_seqs of the states in ended.
StartSequences(started, ended, at) ==
    /\ running' = (running \ ended) \cup (started \cap graph.seqs)
    /\ age' = [s \in State |-> IF s \in started \cap graph.seqs THEN at
                               ELSE IF s \in ended THEN 0 ELSE age[s]]

\* What set_state does after the tasks: end cur's sequences, start new's, change the state.
Bug_SetState(new, started, at) ==
    /\ StartSequences(started, {}, at)
    /\ fired' = fired \ started
    /\ cur' = new /\ old' = cur /\ older' = old

Bug_SetStateKeepsFired(new, started, at) ==
    /\ StartSequences(started, {cur} \ {new}, at)
    /\ fired' = fired
    /\ cur' = new /\ old' = cur /\ older' = old

SetState(new, started, at) ==
    /\ StartSequences(started, {cur} \ {new}, at)
    /\ fired' = fired \ (({cur} \ {new}) \cup started)
    /\ cur' = new /\ old' = cur /\ older' = old

\* handle_pending_cmd clears the command whatever happens.
ClearPending == pending' = NoCommand /\ nominal' = "never"

-----------------------------------------------------------------------------
(* SyncStateMachine::dispatch.                                             *)

Partial == lastPending # NoCommand

\* A control period has passed; the pre-transition tasks are dispatched.
BeginCycle ==
    /\ pc = "idle"
    /\ pc' = "preTasks"
    /\ age' = [s \in State |-> IF s \in running THEN AtMost(age[s] + Period, MaxAge) ELSE age[s]]
    /\ tasks' = [pre |-> [tasks.pre EXCEPT !.cycle = 0], post |-> [tasks.post EXCEPT !.cycle = 0]]
    /\ UNCHANGED <<graph, machine, pending, nominal, lastPending, running, fired, zeroRuns, entered>>

NoTransition ==
    /\ pc = "preTasks"
    /\ pending = NoCommand
    /\ pc' = "sequences"
    /\ entered' = "none"
    /\ UNCHANGED <<graph, machine, pending, nominal, lastPending, sequences, tasks>>

\* A command from outside or from a pre task: pre tasks, then the new state and its sequences.
WholeTransition ==
    /\ pc = "preTasks"
    /\ pending # NoCommand /\ ~Partial
    /\ tasks' = [tasks EXCEPT !.pre = Configured(tasks.pre, Target(pending))]
    /\ SetState(Target(pending), {Target(pending)}, 0)
    /\ ClearPending
    /\ pc' = "sequences"
    /\ entered' = "whole"
    /\ UNCHANGED <<graph, lastPending, zeroRuns>>

\* The rest of a transition begun in the last dispatch: the state, then the post tasks.
Bug_CompletePartial ==
    /\ pc = "preTasks"
    /\ pending # NoCommand /\ Partial
    /\ SetState(Target(pending), {Target(pending)}, 0)
    /\ tasks' = [pre |-> Configured(tasks.pre, Target(pending)),
                 post |-> Configured(tasks.post, Target(pending))]
    /\ ClearPending
    /\ pc' = "sequences"
    /\ entered' = "partial"
    /\ UNCHANGED <<graph, lastPending, zeroRuns>>

CompletePartial ==
    /\ pc = "preTasks"
    /\ pending # NoCommand /\ Partial
    /\ SetState(Target(pending), {}, 0)
    /\ tasks' = [tasks EXCEPT !.post = Configured(tasks.post, Target(pending))]
    /\ ClearPending
    /\ pc' = "sequences"
    /\ entered' = "partial"
    /\ UNCHANGED <<graph, lastPending, zeroRuns>>

\* dispatch_seqs answers nano_t_max once the sequence is over.
Bug_Ended(s) == age[s] > graph.duration[s]
Ended(s) == age[s] >= graph.duration[s]

\* The sequences of the state run; at their end the timeout command is
\* tried; a whole transition then configures the post tasks.
RunSequences ==
    /\ pc = "sequences"
    /\ pc' = "postTasks"
    /\ fired' = fired \cup (graph.seqs \cap {cur})
    /\ LET timesOut == cur \in graph.seqs /\ Ended(cur)
           counted  == IF timesOut /\ Accepts(Timeout) THEN ForgetCalls ELSE tasks
       IN  /\ IF timesOut THEN handle_cmd(Timeout) ELSE UNCHANGED <<pending, nominal>>
           /\ tasks' = IF entered = "whole"
                         THEN [counted EXCEPT !.post = Configured(counted.post, cur)]
                         ELSE counted
           /\ zeroRuns' = IF timesOut /\ Accepts(Timeout) THEN 0
                          ELSE AtMost(zeroRuns + Once(cur \in graph.seqs \ fired), CallBound)
    /\ UNCHANGED <<graph, machine, lastPending, running, age, entered>>

\* Once the post tasks ran: begin the transition of a command that arrived meanwhile.
Bug_EndCycle ==
    /\ pc = "postTasks"
    /\ pc' = "idle"
    /\ IF pending # NoCommand
         THEN /\ tasks' = [tasks EXCEPT !.pre = Configured(tasks.pre, Target(pending))]
              /\ StartSequences({Target(pending)}, {}, 0)
              /\ fired' = fired \cup ({Target(pending)} \cap graph.seqs)
              /\ zeroRuns' = AtMost(zeroRuns + Once(Target(pending) \in graph.seqs), CallBound)
         ELSE UNCHANGED <<sequences, tasks>>
    /\ entered' = "none"
    /\ UNCHANGED <<graph, machine, pending, nominal, lastPending>>

EndCycle ==
    /\ pc = "postTasks"
    /\ pc' = "idle"
    /\ IF pending # NoCommand
         THEN /\ tasks' = [tasks EXCEPT !.pre = Configured(tasks.pre, Target(pending))]
              /\ StartSequences({Target(pending)}, {}, 0)
              /\ fired' = fired \cup ({Target(pending)} \cap graph.seqs)
              /\ zeroRuns' = AtMost(zeroRuns + Once(Target(pending) \in graph.seqs), CallBound)
         ELSE UNCHANGED <<sequences, tasks>>
    /\ lastPending' = pending
    /\ entered' = "none"
    /\ UNCHANGED <<graph, machine, pending, nominal>>

\* SettableSyncStateMachine::force_state, called between dispatches.
Bug_ForceState(new, at) ==
    /\ Settable /\ pc = "idle"
    /\ ClearPending
    /\ tasks' = [pre  |-> Configured(tasks.pre, new), post |-> Configured(tasks.post, new)]
    /\ SetState(new, {new}, at)
    /\ UNCHANGED <<graph, lastPending, zeroRuns, pc, entered>>

ForceState(new, at) ==
    /\ Settable /\ pc = "idle"
    /\ ClearPending
    /\ lastPending' = NoCommand
    /\ tasks' = [pre  |-> Configured(tasks.pre, new), post |-> Configured(tasks.post, new)]
    /\ SetState(new, {new}, at)
    /\ UNCHANGED <<graph, zeroRuns, pc, entered>>

Dispatch ==
    \/ BeginCycle
    \/ NoTransition
    \/ WholeTransition
    \/ CompletePartial
    \/ RunSequences
    \/ EndCycle

Next ==
    \/ Dispatch
    \/ \E c \in Command : Commanded(c)
    \/ \E s \in State, at \in Durations : ForceState(s, at)

Spec == Init /\ [][Next]_vars

\* The control loop dispatches the machine every cycle and dispatch returns.
FairSpec == Spec /\ WF_vars(Dispatch)
-----------------------------------------------------------------------------
(* Properties of every machine.                                            *)

(***************************************************************************)
(* The assertions of dispatch never fail: a transition begun in one        *)
(* dispatch finds its own command still pending in the next, whatever the  *)
(* tasks and the outside tried in between; nothing is pending when the     *)
(* sequences run; and a nominal time is set exactly while a command pends. *)
(***************************************************************************)
DispatchAssertions ==
    /\ pc \in {"idle", "preTasks"} /\ Partial => pending = lastPending
    /\ pc = "sequences" => pending = NoCommand
    /\ pending = NoCommand <=> nominal = "never"

(***************************************************************************)
(* The control tasks follow the state.  Post-transition tasks are only     *)
(* dispatched when both groups are configured for the current state, and   *)
(* pre-transition tasks are ahead of it exactly during a partial           *)
(* transition, by the state it leads to.                                   *)
(***************************************************************************)
TasksFollowTheState ==
    /\ pc = "postTasks" => tasks.pre.for = cur /\ tasks.post.for = cur
    /\ pc \in {"idle", "preTasks"} =>
           /\ tasks.pre.for = IF Partial THEN Target(lastPending) ELSE cur
           /\ tasks.post.for = cur

(***************************************************************************)
(* A command that handle_cmd accepted is carried out: from the state it    *)
(* was accepted in, to the target it had there, and no other command takes *)
(* its place.  Only force_state may drop it.                               *)
(***************************************************************************)
AcceptedIsCarriedOut ==
    [][pending # NoCommand =>
          \/ pending' = pending /\ cur' = cur
          \/ pending' = NoCommand /\ cur' = Target(pending)
          \/ \E s \in State, at \in Durations : ForceState(s, at)]_vars

-----------------------------------------------------------------------------
(* Properties of machines that are not forced.                             *)

(***************************************************************************)
(* Between dispatches, since the last command was accepted, each group of  *)
(* tasks was configured exactly as often as the transition came along:     *)
(* not at all before it began, the pre tasks alone after its first half,   *)
(* both once at its end; and the new state's time-zero events ran once.    *)
(***************************************************************************)
EachPartRunsOnce ==
    pc = "idle" =>
        LET pre    == IF pending # NoCommand /\ ~Partial THEN 0 ELSE 1
            post   == IF pending # NoCommand THEN 0 ELSE 1
            newest == IF Partial THEN Target(lastPending) ELSE cur
        IN  /\ tasks.pre.since = pre
            /\ tasks.post.since = post
            /\ zeroRuns = IF newest \in graph.seqs THEN pre ELSE 0

(***************************************************************************)
(* Between dispatches only the current state's event sequences are         *)
(* started, and during a partial transition those of the next state too:   *)
(* set_state ends the others, so that they start over with the state.      *)
(***************************************************************************)
OnlyOwnSequencesRun ==
    pc = "idle" =>
        running = graph.seqs \cap ({cur} \cup {Target(c) : c \in {lastPending} \ {NoCommand}})

(***************************************************************************)
(* Guarantee 7 of StateMachine.h: when a state times out, its sequences    *)
(* took exactly their duration and the next state's time-zero events run   *)
(* in that same cycle, so that a series of states has no gaps.  Durations  *)
(* are whole periods, and state 0 is left when dispatching starts.         *)
(***************************************************************************)
NoGapNoSquash ==
    pc = "postTasks" /\ pc' = "idle" /\ pending = Timeout /\ cur # 0
        => /\ age[cur] = graph.duration[cur]
           /\ Target(Timeout) \in graph.seqs =>
                  Target(Timeout) \in fired' /\ age'[Target(Timeout)] = 0

(***************************************************************************)
(* Commands from outside are never locked out: as long as the tasks        *)
(* themselves issue none, there is again and again a time between two      *)
(* dispatches at which handle_cmd does not defer.  This is what            *)
(* validate_graph's search for loops of single-cycle states is for.        *)
(***************************************************************************)
CommandsGetIn == []<>(pc = "idle" /\ pending = NoCommand)

-----------------------------------------------------------------------------
(* What the documentation says and the code does not do.                   *)

(***************************************************************************)
(* is_cmd_allowed's description: a command is allowed if the state machine *)
(* explicitly ignores it.                                                  *)
(***************************************************************************)
IgnoredIsAllowed == \A c \in Command : Target(c) = ignore_state => is_cmd_allowed(c)

(***************************************************************************)
(* Guarantee 3 of StateMachine.h: all task_start, task_stop and task_cmd   *)
(* functions are called at most once per cycle.                            *)
(***************************************************************************)
TasksCalledOncePerCycle == tasks.pre.cycle <= 1 /\ tasks.post.cycle <= 1
=============================================================================
