-------------------------- MODULE AsyncStateMachine --------------------------
(***************************************************************************)
(* AsyncStateMachine: the state machine of a program that has no control   *)
(* cycle.  dispatch answers when it wants to be called again; its caller   *)
(* may also call it earlier, or later.  A transition takes place in one    *)
(* dispatch, at the last multiple of the period before its command.        *)
(* A dispatch is one step here, with the commands its tasks issue in it.   *)
(* Commands and their timeouts are those of StateGraph; a state's event    *)
(* sequences end once, a duration after their start.                       *)
(***************************************************************************)
EXTENDS StateGraph, Integers

CONSTANTS
    Graphs,           \* the configurations the machine may be given
    NoCommand,        \* noop_cmd_index
    ExternalCommand,  \* commands that may arrive between dispatches
    TaskCommand,      \* commands control tasks may issue when dispatched
    Never,            \* nano_t_max, later than any time a dispatch asks for
    MaxTime           \* bound on the time

VARIABLES
    graph,      \* the configuration
    now,
    sm,         \* the machine
    wake,       \* the time the last dispatch asked for
    told,       \* (history) nothing happened since that dispatch but time
    askedIn,    \* (history) the state the pre tasks were last dispatched in
    burst       \* (history) transitions since time passed or a command came

asyncVars == <<graph, now, sm, wake, told, askedIn, burst>>

AtOnce == -1                     \* nano_t_min
MaxBurst == NumStates + 1
Earliest(a, b) == IF a < b THEN a ELSE b

\* A machine: cur_state, pending_cmd_index, nominal_transition_time, and the
\* start of the sequences of cur.
Machine == [cur : State, pending : Command \cup {NoCommand},
            nominal : -Period..Never, start : -Period..Never]

AsyncTypeOK ==
    /\ graph \in Graphs
    /\ now \in 0..MaxTime
    /\ sm \in Machine
    /\ wake \in AtOnce..Never
    /\ told \in BOOLEAN
    /\ askedIn \in State
    /\ burst \in 0..(MaxBurst + 1)

\* init_finalize allows states of a single cycle in a loop.
AsyncInit ==
    /\ graph \in {g \in Graphs : ParsesStates(g) /\ ValidInitialState(g) /\ ValidateGraph(g, TRUE)}
    /\ now = 0
    /\ sm = [cur |-> 0, pending |-> NoCommand, nominal |-> Never, start |-> 0]
    /\ wake = AtOnce
    /\ told = FALSE
    /\ askedIn = 0
    /\ burst = 0

-----------------------------------------------------------------------------
AsyncTarget(m, c) == graph.next[m.cur][c]

Bug_NominalTime == (now \div Period) * Period - Period

\* set_nominal_transition_time
NominalTime == (now \div Period) * Period

\* handle_cmd
AsyncCommanded(m, c) ==
    IF c # NoCommand /\ m.pending = NoCommand /\ AsyncTarget(m, c) < NumStates
      THEN [m EXCEPT !.pending = c, !.nominal = NominalTime]
      ELSE m

\* handle_pending_cmd, set_state
AsyncTransitioned(m) ==
    IF m.nominal <= now
      THEN [cur |-> AsyncTarget(m, m.pending), pending |-> NoCommand,
            nominal |-> Never, start |-> m.nominal]
      ELSE m

\* dispatch_seqs: when the sequences of the state want to be called again.
SequenceEnd(m) == m.start + graph.duration[m.cur]
NextEvent(m) ==
    IF m.cur \in graph.seqs /\ now < SequenceEnd(m) THEN SequenceEnd(m) ELSE Never

TimedOut(m) ==
    IF m.cur \in graph.seqs /\ NextEvent(m) = Never THEN AsyncCommanded(m, Timeout) ELSE m

Bug_WakeAt(entered, timedOut, done) ==
    IF timedOut THEN AtOnce ELSE Earliest(NextEvent(done), done.nominal)

WakeAt(entered, timedOut, done) ==
    IF entered \/ timedOut THEN AtOnce ELSE Earliest(NextEvent(done), done.nominal)

\* dispatch, with the commands of its pre-transition and post-transition tasks.
AsyncDispatch(pre, post) ==
    LET asked   == AsyncCommanded(sm, pre)
        entered == AsyncTransitioned(asked)
        over    == TimedOut(entered)
        done    == AsyncCommanded(over, post)
        moves   == asked.nominal <= now
    IN  /\ sm' = done
        /\ wake' = WakeAt(moves, over # entered, done)
        /\ told' = TRUE
        /\ askedIn' = sm.cur
        /\ burst' = IF {pre, post} # {NoCommand} THEN 0
                    ELSE IF moves /\ burst <= MaxBurst THEN burst + 1 ELSE burst
        /\ UNCHANGED <<graph, now>>

\* handle_cmd between two dispatches.
Request(c) ==
    /\ AsyncCommanded(sm, c) # sm
    /\ sm' = AsyncCommanded(sm, c)
    /\ told' = FALSE
    /\ burst' = 0
    /\ UNCHANGED <<graph, now, wake, askedIn>>

\* The caller may be late.
Pass ==
    /\ now < MaxTime
    /\ now' = now + 1
    /\ burst' = 0
    /\ UNCHANGED <<graph, sm, wake, told, askedIn>>

AsyncNext ==
    \/ \E pre, post \in TaskCommand \cup {NoCommand} : AsyncDispatch(pre, post)
    \/ \E c \in ExternalCommand : Request(c)
    \/ Pass

AsyncSpec == AsyncInit /\ [][AsyncNext]_asyncVars

-----------------------------------------------------------------------------
(***************************************************************************)
(* Until the time dispatch asked for there is nothing for it to do: no     *)
(* command is pending, no sequence has ended that times out into another   *)
(* state, and the pre-transition tasks were asked in the state they are    *)
(* now configured for.                                                     *)
(***************************************************************************)
WakesInTime ==
    told /\ now < wake =>
        /\ sm.pending = NoCommand
        /\ askedIn = sm.cur
        /\ sm.cur \in graph.seqs /\ AsyncTarget(sm, Timeout) < NumStates => now < SequenceEnd(sm)

(***************************************************************************)
(* init_finalize's check is enough: without commands from outside or from  *)
(* tasks, the immediate calls dispatch asks for come to an end before time *)
(* passes, also when states of a single cycle form a loop.  A caller that  *)
(* was late may come through one state twice: the command that waited      *)
(* starts a sequence in the past, and only the next one starts now.        *)
(***************************************************************************)
BurstsEnd == burst <= MaxBurst
=============================================================================
