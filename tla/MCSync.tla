-------------------------------- MODULE MCSync --------------------------------
(***************************************************************************)
(* The state machines, one in a behavior: a settable one that is forced,   *)
(* one whose tasks command it, an asynchronous one, and the search for     *)
(* loops in a graph of timeouts.                                           *)
(***************************************************************************)
EXTENDS MCSyncStateMachine

CONSTANTS
    ForcedDurations,    \* in the configurations of the settable one
    MaxTime, Never,     \* of the asynchronous one
    SearchedStates      \* in the graph that is searched

ASSUME MachineAssumption ==
    /\ {go, abort} \subseteq Command \ {Timeout}
    /\ MaxTime \in Nat /\ Never \in Nat /\ MaxTime < Never
    /\ \A d \in Durations : MaxTime + d < Never
    /\ SearchedStates \in Nat \ {0}
    /\ \A d \in Durations : d % Period = 0

VARIABLES
    part,
    now, sm, wake, told, askedIn, burst,
    timeouts    \* the graph that is searched

M == INSTANCE SyncStateMachine WITH Settable <- FALSE, TaskCommand <- {go, abort}
A == INSTANCE AsyncStateMachine WITH TaskCommand <- {abort}, ExternalCommand <- {go}
G == INSTANCE StateGraph WITH
         NumStates <- SearchedStates, Command <- {Timeout}, Period <- 1, Durations <- {0, 1, 2}

syncVars == vars
async == <<now, sm, wake, told, askedIn, burst>>

\* Every way its states time out into each other or into none.
TimeoutGraphs ==
    [next     : [G!State -> [{Timeout} -> G!State \cup {G!ignore_state}]],
     seqs     : {G!State},
     duration : [G!State -> {0, 1, 2}]]

SyncIdle ==
    /\ cur = 0 /\ old = 0 /\ older = 0
    /\ pending = NoCommand /\ nominal = "never" /\ lastPending = NoCommand
    /\ running = {} /\ age = [s \in State |-> 0] /\ fired = {} /\ zeroRuns = 0
    /\ tasks = LET initial == [for |-> 0, since |-> 1, cycle |-> 0]
               IN  [pre |-> initial, post |-> initial]
    /\ pc = "idle" /\ entered = "none"

AsyncIdle ==
    /\ now = 0 /\ wake = 0 /\ told = FALSE /\ askedIn = 0 /\ burst = 0
    /\ sm = [cur |-> 0, pending |-> NoCommand, nominal |-> 0, start |-> 0]

PartsInit ==
    \/ part = "settable" /\ Init /\ AsyncIdle /\ timeouts = 0
       /\ \A s \in State : graph.duration[s] \in ForcedDurations
       /\ graph.next[2][abort] = 1
    \/ part = "machine" /\ M!Init /\ AsyncIdle /\ timeouts = 0
    \/ part = "async" /\ A!AsyncInit /\ SyncIdle /\ timeouts = 0
       /\ graph.seqs = State
    \/ part = "graph" /\ SyncIdle /\ AsyncIdle /\ graph = (CHOOSE g \in Graphs : TRUE)
       /\ timeouts \in TimeoutGraphs

PartsNext ==
    /\ UNCHANGED <<part, timeouts>>
    /\ \/ part = "settable" /\ Next /\ UNCHANGED async
       \/ part = "machine" /\ M!Next /\ UNCHANGED async
       \/ part = "async" /\ A!AsyncNext /\ UNCHANGED syncVars
       \/ part = "graph" /\ UNCHANGED <<syncVars, async>>

\* The control loop dispatches the settable machine every cycle.
PartsSpec ==
    /\ PartsInit /\ [][PartsNext]_<<part, timeouts, syncVars, async>>
    /\ WF_syncVars(part = "settable" /\ Dispatch)

-----------------------------------------------------------------------------
\* What holds of a machine that is not forced.
UnforcedMachine ==
    /\ [](part = "machine" => M!EachPartRunsOnce /\ M!OnlyOwnSequencesRun)
    /\ [][part = "machine" => M!NoGapNoSquash]_syncVars

\* Commands from outside get in as long as the tasks issue none.
SettableLetsCommandsIn == part = "settable" => CommandsGetIn

\* The asynchronous machine: a dispatch asks for the next in time, and comes to an end.
AsyncIsCalledInTime == part = "async" => A!AsyncTypeOK /\ A!WakesInTime /\ A!BurstsEnd

(***************************************************************************)
(* validate_graph's depth-first search rejects a configuration exactly     *)
(* when some states that are too short to let a command in time out into   *)
(* each other for ever: no loop is missed because it is entered from       *)
(* outside or met after other states were explored, and no configuration   *)
(* is refused for two states that merely time out into the same one.       *)
(***************************************************************************)
CycleSearchIsExact ==
    part = "graph" =>
        \A allowSingleCycle \in BOOLEAN :
            G!ValidateGraph(timeouts, allowSingleCycle)
                <=> ~G!LoopsOnTimeouts(timeouts, allowSingleCycle)
=============================================================================
