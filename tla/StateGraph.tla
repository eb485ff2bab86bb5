----------------------------- MODULE StateGraph -----------------------------
(***************************************************************************)
(* The configuration of a StateMachine, read once from its .state files:   *)
(* which state each command leads to, which states run event sequences and *)
(* for how long; and the checks that configuration passes before a state   *)
(* machine runs on it.                                                     *)
(***************************************************************************)
EXTENDS Naturals, FiniteSets

CONSTANTS
    NumStates,  \* state.size(); state 0 is the initial state
    Command,    \* the indices of the command table, noop left out
    Timeout,    \* timeout_cmd, issued when a state's sequences end
    Period,     \* transition_period
    Durations   \* how long the sequences of a state may last

ASSUME GraphAssumption ==
    /\ NumStates \in Nat \ {0}
    /\ Timeout \in Command
    /\ Period \in Nat \ {0}
    /\ Durations \subseteq Nat

State == 0..NumStates - 1

\* The two largest uints: above every state number, ignore_state below undefined_state.
ignore_state == NumStates
undefined_state == NumStates + 1

Action == State \cup {ignore_state, undefined_state}

Graph == [next     : [State -> [Command -> Action]],  \* ControlState::cmds
          seqs     : SUBSET State,                    \* ControlState::seqs not empty
          duration : [State -> Durations]]

-----------------------------------------------------------------------------
(* validate_graph and search_for_cycle.                                    *)

\* A state that times out into another state before a dispatch leaves it idle.
Bug_Dangerous(g, allowSingleCycle) ==
    {s \in g.seqs : g.duration[s] < Period /\ g.next[s][Timeout] < NumStates}

Dangerous(g, allowSingleCycle) ==
    {s \in g.seqs :
        /\ \/ g.duration[s] < Period
           \/ ~allowSingleCycle /\ g.duration[s] = Period
        /\ g.next[s][Timeout] < NumStates}

(***************************************************************************)
(* search_for_cycle follows the timeouts from start through dangerous      *)
(* states: path holds the states in progress.  It answers the states       *)
(* explored when it returns and whether it came back to one in progress.   *)
(***************************************************************************)
Bug_SearchForCycle(g, dangerous, explored, start) ==
    LET walk[from \in [at : State, path : SUBSET State]] ==
            LET here == from.path \cup {from.at}
                to   == g.next[from.at][Timeout]
            IN  IF from.at \notin dangerous
                  THEN [explored |-> explored \cup here, cycle |-> FALSE]
                ELSE IF to \in here \cup explored
                  THEN [explored |-> explored \cup from.path, cycle |-> TRUE]
                ELSE walk[[at |-> to, path |-> here]]
    IN  walk[[at |-> start, path |-> {}]]

SearchForCycle(g, dangerous, explored, start) ==
    LET walk[from \in [at : State, path : SUBSET State]] ==
            LET here == from.path \cup {from.at}
                to   == g.next[from.at][Timeout]
            IN  IF from.at \notin dangerous
                  THEN [explored |-> explored \cup here, cycle |-> FALSE]
                ELSE IF to \in here
                  THEN [explored |-> explored \cup from.path, cycle |-> TRUE]
                ELSE IF to \in explored
                  THEN [explored |-> explored \cup here, cycle |-> FALSE]
                ELSE walk[[at |-> to, path |-> here]]
    IN  walk[[at |-> start, path |-> {}]]

\* validate_graph searches from each dangerous state not explored yet.
ValidateGraph(g, allowSingleCycle) ==
    LET dangerous == Dangerous(g, allowSingleCycle)
        after[n \in 0..NumStates] ==
            IF n = 0 THEN [explored |-> {}, cycle |-> FALSE]
            ELSE LET before == after[n - 1]
                     s      == n - 1
                 IN  IF before.cycle \/ s \notin dangerous \ before.explored
                       THEN before
                       ELSE SearchForCycle(g, dangerous, before.explored, s)
    IN  ~after[NumStates].cycle

\* What the search must answer: some dangerous states only time out into each other.
LoopsOnTimeouts(g, allowSingleCycle) ==
    \E loop \in SUBSET Dangerous(g, allowSingleCycle) :
        loop # {} /\ \A s \in loop : g.next[s][Timeout] \in loop

-----------------------------------------------------------------------------
(* What initialization demands of every state.                             *)

TimeoutIgnored(g, s) == g.next[s][Timeout] \in {ignore_state, undefined_state}

\* finalize_state_from_file: timeouts need a sequence; nothing leads back to state 0.
ParsesStates(g) ==
    \A s \in State :
        /\ ~TimeoutIgnored(g, s) => s \in g.seqs
        /\ \A c \in Command : g.next[s][c] # 0

\* set_initial_state: state 0 lasts no time, and its timeout excludes other commands.
ValidInitialState(g) ==
    /\ g.duration[0] = 0
    /\ ~TimeoutIgnored(g, 0) =>
           \A c \in Command \ {Timeout} : g.next[0][c] = undefined_state

\* SyncStateMachine::init_finalize.
ValidSyncGraph(g) ==
    /\ ValidateGraph(g, FALSE)
    /\ \A s \in g.seqs \ {0} :
           g.duration[s] < Period => ~(g.next[s][Timeout] < NumStates)
=============================================================================
