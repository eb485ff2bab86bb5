---------------------------- MODULE SlateCombiner ----------------------------
(***************************************************************************)
(* One SlateCombiner: the source slates that SlateSharerReceivers fill,    *)
(* the freshness metrics, and the combined slate the control code reads.   *)
(*                                                                         *)
(* The receivers are not in the tree; Receive is what the combiner sees of *)
(* them, a new freshness value and a new record in one source's slate.     *)
(* Freshness is modelled per source and may be anything: a repeated        *)
(* number, an older one, or SeqDefault from a proxy sender.                *)
(***************************************************************************)
EXTENDS CombinerVote

VARIABLES
    fresh,             \* fresh_tok of each source
    data,              \* the record in each source slate
    freshLast,         \* fresh_last_tok
    freshAge,          \* fresh_age_tok
    connected,         \* connected_tok
    combinedConnected, \* combined_connected_tok
    out,               \* the combined slate
    downselect         \* copy one source wholesale instead of a median; set by init

vars == <<fresh, data, freshLast, freshAge, connected, combinedConnected, out,
          downselect>>

TypeOK ==
    /\ fresh \in [Source -> FreshReading]
    /\ data \in [Source -> Record]
    /\ freshLast \in [Source -> Freshness \cup {SeqDefault}]
    /\ freshAge \in [Source -> 0..StaleThreshold]
    /\ connected \in [Source -> BOOLEAN]
    /\ combinedConnected \in BOOLEAN
    /\ out \in Record
    /\ downselect \in BOOLEAN

ConnectedSources == {s \in Source : connected[s]}

(***************************************************************************)
(* source_t::init starts every age at the threshold, so that no source is  *)
(* connected before its first message.                                     *)
(***************************************************************************)
Init ==
    /\ fresh = [s \in Source |-> 0]
    /\ \E d \in Record : data = [s \in Source |-> d] /\ out = d
    /\ freshLast = [s \in Source |-> SeqDefault]
    /\ freshAge = [s \in Source |-> StaleThreshold]
    /\ connected = [s \in Source |-> FALSE]
    /\ combinedConnected = FALSE
    /\ downselect \in BOOLEAN

Receive(s, f, d) ==
    /\ fresh' = [fresh EXCEPT ![s] = f]
    /\ data' = [data EXCEPT ![s] = d]
    /\ UNCHANGED <<freshLast, freshAge, connected, combinedConnected, out, downselect>>

(***************************************************************************)
(* validate_and_combine: refresh every source's metrics, then vote.        *)
(***************************************************************************)
Combine(accepted) ==
    LET last(s) == freshLast[s]
        age(s)  == NextAge(fresh[s], freshLast[s], freshAge[s], accepted)
        live    == {s \in Source : Fresh(age(s))}
    IN  /\ UNCHANGED <<fresh, data, downselect>>
        /\ freshLast' = [s \in Source |-> NextLast(fresh[s], last(s), accepted)]
        /\ freshAge' = [s \in Source |-> age(s)]
        /\ connected' = [s \in Source |-> s \in live]
        /\ combinedConnected' = (live # {})
        /\ out' = Vote(data, live, out, downselect)

Next ==
    \/ \E s \in Source, f \in Freshness \cup {SeqDefault}, d \in Record : Receive(s, f, d)
    \/ \E accepted \in Freshness \cup {AnySequence} : Combine(accepted)

Spec == Init /\ [][Next]_vars

-----------------------------------------------------------------------------
(* What a cycle's vote promises the control code.                          *)

CombineStep == \E accepted \in Freshness \cup {AnySequence} : Combine(accepted)

(***************************************************************************)
(* Nothing enters the combined slate but what a source connected on this   *)
(* very cycle holds; with none connected the outputs are left alone        *)
(* ("If no inputs are fresh then no outputs will be updated").             *)
(***************************************************************************)
OutputTracesToConnected ==
    [][CombineStep =>
        IF ConnectedSources' = {}
        THEN out' = out
        ELSE \A e \in Element : \E s \in ConnectedSources' : out'[e] = data[s][e]]_vars

(***************************************************************************)
(* While all three sources are connected, whichever one of them is wrong,  *)
(* each element's median lies between what the other two say.              *)
(***************************************************************************)
OneFaultIsBounded ==
    [][(CombineStep /\ Cardinality(ConnectedSources') = 3 /\ ~downselect) =>
        \A s, t \in Source : s # t => \A e \in Element :
            /\ Min2(data[s][e], data[t][e]) <= out'[e]
            /\ out'[e] <= Max2(data[s][e], data[t][e])]_vars

(***************************************************************************)
(* What a disconnected source last said has no influence on the vote, not  *)
(* even as a tie-breaker.                                                  *)
(***************************************************************************)
DisconnectedHasNoSay ==
    [][CombineStep =>
        \A s \in Source \ ConnectedSources', r \in Record :
            out' = Vote([data EXCEPT ![s] = r], ConnectedSources', out, downselect)]_vars

(***************************************************************************)
(* Downselect copies one source wholesale: the combined record is never a  *)
(* mixture ("tearing") of two sources' elements.                           *)
(***************************************************************************)
NeverTears ==
    [][(CombineStep /\ downselect /\ ConnectedSources' # {}) =>
        \E s \in ConnectedSources' : out' = data[s]]_vars

(***************************************************************************)
(* When two or more connected sources are exactly equal they win, and      *)
(* "if there is not a clear majority (two or more exactly equal            *)
(* sources), then the first connected source will always be used".         *)
(***************************************************************************)
DownselectFollowsMajority ==
    [][(CombineStep /\ downselect /\ ConnectedSources' # {}) =>
        LET agreeing == {s \in ConnectedSources' :
                            \E t \in ConnectedSources' \ {s} : data[s] = data[t]}
        IN  out' = data[Lowest(IF agreeing = {} THEN ConnectedSources' ELSE agreeing)]]_vars
=============================================================================
