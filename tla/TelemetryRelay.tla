---------------------------- MODULE TelemetryRelay ----------------------------
(***************************************************************************)
(* The telemetry relay from its config file to its flows.  The file is     *)
(* parsed a line at a time into flow descriptions; the control half        *)
(* creates the slate elements that gate and steer them, the runtime half   *)
(* the flows and their connections; writers claim the flows; then the      *)
(* configuration is final.  TelemetryRelayFlow, the connections and the    *)
(* directories are not in the tree: a connection is where it leads to.     *)
(***************************************************************************)
EXTENDS Integers, Sequences, FiniteSets, FiniteSetsExt, SequencesExt

CONSTANTS
    Ids, Hosts,   \* telemetry ids and service names
    NumAlt,       \* num_alt_destinations
    MaxLines      \* bound on the lines of the file

FlowNames == {"", "n"}
HostLists == SeqOf(Hosts, 2) \ {<<>>}

VARIABLES
    parser,      \* [at: the line expected, info: the flow being read, flows, lines]
    aggregate,   \* should_aggregate_destination_connections
    override,    \* a master override address is set
    redirects,   \* the services of service_redirects
    state,       \* is_initialized and is_finalized, or "failed"
    conns,       \* the connections of a flow by destination; NumAlt + 1 is the disabled one
    valid,       \* dest_validity of the validators made
    destination, \* of the flows, in the slate
    claimed,     \* claimed_ids
    writers      \* the flows a writer writes to

vars == <<parser, aggregate, override, redirects, state, conns, valid, destination, claimed, writers>>
file == <<parser, aggregate, override, redirects>>
relay == <<conns, valid, destination, claimed, writers>>

Destinations == 0..NumAlt
Disabled == NumAlt + 1

Blank(id) ==
    [id |-> id, annotated |-> FALSE, name |-> "", extra |-> FALSE,
     hosts |-> [d \in 0..Disabled |-> <<>>]]

Init ==
    /\ parser = [at |-> "flow", info |-> Blank(CHOOSE i \in Ids : TRUE), flows |-> <<>>, lines |-> 0]
    /\ aggregate \in BOOLEAN
    /\ override = FALSE /\ redirects = {}
    /\ state = "new"
    /\ conns = [i \in Ids |-> [d \in 0..Disabled |-> <<>>]]
    /\ valid = [i \in Ids |-> {0}]
    /\ destination = [i \in Ids |-> 0]
    /\ claimed = {} /\ writers = {}

-----------------------------------------------------------------------------
(* parse_file.  A line that is not as expected fails the start-up.         *)

info == parser.info
Reading == state = "new" /\ parser.at # "done" /\ parser.lines < MaxLines

GoOn(at, flow) ==
    /\ parser' = [parser EXCEPT !.at = at, !.info = flow, !.lines = @ + 1]
    /\ UNCHANGED <<aggregate, override, redirects, state, relay>>

BadLine == state' = "failed" /\ UNCHANGED <<file, relay>>

NoRepeats(hosts) == IsInjective(hosts)

\* parse_header_line, after the flow before it, if any, is stored.
ParseHeader(id) ==
    /\ Reading /\ parser.at \in {"flow", "options", "rest"}
    /\ parser' = [parser EXCEPT !.at = "type", !.info = Blank(id), !.lines = @ + 1,
                                !.flows = IF parser.at = "flow" THEN @ ELSE Append(@, info)]
    /\ UNCHANGED <<aggregate, override, redirects, state, relay>>

ParseType(annotated) ==
    /\ Reading /\ parser.at = "type"
    /\ GoOn("destination", [info EXCEPT !.annotated = annotated])

ParseDestination(hosts) ==
    /\ Reading /\ parser.at = "destination"
    /\ IF NoRepeats(hosts) THEN GoOn("options", [info EXCEPT !.hosts[0] = hosts]) ELSE BadLine

Bug_ParseDisabled(hosts) ==
    /\ Reading /\ parser.at = "options"
    /\ IF NoRepeats(hosts)
         THEN GoOn("options", [info EXCEPT !.hosts[Disabled] = @ \o hosts])
         ELSE BadLine

\* parse_disabled_destination_line: excluded by an alternative.
ParseDisabled(hosts) ==
    /\ Reading /\ parser.at = "options"
    /\ IF NoRepeats(hosts) /\ \A d \in 1..NumAlt : info.hosts[d] = <<>>
         THEN GoOn("options", [info EXCEPT !.hosts[Disabled] = @ \o hosts])
         ELSE BadLine

\* parse_alt_destination_lines: excluded by a disabled destination.
ParseAlternative(d, hosts) ==
    /\ Reading /\ parser.at = "options"
    /\ IF NoRepeats(hosts) /\ d \in 1..NumAlt /\ info.hosts[Disabled] = <<>>
         THEN GoOn("options", [info EXCEPT !.hosts[d] = @ \o hosts])
         ELSE BadLine

\* parse_name_line.
ParseName(name) ==
    /\ Reading /\ parser.at = "options"
    /\ GoOn("options", [info EXCEPT !.name = name])

\* parse_bandwidth_line, and the others whose values steer nothing here: a
\* timeout, a buffer, flags, a source.
ParseBandwidth(good) ==
    /\ Reading /\ parser.at = "options"
    /\ IF good THEN GoOn("options", info) ELSE BadLine

\* The options of annotated datagrams only.
ParseAnnotation ==
    /\ Reading /\ parser.at = "options"
    /\ IF info.annotated THEN GoOn("options", info) ELSE BadLine

\* The first line that is no option: it and all up to the next flow, options
\* too, are kept as they are.
ParseRest ==
    /\ Reading /\ parser.at \in {"options", "rest"}
    /\ GoOn("rest", [info EXCEPT !.extra = TRUE])

\* Anything else where a header, type or destination must be.
ParseUnexpected ==
    /\ Reading /\ parser.at \in {"flow", "type", "destination"}
    /\ BadLine

\* The file ends; a flow needs three lines.
EndOfFile ==
    /\ state = "new" /\ parser.at # "done"
    /\ IF parser.at \in {"type", "destination"} THEN BadLine
       ELSE /\ parser' = [parser EXCEPT !.at = "done",
                                        !.flows = IF parser.at = "flow" THEN @ ELSE Append(@, info)]
            /\ UNCHANGED <<aggregate, override, redirects, state, relay>>

-----------------------------------------------------------------------------
(* The two halves, from the same flows.                                    *)

Flows == Range(parser.flows)
Known == {f.id : f \in Flows}
HasAlt(f) == \E d \in 1..NumAlt : f.hosts[d] # <<>>
IsGated(f) == f.hosts[Disabled] # <<>>

\* TelemetryRelayControl::init_internal: which destinations may be chosen.
Validity(f) == {0} \cup {d \in 1..NumAlt : f.hosts[d] # <<>>}

ControlAccepts ==
    \A i, j \in DOMAIN parser.flows :
        i # j /\ parser.flows[i].name = parser.flows[j].name => parser.flows[i].name = ""

Bug_FlowAccepted(f) == IsGated(f) \/ HasAlt(f) => f.name # ""

\* create_flows' checks of a flow: as many hosts one way as the other.
FlowAccepted(f) ==
    /\ IsGated(f) \/ HasAlt(f) => f.name # ""
    /\ \A d \in 1..Disabled : f.hosts[d] # <<>> => Len(f.hosts[d]) = Len(f.hosts[0])

RuntimeAccepts ==
    /\ \A f \in Flows : FlowAccepted(f)
    /\ \A i, j \in DOMAIN parser.flows : parser.flows[i].id = parser.flows[j].id => i = j

\* get_connection, once the service is found: a redirected service goes there, whatever the override.
Leads(h) == IF h \in redirects THEN "redirected" ELSE IF override THEN "override" ELSE h

\* The connections of a flow to hosts: one each, or, when aggregated, one to
\* each host that is shared with the other flows.
Connect(hosts) ==
    IF aggregate THEN [i \in 1..Cardinality(Range(hosts)) |-> Leads(SetToSeq(Range(hosts))[i])]
    ELSE [i \in DOMAIN hosts |-> Leads(hosts[i])]

\* TelemetryRelay::init, both halves.  It fails as well when a service of some
\* flow is not in the directory, or no socket opens to it.
InitRelay ==
    /\ state = "new" /\ parser.at = "done"
    /\ \/ /\ ControlAccepts /\ RuntimeAccepts
          /\ state' = "initialized"
          /\ LET at(i) == CHOOSE f \in Flows : f.id = i
             IN  /\ conns' = [i \in Ids |-> IF i \in Known
                                THEN [d \in 0..Disabled |-> Connect(at(i).hosts[d])] ELSE conns[i]]
                 /\ valid' = [i \in Ids |-> IF i \in Known THEN Validity(at(i)) ELSE valid[i]]
       \/ /\ Known # {} \/ ~(ControlAccepts /\ RuntimeAccepts)
          /\ state' = "failed"
          /\ UNCHANGED <<conns, valid>>
    /\ UNCHANGED <<file, destination, claimed, writers>>

OverrideAddresses ==
    /\ state = "new" /\ ~override /\ parser.lines = 0
    /\ override' = TRUE
    /\ UNCHANGED <<parser, aggregate, redirects, state, relay>>

RedirectService(h) ==
    /\ state = "new" /\ h \notin redirects /\ parser.lines = 0
    /\ redirects' = redirects \cup {h}
    /\ UNCHANGED <<parser, aggregate, override, state, relay>>

\* claim: the id is marked first; an unknown one, or one whose writer does
\* not take the flow, stays marked.
Claim(id, taken) ==
    /\ state = "initialized" /\ id \notin claimed
    /\ claimed' = claimed \cup {id}
    /\ writers' = IF id \in Known /\ taken THEN writers \cup {id} ELSE writers
    /\ UNCHANGED <<file, state, conns, valid, destination>>

\* Refused while a flow is not claimed, and by the smoketest when another relay
\* of the node has one of the ids.  The relay stays as it is.
Finalize(others) ==
    /\ state = "initialized"
    /\ state' = IF Known \subseteq claimed /\ claimed \cap others = {} THEN "finalized" ELSE state
    /\ UNCHANGED <<file, relay>>

\* A command to the flow's "destination" element, through its validator; an
\* element exists only for flows with alternatives.
Bug_SetDestination(id, d) ==
    /\ state \in {"initialized", "finalized"}
    /\ destination' = [destination EXCEPT ![id] = d]
    /\ UNCHANGED <<file, state, conns, valid, claimed, writers>>

SetDestination(id, d) ==
    /\ state \in {"initialized", "finalized"} /\ d \in valid[id] /\ valid[id] # {0}
    /\ destination' = [destination EXCEPT ![id] = d]
    /\ UNCHANGED <<file, state, conns, valid, claimed, writers>>

Next ==
    \/ \E id \in Ids : ParseHeader(id)
    \/ \E b \in BOOLEAN : ParseType(b) \/ ParseBandwidth(b)
    \/ \E hosts \in HostLists : ParseDestination(hosts) \/ ParseDisabled(hosts)
    \/ \E d \in Destinations, hosts \in HostLists : ParseAlternative(d, hosts)
    \/ \E name \in FlowNames : ParseName(name)
    \/ ParseAnnotation \/ ParseRest \/ ParseUnexpected \/ EndOfFile
    \/ InitRelay \/ OverrideAddresses
    \/ \E others \in SUBSET Ids : Finalize(others)
    \/ \E h \in Hosts : RedirectService(h)
    \/ \E id \in Ids, taken \in BOOLEAN : Claim(id, taken)
    \/ \E id \in Ids, d \in Destinations : SetDestination(id, d)

Spec == Init /\ [][Next]_vars

-----------------------------------------------------------------------------
TypeOK ==
    /\ parser.at \in {"flow", "type", "destination", "options", "rest", "done"}
    /\ parser.lines \in 0..MaxLines
    /\ state \in {"new", "initialized", "finalized", "failed"}
    /\ conns \in [Ids -> [0..Disabled -> Seq(Hosts \cup {"override", "redirected"})]]
    /\ valid \in [Ids -> SUBSET Destinations] /\ destination \in [Ids -> Destinations]
    /\ writers \subseteq claimed /\ claimed \subseteq Ids

Up == state \in {"initialized", "finalized"}

(***************************************************************************)
(* Whatever a flow's destination is set to, the flow has connections       *)
(* there, though one half of the relay makes the element and its validator *)
(* and the other the connections ("we can't accidentally set destination   *)
(* to the wrong value"); and nothing is steered by two elements.           *)
(***************************************************************************)
DestinationIsServed ==
    Up => \A f \in Flows :
        /\ conns[f.id][destination[f.id]] # <<>>
        /\ ~(IsGated(f) /\ HasAlt(f))

(***************************************************************************)
(* A flow sends as many packets whichever way it is switched ("This keeps  *)
(* network utilization consistent"), shared connections or not, unless the *)
(* file names a host twice for one destination on two lines.               *)
(***************************************************************************)
NetworkUseIsSteady ==
    Up => \A f \in Flows, d \in 1..Disabled :
        f.hosts[d] # <<>> /\ IsInjective(f.hosts[d]) => Len(conns[f.id][d]) = Len(conns[f.id][0])
=============================================================================
