------------------------------- MODULE MCGround -------------------------------
(***************************************************************************)
(* Programs on the ground, a part in a behavior: a poller of remote calls, *)
(* the choice of the endpoint it calls, the monitor that starts it over    *)
(* when contact is back, the telemetry relay, a table of names, and the    *)
(* map and the sort of the drone's utilities.                              *)
(***************************************************************************)
EXTENDS MCGrpcPoller, Sequences, TLC

CONSTANTS Targets, MaxTargets, Cooldown,
          Aos, Thresholds, Step, Renewed, MaxAge,
          Ids, Hosts, NumAlt, MaxLines,
          Tables, Names, Ints, Files,
          Wide, Keys, Values, Home, Slots, Lanes, Bucket, Capacity,
          Base, Sizes, MaxLength

\* A threshold below aos_threshold is not among the commanded ones.
ASSUME GroundAssumption ==
    /\ MaxTargets \in Nat \ {0} /\ Cooldown \in Nat
    /\ Aos \in Nat /\ Step \in Nat /\ MaxAge \in Nat /\ Renewed \subseteq 0..MaxAge
    /\ \A t \in Thresholds : t \in Nat /\ (t = 0 \/ t >= Aos)
    /\ Ids # {} /\ {NumAlt, MaxLines} \subseteq Nat

VARIABLES
    part,
    dns, override, index, last, sinceCreated, quiet, failed,
    contactAge, threshold, retry_on_connection, signals,
    parser, aggregate, masterOverride, redirects, state, conns, valid, destination, claimed, writers,
    toInt, toString, first,
    keys, values, size, inserted, strayed,
    kind, digits, input, array, scratch, iByte, phase

E == INSTANCE GrpcEndpoint WITH age <- sinceCreated
S == INSTANCE AosMonitor WITH Period <- Step, age <- contactAge, retry <- retry_on_connection
R == INSTANCE TelemetryRelay WITH override <- masterOverride
N == INSTANCE SymbolTable
H == INSTANCE FastMap
O == INSTANCE FastSort

\* A file that gives a name twice, and an integer two names.
MCFiles == {<< <<"a", "i1">>, <<"b", "i1">>, <<"a", "i2">> >>}

\* Keys that collide and go on to the next bucket, one that is not aligned and
\* runs into them, and one whose load goes past the end, as the fourth's second.
MCHome == (1 :> 4) @@ (2 :> 4) @@ (3 :> 4) @@ (4 :> 3) @@ (5 :> 7)

\* Hashes are slots, and half of the numbers that are sorted are negative.
ASSUME TablesAssumption ==
    /\ Files \subseteq Seq(Names \X Ints) /\ N!Missing \notin Names \cup Ints
    /\ IsFiniteSet(Keys) /\ Wide \in Nat \ {0}
    /\ Keys \subseteq 0..(Wide - 2) /\ Values \subseteq 0..(Wide - 1)
    /\ {Slots, Lanes, Bucket} \subseteq Nat \ {0} /\ Lanes <= Slots /\ Capacity \in Nat
    /\ Home \in [Keys -> 0..(Slots - 1)]
    /\ Base \in Nat \ {0} /\ Base % 2 = 0 /\ Sizes \subseteq Nat \ {0} /\ MaxLength \in Nat

pollerVars == vars
endpointVars == <<dns, override, index, last, sinceCreated, quiet, failed>>
monitorVars == <<contactAge, threshold, retry_on_connection, signals>>
relayVars == <<parser, aggregate, masterOverride, redirects, state, conns, valid, destination,
               claimed, writers>>
symbolVars == <<toInt, toString, first>>
mapVars == <<keys, values, size, inserted, strayed>>
sortVars == <<kind, digits, input, array, scratch, iByte, phase>>

\* Where a part may begin in several ways, it does when it is the one that runs.
PartsInit ==
    /\ part \in {"poller", "endpoint", "monitor", "relay", "symbols", "map", "sort"}
    /\ Init /\ (part # "poller" => policy = CHOOSE p \in Policies : p.period > 0)
    /\ E!Init /\ (part # "endpoint" => Len(dns) = 1 /\ dns[1] = CHOOSE t \in Targets : TRUE)
    /\ S!Init /\ (part # "monitor" => contactAge = 0 /\ threshold = 0)
    /\ R!Init /\ (part # "relay" => ~aggregate)
    /\ N!Init
    /\ H!Init /\ (part # "map" => values[0] = CHOOSE v \in Values : TRUE)
    /\ O!Init /\ (part # "sort" => kind = "unsigned" /\ digits = 1 /\ input = <<>>)

PartsNext ==
    /\ UNCHANGED part
    /\ \/ /\ part = "poller" /\ Next
          /\ UNCHANGED <<endpointVars, monitorVars, relayVars, symbolVars, mapVars, sortVars>>
       \/ /\ part = "endpoint" /\ E!Next
          /\ UNCHANGED <<pollerVars, monitorVars, relayVars, symbolVars, mapVars, sortVars>>
       \/ /\ part = "monitor" /\ S!Next
          /\ UNCHANGED <<pollerVars, endpointVars, relayVars, symbolVars, mapVars, sortVars>>
       \/ /\ part = "relay" /\ R!Next
          /\ UNCHANGED <<pollerVars, endpointVars, monitorVars, symbolVars, mapVars, sortVars>>
       \/ /\ part = "symbols" /\ N!Next
          /\ UNCHANGED <<pollerVars, endpointVars, monitorVars, relayVars, mapVars, sortVars>>
       \/ /\ part = "map" /\ H!Next
          /\ UNCHANGED <<pollerVars, endpointVars, monitorVars, relayVars, symbolVars, sortVars>>
       \/ /\ part = "sort" /\ O!Next
          /\ UNCHANGED <<pollerVars, endpointVars, monitorVars, relayVars, symbolVars, mapVars>>

On(p, A) == part = p /\ A

\* The fairness of the poller.
PartsSpec ==
    /\ PartsInit
    /\ [][PartsNext]_<<part, pollerVars, endpointVars, monitorVars, relayVars, symbolVars,
                       mapVars, sortVars>>
    /\ WF_pollerVars(On("poller", Dispatch)) /\ WF_pollerVars(On("poller", Complete))
    /\ WF_pollerVars(On("poller", Worker)) /\ WF_pollerVars(On("poller", Ended))
    /\ WF_pollerVars(On("poller", Tick))

-----------------------------------------------------------------------------
\* The variables of every part keep their types.
TypesOK ==
    /\ part = "poller" => TypeOK
    /\ part = "endpoint" => E!TypeOK
    /\ part = "monitor" => S!TypeOK
    /\ part = "relay" => R!TypeOK
    /\ part = "symbols" => N!TypeOK
    /\ part = "map" => H!TypeOK
    /\ part = "sort" => O!TypeOK

\* A poller that is enabled stays scheduled, calls again, and at once when asked to.
PollingGoesOn ==
    /\ []EnabledIsScheduled
    /\ part = "poller" => KeepsPolling
    /\ part = "poller" => AskedIsServed

\* Calls fail over to every target, and are started over once when contact is back.
ContactIsUsed == E!EveryTargetGetsATurn /\ S!OneSignalPerOutage

\* Wherever a flow is switched to, it is served there, by as many packets.
FlowsAreServed == part = "relay" => R!DestinationIsServed /\ R!NetworkUseIsSteady

\* Names resolve, keys are found, arrays are sorted.
TablesAnswer ==
    /\ part = "symbols" => N!NamesResolve
    /\ part = "map" => H!FindsWhatWasInserted
    /\ part = "sort" => O!SortsTheArray
=============================================================================
