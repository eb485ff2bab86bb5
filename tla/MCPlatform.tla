------------------------------ MODULE MCPlatform ------------------------------
(***************************************************************************)
(* The platform under the programs, a part in a behavior: descriptors and  *)
(* connections, signals, downloads, and the slate from its layout to the   *)
(* commands that set it.  The parts share nothing: a behavior runs one and *)
(* leaves the others as they begin.                                        *)
(***************************************************************************)
EXTENDS Integers, Sequences, FiniteSets

CONSTANTS
    Sinks, MaxFds, MaxVector,
    Conns, MaxLimit,
    TcpSize, MaxConnections, UdpSize, Groups,
    Handlers, MaxFunctions, MaxIds,
    Urls, FileSize, Rewind, Wrap, MaxRetries, Truncates,
    MaxAlignment, MaxOffset,
    Tokens, MaxTokenIds, MaxDefault, MaxBuilders, AutoReEnable,
    BuilderPaths, Shards, MaxMade,
    Static, MaxBatch

ASSUME PlatformAssumption ==
    /\ {2, 3} \subseteq Sinks /\ Sinks \subseteq Nat \ {0} /\ IsFiniteSet(Sinks)
    /\ {MaxFds, MaxVector, MaxLimit, MaxFunctions, MaxIds} \subseteq Nat
    /\ {MaxConnections, MaxRetries, MaxDefault, MaxBuilders} \subseteq Nat
    /\ TcpSize \in Nat /\ UdpSize \in Nat \ {0}
    /\ FileSize \in Nat /\ Rewind \in Nat /\ Wrap \in Nat \ {0}
    /\ MaxAlignment \in Nat /\ MaxOffset \in Nat /\ 4 <= MaxAlignment /\ MaxAlignment <= MaxOffset
    /\ IsFiniteSet(Tokens) /\ MaxTokenIds \in Nat
    /\ BuilderPaths \subseteq Seq(STRING)

VARIABLES
    part,
    bag, sinksOpen, collected, current, dispatching,
    listening, clients, clientsPending, maxClients, opened, asks, accepted, unseen, owners,
    wanted, sealed, tcpShut, tcpFes, tcpEvents, tcpInput, tcpOutput, peer, epoch,
    mode, conn, timer, udpShut, udpFes, udpEvents, udpInput, udpOutput, groups, stray,
    alive, owner, valid, slots, invalidators, records, next_id, pending_removal, it, calling, called,
    status, handle, retryPending, retries, url, fileOpen, file, cursor, received,
    resume, now, counted, sent, lost, fresh, missed, stuck,
    shard_size, free_list, placed, wasted, aborted,
    enabled, id, frames, first, next, valid_count, default_count, rootBuilders,
    builders, elements, held, built,
    names, values, last

bagVars == <<bag, sinksOpen, collected, current, dispatching>>
serverVars == <<listening, clients, clientsPending, maxClients, opened, asks, accepted, unseen, owners>>
tcpVars == <<wanted, sealed, tcpShut, tcpFes, tcpEvents, tcpInput, tcpOutput, peer, epoch>>
udpVars == <<mode, conn, timer, udpShut, udpFes, udpEvents, udpInput, udpOutput, groups, stray>>
signalVars == <<alive, owner, valid, slots, invalidators, records, next_id, pending_removal,
                it, calling, called>>
curlVars == <<status, handle, retryPending, retries, url, fileOpen, file, cursor, received,
              resume, now, counted, sent, lost, fresh, missed, stuck>>
layoutVars == <<shard_size, free_list, placed, wasted, aborted>>
tokenVars == <<enabled, id, frames, first, next, valid_count, default_count, rootBuilders>>
builderVars == <<builders, elements, held, built>>
commandVars == <<names, values, last>>

\* A sink the kernel cannot poll, and its eventfd.
F == INSTANCE FdBag WITH Standin <- [s \in {2} |-> 3], open <- sinksOpen
S == INSTANCE TcpServer WITH connections <- clients, pending <- clientsPending, max <- maxClients
T == INSTANCE TcpLink WITH Size <- TcpSize, shut <- tcpShut, fes <- tcpFes, events <- tcpEvents,
                           input <- tcpInput, output <- tcpOutput
U == INSTANCE UdpLink WITH Size <- UdpSize, shut <- udpShut, fes <- udpFes, events <- udpEvents,
                           input <- udpInput, output <- udpOutput
G == INSTANCE SignalSlots
D == INSTANCE CurlFileDownload WITH Size <- FileSize, pending <- retryPending, open <- fileOpen
\* Values of one, two and four bytes, a string of three, and two of more than
\* most of the shard and more than all of it.
Y == INSTANCE SlateLayout WITH Kinds <- {<<1, 1>>, <<2, 2>>, <<4, 4>>, <<3, 1>>, <<12, 1>>, <<17, 1>>},
                               elements <- placed
K == INSTANCE SlateTokens WITH MaxIds <- MaxTokenIds, builders <- rootBuilders
B == INSTANCE SlateBuilder WITH Paths <- BuilderPaths

\* Three names under each other: room for a mask, one above it and one below it.
MCBuilderPaths == {<<"a">>, <<"a", "b">>, <<"a", "b", "c">>}

MCElements == {"mode", "gain", "limit"}
MCType == [mode |-> "uint32", gain |-> "float", limit |-> "int64"]
\* A validator that does not take 1 back, and two that look at the new value only.
MCRejected ==
    [mode |-> {<<1, 0>>}, gain |-> (0..5) \X {3}, limit |-> (-3..5) \X {-3, -2, -1, 5}]
MCCommand(type, name, value) == [type |-> type, name |-> name, value |-> value]

\* Numbers in and out of bounds, one that sets the upper bits, one that a validator
\* rejects, one of the wrong type, and an element under its two names.
MCCommands ==
    {MCCommand("Int", <<"mode", "relative">>, 1),  MCCommand("Int", <<"mode", "full">>, -1),
     MCCommand("Dbl", <<"mode", "relative">>, 1),  MCCommand("Dbl", <<"gain", "relative">>, 2),
     MCCommand("Dbl", <<"gain", "relative">>, 4),  MCCommand("Int", <<"limit", "relative">>, 2),
     MCCommand("Int", <<"limit", "relative">>, -1)}

C == INSTANCE SlateCommands WITH Elements <- MCElements, Type <- MCType,
                                 Rejected <- MCRejected, Commands <- MCCommands

-----------------------------------------------------------------------------
Parts == {"bag", "server", "tcp", "udp", "signal", "curl", "layout", "tokens", "builder", "commands"}

\* Where a part may begin in several ways, it does when it is the one that runs.
PartsInit ==
    /\ part \in Parts
    /\ F!Init /\ S!Init /\ T!Init /\ U!Init /\ G!Init /\ D!Init
    /\ Y!Init /\ K!Init /\ B!Init /\ C!Init
    /\ part # "server" => maxClients = 1
    /\ part # "udp" => ~mode.low /\ ~mode.latest
    /\ part # "curl" => fileOpen /\ url = CHOOSE u \in Urls : TRUE
    /\ part # "commands" => names = MCElements \X {"relative"}

IoNext ==
    \/ part = "bag" /\ F!Next
       /\ UNCHANGED <<serverVars, tcpVars, udpVars, signalVars, curlVars>>
    \/ part = "server" /\ S!Next
       /\ UNCHANGED <<bagVars, tcpVars, udpVars, signalVars, curlVars>>
    \/ part = "tcp" /\ T!Next
       /\ UNCHANGED <<bagVars, serverVars, udpVars, signalVars, curlVars>>
    \/ part = "udp" /\ U!Next
       /\ UNCHANGED <<bagVars, serverVars, tcpVars, signalVars, curlVars>>
    \/ part = "signal" /\ G!Next
       /\ UNCHANGED <<bagVars, serverVars, tcpVars, udpVars, curlVars>>
    \/ part = "curl" /\ D!Next
       /\ UNCHANGED <<bagVars, serverVars, tcpVars, udpVars, signalVars>>

SlateNext ==
    \/ part = "layout" /\ Y!Next /\ UNCHANGED <<tokenVars, builderVars, commandVars>>
    \/ part = "tokens" /\ K!Next /\ UNCHANGED <<layoutVars, builderVars, commandVars>>
    \/ part = "builder" /\ B!Next /\ UNCHANGED <<layoutVars, tokenVars, commandVars>>
    \/ part = "commands" /\ C!Next /\ UNCHANGED <<layoutVars, tokenVars, builderVars>>

PartsNext ==
    /\ UNCHANGED part
    /\ \/ IoNext /\ UNCHANGED <<layoutVars, tokenVars, builderVars, commandVars>>
       \/ SlateNext /\ UNCHANGED <<bagVars, serverVars, tcpVars, udpVars, signalVars, curlVars>>

PartsSpec == PartsInit /\ [][PartsNext]_<<part, bagVars, serverVars, tcpVars, udpVars, signalVars, curlVars,
                             layoutVars, tokenVars, builderVars, commandVars>>

-----------------------------------------------------------------------------
\* The variables of every part keep their types.
TypesOK ==
    /\ part = "bag" => F!TypeOK
    /\ part = "server" => S!TypeOK
    /\ part = "tcp" => T!TypeOK
    /\ part = "udp" => U!TypeOK
    /\ part = "signal" => G!TypeOK
    /\ part = "curl" => D!TypeOK
    /\ part = "layout" => Y!TypeOK
    /\ part = "tokens" => K!TypeOK
    /\ part = "builder" => B!TypeOK
    /\ part = "commands" => C!TypeOK

\* The lists of descriptors and of connections hold what is open, and nothing else.
ListsAreExact ==
    /\ part = "bag" => F!RegistryIsExact /\ F!CollectedAreAlive
    /\ part = "server" => S!HeldOnce /\ S!AllDisconnectIsTold

\* A connection whose socket is lost comes back, whole and without what was left of the old one.
LinksComeBackClean ==
    /\ part = "tcp" => T!StreamsDoNotMix /\ T!NothingStalls
    /\ part = "udp" => U!LostSocketComesBack /\ U!GroupsSurvive /\ U!NothingStalls /\ U!FreshOnly

\* What a signal calls lives, and is called once.
SlotsAreCalledOnce ==
    /\ [](part = "signal" => G!NeverCallsTheDead)
    /\ [][part = "signal" => G!EachIsCalledOnce]_signalVars

\* A download that succeeds is the file, and one in progress has something going on.
DownloadsEndWell == part = "curl" => D!SuccessIsTheFile /\ D!ProgressHasACause

\* No slate is built in which a token is unbound or two elements overlap.
SlateIsWhole ==
    /\ part = "layout" => Y!LayoutIsSound
    /\ part = "tokens" => K!NoTokenEscapes

\* The rights that an element's creator gave, or masked, are kept.
RightsAreKept == part = "builder" => B!NobodyElevates /\ B!MasksBelowAreKept

\* A batch of commands for different elements sets all of them or none.
BatchIsAllOrNothing == [][part = "commands" => C!DistinctBatchIsAtomic]_commandVars
=============================================================================
