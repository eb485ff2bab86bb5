# A verification development of codon

codon is the flight software of a vehicle that is controlled by three redundant computers
("strings"). This directory models its core logic in TLA+, checks the models with TLC and proves
what matters most about them with TLAPS. Paths below are relative to the repository
(`src/` here); `M/` stands for `vehicle/src/bullwinkle/all/`, `FC/` for
`vehicle/src/flight/common/all/`, `SAT/` for `vehicle/src/flight/sat/all/flight-computer/`.

## 1. The system and its parts

Every string runs `FtRuntime::dispatch` once per control cycle. The strings start a cycle together
(FtSync), share their local inputs with each other, and each votes on all three strings' inputs
(`SlateCombiner`). What a string votes on and computes lives in its *sync shard* of the `Slate`. A
string runs control code (`BasicControl::dispatch_synced`) only while its sync shard equals a peer's
(the bootstrapper's decision); a string that fell out, or restarted, copies a peer's shard
(*hotsync*). Control code is a set of tasks configured by the `StateMachine`. Ground traffic comes
and goes through `GrpcPoller`/`GrpcClient`, whose worker threads talk to the single-threaded
`EventLoop` through `DeferredCallbackQueue`.

| part | state | operations | interacts with | hard behaviour |
|---|---|---|---|---|
| SlateCombiner (`M/SlateCombiner.cc`) | last freshness number, age, connected flag per source; combined slate | init, combine | receivers write its sources, control reads its output | stale and repeated numbers, wrap of the age, one bad source |
| FtRuntime, BasicControl (`FC/`, `DroneFtRuntime.cc`) | sync shard, synced flag, phase of the cycle | dispatch: early, share, check, synced, late | the peers' strings at the barriers | crash and restart between any two steps, missed messages, hotsync |
| StateMachine (`M/StateMachine.cc`) | state, pending command, running event sequences, tasks' configuration | handle_cmd, dispatch, force_state, validate_graph | control tasks command it from inside its own dispatch | transitions split over two dispatches, timeouts, loops of short states |
| DeferredCallbackQueue (`M/async/`) | vector under a mutex, eventfd | enqueue from threads, on_ready | gRPC workers, EventLoop | push and signal are two steps; callbacks enqueue callbacks |
| GrpcPoller, GrpcClient | schedule (next, last poll, last success), retries, outstanding call | dispatch, poll_asap, enable, disable, policy, async, worker, complete | DeferredCallbackQueue, gRPC | late answers, backoff, rate limit |
| Command link (CommandQueueClient, CommandPump, CommandSender) | accepted, rejected, send-failed numbers | pump_now, build_request, on_pump_response, send | GrpcPoller, the vehicle's command feedback | late answers of cancelled requests, repeated commands |
| gRPC endpoints (`gRPC_endpoint.cc`) | target index, last endpoint, when it was made | endpoint | GrpcClient, DNS and operator through the slate | failover, cooldown and return |
| AcquisitionOfSignalMonitor | signal owed | dispatch | ages and thresholds in the slate | values between two thresholds, disabled meanwhile |
| TelemetryRelay | parsed flows, connections, destinations, claims | parse_line, init, claim, finalize, dispatch | relay flows (not in the tree), operator | two halves that check one file separately |
| SlateCommandInterface, SymbolTable | names, values; tables in both directions | set, set_multi, init; load, copy, assign | Slate | all or nothing; copies of tables |
| Slate: layout, tokens, builder | shards, gaps; accountants of tokens; builders, masks, views | create, carve, build; bind, copy; sub_slate, bind, create, create_view | everybody | rights along chains of builders, tokens that die unbound, offsets at the limit |
| Signal, Handle | records of slots, functions, their handlers | connect, disconnect, clear, emit | everybody | disconnecting and destroying while emitting |
| FdBag, Server | registered descriptors, collected events; accepted and pending connections | attach, detach, close, dispatch; prune, accept, refuse, limit | EventLoop, connections | removal while events are dispatched |
| Channels and connections (`M/io/`) | buffers, sockets, timers, groups | read, write, connect, close, reconnect | FdBag | partial I/O, bytes of the old connection, sockets lost |
| CurlFileDownload | handle, file, counts | download, cancel, dispatch, callbacks | libcurl, FdBag | resume, retry, failed set-up |
| Ground utilities | lock word, hash table, array | lock, unlock; find, insert; sort | - | spurious failures, full tables, widths |
| DroneGncControl | last numbers, alarms | execute_synced | subsystems that are not in the tree | - |

The EventLoop, SlateSharer, SlateSyncer, FtSync, FtSimpleDataSharer, FtBootstrapper, ControlTask,
EventSequence, FdEventSink, TelemetryRelayFlow, gRPC and libcurl are not in the tree; they are
modelled, where needed, by what the code that uses them relies on, and marked external.

`PROJECT.json` lists the hazards of this code line by line with the properties that watch them.

## 2. Modules

| module | models | note |
|---|---|---|
| `CombinerVote` | freshness, connection and vote as operators | no state; used by the next two |
| `SlateCombiner` | one combiner with its sources | `MCSlateCombiner` adds the history of who spoke when |
| `FtStrings` | three strings running FtRuntime's cycle, each with its own combiner | composes `CombinerVote` with the cycle, crashes and lost messages |
| `StateGraph` | a state machine's configuration and its validation | `validate_graph`, `search_for_cycle` as functions |
| `SyncStateMachine` | `SyncStateMachine::dispatch`, command handling, `force_state` | runs on the configurations `StateGraph` accepts |
| `AsyncStateMachine` | `AsyncStateMachine::dispatch`, called when it asked to be, or earlier | same configurations |
| `CallbackFifo` | what DeferredCallbackQueue promises | abstract specification |
| `DeferredCallbackQueue` | enqueue and on_ready with mutex and eventfd | implements `CallbackFifo` |
| `GrpcPoller` | the poller, its client's one outstanding call, worker and completion | times relative to now |
| `GrpcEndpoint`, `AosMonitor` | which target the next call goes to; the signal when contact is back | |
| `CommandLink` | CommandPump, CommandQueueClient, CommandSender between the ground's queue and the vehicle | the poller as `GrpcPoller` shows it, ground and vehicle external |
| `TelemetryRelay` | both halves of the relay, from the lines of the file to the switched destination | |
| `SlateLayout`, `SlateTokens`, `SlateBuilder` | where elements are put; the accountant of tokens; rights | one each, they share no state the properties are about |
| `SlateCommands`, `SymbolTable` | setting elements by command, one or in a batch; names and integers | |
| `SignalSlots` | Signal, its functions and the handlers that die | |
| `FdBag`, `TcpServer` | the set of descriptors around a dispatch; a server's lists and limit | |
| `TcpLink`, `UdpLink` | a connection with its channel | |
| `CurlFileDownload` | one download with its retries | |
| `Lists` | `Filter`, what `remove_if` and `erase` leave of a list | used by `TcpServer` and `SignalSlots` |
| `SpinLock`, `FastMap`, `FastSort` | utilities of the drone's ground programs | |
| `CombinerVoteProofs` | lemmas about the vote, for the next two | |
| `SlateCombinerProofs`, `FtStringsProofs`, `SyncStateMachineProofs` | proofs about the module they are named after | |
| `SyncProofs`, `ThreadsProofs`, `GroundProofs`, `PlatformProofs` | proofs about the parts of `MCSync`, `MCThreads`, `MCGround` and `MCPlatform`, stated of the specification that the run checks | |
| `MC*` | constants for TLC; `MCSync`, `MCThreads`, `MCGround`, `MCPlatform` put several modules in a run | |

### SlateCombiner

`Receive` is external: whatever a SlateSharerReceiver may store, including a repeated number, an
older one or the proxy sender's default. `Combine(accepted)` is `validate_and_combine` as a whole:
refresh `freshLast`/`freshAge` of every source, decide `connected`, vote. Bins of the same type are
voted element by element, so the model votes on integers; downselect, which `init` sets for good, copies
one source.
`Receive` and `Combine` alternate freely, which covers any number of messages between two cycles.

### FtStrings

A string's `pc` is its place in `FtRuntime::dispatch`. `StartCycle` and `Exchange` are barriers
(FtSync; end of the reshare phase), everything between them is a step of one string: `Early` is
`dispatch_nonsynced_early` with the hotsync, `Check` the shard comparison and the bootstrapper,
`DispatchSynced` the control platform (receivers, combiner, control law), `Late` offers the shard.
`Crash` may strike in front of any step and `Restart` brings back a freshly built slate. The
fault assumption is the design's: one string at a time is failing (`faulty`), it may crash or miss
messages, and it counts as failing until it is synced again. The sharing itself, the comparison of shards and
the bootstrapper's decision are external (FtSimpleDataSharer, SlateSyncer, FtBootstrapper). `Hotsync` says
whether the program enables hotsync; without it `RejoinsEventually` promises nothing.

### SyncStateMachine

One dispatch is `BeginCycle` (pre tasks run), one of `NoTransition`, `WholeTransition`,
`CompletePartial`, then `RunSequences`, then (post tasks run) `EndCycle`. Between these steps the
tasks, and between dispatches the outside, may command the machine (`Commanded`), because tasks are
callbacks. Tasks are modelled by the state they are configured for and by how often they were
configured since the last accepted command and in this cycle; sequences by their age, whether they
are started and whether their time-zero events ran. Init ranges over configurations that pass
parsing, `set_initial_state` and `init_finalize`.

### DeferredCallbackQueue

`Push` is the critical section of `enqueue`, `Signal` its write to the eventfd; `Take`, `Call`,
`Return`, `Clear` are `on_ready`. Any thread, the main one between its callbacks or inside one, may
be between `Push` and `Signal` at any time. FdBag waits level-triggered for the eventfd.

### GrpcPoller

`Dispatch` is the poller's dispatch including `GrpcClient::async`; `CallEnds`, `Worker`, `Complete` take the
call from gRPC through the completion queue and the callback queue into `on_response`. Absolute times appear
as time until (`nextIn`) or time since (`sincePoll`, `sinceSuccess`), capped at `Cap`; 0, which poll_asap
stores as a time, is "longer ago than any delay". `force_retry` is `PollAsap`: a cancelled call may end in
either way, as it might have without being cancelled. A call ends by its deadline because gRPC ends it.
`StartCall` is `GrpcClient::async` with its refusal: without a stub no call is started, the poller does not
look at the answer, and `refused` tells its wait from one for a call. FIFO and LIFO draining only differ in
when the waiting flag is cleared inside `on_response`, which is one step. The history variables record when
calls really started.

### CommandLink

`Pump` is CommandPump's dispatch with `pump_now`, `Poll` a poll with `build_request`, `OnPumpResponse` the
whole handler with the sender's `send`; `CallFails` is its early return. `GrpcPoller` shows that there is one
call at a time, that it ends and is repeated; its timing does not matter here. `force_retry` cancels the call,
which `CallFails` allows at any time, and the answer of a cancelled call may come all the same. External are
the ground (`Queue`, `Serve`: the next command beyond every reported number), the channel (`link` is a set
whose members may be delivered late and repeatedly, or be lost), the vehicle (`Settle`: no number twice, none
older than a settled one) and the control process (`Share`). A command whose message cannot be prepared or
framed makes `send` abort (`CommandSender.cc:90-101`): its kind is `dropped`, and it is reported neither sent
nor failed.

### AsyncStateMachine

Time is a clock; the machine asks for the next dispatch (`wake`) and may be called earlier. `told` and
`askedIn` remember whether it has been told of a command since, which it must act on, and `burst` counts
transitions without time passing: the validation of the graph is what keeps it finite.

### GrpcEndpoint, AosMonitor, TelemetryRelay, SymbolTable

`Endpoint` is the whole of `endpoint()`. A rotation's failures are those within a cooldown of each other by
the clock, not by the stored age that the code goes by. `AosMonitor!Dispatch` takes ages and thresholds from
the slate, which may move to any value between two dispatches. `TelemetryRelay` parses a file of up to six
lines, builds the flows, makes connections with override and redirection, and lets the operator switch flows.
Its init may also fail for a service that is not found; finalize is refused while a flow is not claimed, or is
claimed by another relay of the node in a smoketest, and may be called again. `SymbolTable` fills tables from
a file and copies, assigns and empties them; `first` is the history of what each name was first given.

### The slate

`SlateLayout` carves elements of sizes and alignments out of gaps and grows a shard up to `MaxOffset`, where
the code's offset type ends. An element for which there is no room (`HasRoom`) is refused and changes nothing.
One whose end wraps at the limit is refused after the wrapped size was stored; the module stops there, since
what the layout does with that size is not sound (section 3). `SlateTokens` follows two builders and three
tokens; frames of a token and the counts of default tokens are those of the accountant. `SlateBuilder` keeps,
of a builder, its subtree, masks, mode and whether it may create; every element records who holds write access
to it. `SlateCommands` checks a number against its element's bounds, asks the validator about the converted
one, given the one it replaces, and stores that; of the conversions it has the one that changes a number, a
negative one for an unsigned element. Widths are small: 0..3 for 32 bits. A batch is undone in the code's
order and by the same checks, which may refuse: a validator may not take the old value back, and the program
may have written one that is not finite (`Write`).

### Descriptors, connections, signals and downloads

`FdBag` keeps the vector with its removed tail, indices back into it, stand-ins for descriptors epoll cannot
poll (which are refused when the sink itself took the last place), and the set of events collected for the
round, which are dispatched in the order of their descriptors; handlers do anything a client may do at any
point. `TcpServer` is `server_prune_connections` with accepts, closes and a limit that may be lowered.
`TcpLink` numbers connections (`epoch`) and marks each byte with the one it belongs to; `UdpLink` has the same
channel for datagrams, two policies of refilling, its timer and its multicast groups. A group that is joined
twice is stored twice (`doubled`), and a socket opened while the last is still sending may be left in the
FdBag (`stray`) until it closes. That a link comes back means that its timer runs and its channel is free for
the next socket; that one opens is up to the kernel. `SignalSlots` has records, functions shared between them,
handlers that die and the invalidators that must tell, also from inside a slot. `CurlFileDownload` writes a
file in chunks: libcurl delivers one (`Write`), loses one (`Lose`), or reports how many it received
(`Progress`), in any order, so that the bytes counted lag behind those written. `missed` remembers that a
download was resumed past a loss that `complete_cb` does not go back to.

### SpinLock, FastMap, FastSort

A thread's load of the word, its compare-exchange (which may fail spuriously) and the raise of the priority
are separate steps. `FastMap`'s words lie as in memory, `m_keys`, `m_values` and `m_size` behind each other. A
load begins at any slot, as the code's does, and from the last slots it reads and writes what lies behind the
keys; `strayed` remembers that an insertion did. The home slots are chosen so that keys collide, meet again in
the second bucket and stray. `FastSort` is the radix sort a digit at a time, with signed and floating keys by
their order.

## 3. Runs

A run of several modules has a variable `part`: a behaviour runs one of them and leaves the variables of the
others as they begin. The parts share no state, so this is their union, not their product.

| run | question | bounds |
|---|---|---|
| MCCombiner | both modes: traces to connected sources, one bad source bounded, disconnected ones have no say, downselect never mixes and the majority wins, a silent source is thrown out whatever numbers it repeats | 3 sources, 2 elements of 2 values, threshold 2 |
| MCFtStrings | strings that run control agree; one loss never interrupts control; healthy strings stay; with hotsync, a string out of sync rejoins | 3 strings, any crash and loss schedule, sequence numbers alternate |
| MCSync | settable machine: assertions, tasks, accepted commands, commands from outside get in; unforced machine: partial and whole transitions do the same, once, in the right cycle; asynchronous machine is called in time and comes to rest; the cycle search is exact | 3 states, durations of 0, 1 and 2 periods (0 and 1 for the forced one); clock up to 4; timeout graphs over 4 states |
| MCThreads | callback queue: no lost wakeup, implements CallbackFifo, every callback is run; command link: nothing passed over or falsely reported, the queue drains; spinlock: writers alone, nobody kept out for a writer that left | 2 threads and the main one, 3 callbacks; 2 commands of every kind, signed or not, one restart; 3 threads, 2 readers, 2 priorities |
| MCGround | poller: waiting matches the call or its refusal, backoff, period, rate limit kept, polls again; endpoint, monitor, relay, tables, map and sort | delays up to 8 ticks; 3 targets; ages up to 7; 2 flows, 2 hosts, 6 lines; 5 keys in 8 slots, loads of 2, buckets of 4; 3 numbers of up to 3 digits |
| MCPlatform | descriptors, servers, TCP and UDP links, signals, downloads, layout, tokens, builders, commands | see the cfg: 4 descriptors of which 3 fit, 3 connections, buffers of 2, 2 handlers, files of 4 chunks with a rewind of 2 and resume_from below 3, offsets up to 15, 3 tokens, 4 builders and bindings, batches of 2 |
| MCSyncAllowed, MCSyncOncePerCycle, MCGrpcRateLimit, MCMultiAtomic, MCMaskEscape, MCViewValidator | disagreements with the documentation (below) | |

Deadlock is checked in every passing run but MCThreads, MCGround and MCPlatform: with every callback run, every
command settled, an array sorted or a slate built there may be nothing left to do.

A property of such a run is often the conjunction of what one component promises, named for the purpose;
each conjunct that a bug could break on its own has a mutant of its own.

Why the bounds are enough. The votes compare values only by order and equality, and medians and
maxima commute with thresholds, so two values per element decide them; two elements are needed to
tear a record. Messages carry three of the four records (with the first value somewhere), a proxy
sender's message one, and the elements are interchangeable (symmetry). A threshold of two cycles shows
a source ageing, and before and after it is thrown out. One real sequence number is enough for a
combiner, which compares numbers for equality only: it may be new, repeated, overwritten by the proxy
sender's and asked for. In FtStrings sensors differ between strings, so a missed message changes the vote,
and control keeps a parity, so one divergent cycle stays visible. A state machine of three states has one
that hands over from start-up, and two that lead to each other, themselves, nowhere, by command or
timeout; durations of zero, one and two periods are the cases the code tells apart (shorter, equal,
longer). Counts of calls are capped at 3, one more than any property distinguishes. The poller's
ticks are coarse, but every comparison in the code is between sums of two delays; periods are at
least two ticks because half a period must not be zero (in nanoseconds it is not).
Two commands are one that may be passed over, or block, and one behind it; a restart forgets every number
once. Three targets are needed for a failure to be neither the first nor the last. A buffer of two units
can be empty, part full and full; a file of four chunks is cut short before, at and beyond the rewind of two,
and its positions wrap in resume_from at three. Elements of 12 and 17 bytes reach the limit of the offset and
exceed it. Three nested paths have room for a mask, one above and one below it. Four descriptors with one
stand-in, of which three fit, let a handler remove a sink in front of itself, behind itself and with its
stand-in, and leave one without. Three threads are two readers and a writer, or a reader and two writers of
different priority.

Fairness. `FtStrings!FairSpec`: dispatch returns `nano_t_min`, so the EventLoop calls it at once, and
the barriers end by the clock; crashes, restarts and losses get no fairness. `SyncStateMachine!FairSpec`:
the control loop dispatches every cycle. `DeferredCallbackQueue!FairSpec`: the EventLoop keeps
selecting, callbacks return, a thread inside `enqueue` goes on; nobody has to enqueue.
`GrpcPoller!FairSpec`: due polls are dispatched, gRPC ends calls, worker and callback queue run, time
passes; requests by the owner get none. `CommandLink!FairSpec`: the client's event loop goes on and the control
process keeps sharing (weak); ground and vehicle are reached again and again although calls fail and commands
are lost (strong: a call repeated for ever is answered at times).

`SpinLock`'s threads run (weak), and one that keeps finding the word takable succeeds at last (strong: a
compare-exchange fails spuriously, but not for ever). The other parts have no liveness property and no fairness;
what must come next is stated of states instead: a lost socket has its timer running, an unsent byte its
event enabled, a download in progress a handle or a retry.

Each property is paired, in `PROJECT.json`, with a mutant (`Bug_...` in the modules): a plausible bug
in a modelled definition under which TLC finds the property violated.

### Disagreements between code and documentation

* `MCSyncAllowed`: `is_cmd_allowed` refuses a command that the machine explicitly ignores, because its
  range check comes first; its description says such a command is allowed.
* `MCSyncOncePerCycle`: after a whole transition a post task's command has the pre tasks configured a
  second time in the same cycle; guarantee 3 in `StateMachine.h` says at most once.
* `MCGrpcRateLimit`: poll_asap during a call that then succeeds makes the poller forget when that call was
  made; the next call ignores the rate limit, which a comment in dispatch says must never happen.
* `MCMultiAtomic`: a refused batch that sets one element twice leaves it at the value in between, because
  the sets are undone in the order they were made. `DistinctBatchIsAtomic` is what does hold.
* `MCMaskEscape`: a sub-slate below a masked path is made all the same, and reaches what was masked.
  `MasksBelowAreKept` is what does hold.
* `MCViewValidator`: the creator of a read-only element with a validator can make a view of it and write
  past the validator.

### Not called disagreements, but worth knowing

* Hotsync: a comment in `FtRuntime.cc:969-973` says the flight computers have it disabled, so that the hotsync
  of `dispatch_nonsynced_early` "will never do anything"; `DroneGncRuntime.cc:100-103` enables it on them, and
  `DroneFtRuntime.cc:538-540` counts on it ("It will just hotsync in later when it does come up"). The run has
  `Hotsync` TRUE, as the program in the tree; `RejoinsEventually` is stated for programs that enable it, and a
  mutant without the syncer shows that a string then stays out.
* GrpcPoller: one on demand that is given a period without should_poll_asap stays unscheduled until it is
  asked or enabled anew; `PollingGoesOn` speaks of pollers whose last call left a delay to keep.
  A call that `async` refuses for want of a stub (`GrpcClient.h:213-220`; `NewStub` leaves none only if gRPC's
  own makes none, `gRPC_util.h:184-210`) ends the polling for good: `GrpcPoller.h:204-206` has set
  waiting_on_response and next_poll_time by then and ignores the answer. `WaitingHasCall` and `PollingGoesOn`
  name that case as the exception. A completion
  with ok false is dropped by the worker, and its poller waits. GrpcClient's destructor joins the
  worker but leaves what was put in the callback queue. `init` does not check that the smaller backoff is the
  smaller one.
* Command link: a command the client itself refuses is reported to nobody and keeps the queue behind it
  waiting; `QueueIsDrained` leaves out commands behind such a one. The replay check compares with the last
  request, not with what was accepted. A command that makes `send` abort keeps the queue waiting in the same
  way. A second write of a command that fails reports it rejected although the first may have arrived.
* GrpcEndpoint: the first failure after a cooldown goes to the first target, also if that is the one that failed
  (a comment in `endpoint` says so).
* AosMonitor: contact first seen at an age between the thresholds forfeits the signal; an
  out_of_contact_threshold below aos_threshold, which `Thresholds` leaves out, would signal at every dispatch.
* TelemetryRelay: a redirected service takes precedence over the override; a host that is repeated in
  alt_destination breaks steady bandwidth when flows are aggregated; claim marks a flow before it can fail.
* FdBag: a sink that epoll cannot poll and that takes the last place is attached without its stand-in, and
  attach succeeds; nothing polls it. `update_epoll` stores a sink's events before `epoll_ctl`, so one that fails
  would leave the count of active sinks wrong; failures of `epoll_ctl` are not modelled.
* SlateLayout: a size that wraps at the limit is noticed after it was stored (`SlateLayout.cc:145-147`); the
  builder is told of the failure, and one that went on would be given elements that overlap.
  SlateTokens: a token bound while accounting is off leaves `default_count` too high, which refuses the build
  rather than letting a token through. SlateBuilder: views do not need permission to create; a failed
  registration of a token leaves the element created.
* SlateCommands: a batch does not validate while it goes forward, and its roll-back may be refused by a
  validator (the comment at `SlateCommandInterface.cc:490` names it) or for a number that is not finite; a
  rejected batch overwrites the caller's list.
* SymbolTable: the comment at `operator==` does not hold for tables with two names for an integer.
* TcpServer: `set_max_connections` tests the old limit for zero. TcpLink: unsent bytes get a last chance only
  once. UdpLink: a failed or repeated join stays stored, and since a group that is stored twice is refused to
  each socket that is opened, it keeps the link from coming back; a socket that is left behind closes through
  an assertion that the channel is closed; the interface and broadcast options are not applied to the next
  socket, and `open` emits connect before the remote address is set.
* CurlFileDownload: resuming counts in 32 bits; retries are never reset; a failed set-up of a retry stays in
  progress until it is cancelled; a refused download_file leaves the status and a truncated file. The
  rewinding "so that we can recover from receiving any corrupted packets" is a heuristic: a loss that is
  followed by a timeout or a reception error (nothing is rewound), by more than 5 MiB, or by more than was
  reported, is resumed past, and the download may end as a success with a hole in it. `DownloadsEndWell` is
  stated without those (`missed`).
* SpinLock: newcomers must wait up to the word's priority, which stays raised after its writer left. FastMap:
  an insertion may fail below kCapacity when the words its probes load are full (`fast_map32.h:11` says it is
  guaranteed to succeed). Loads start at the hash's slot, which need not be aligned, as `fast_map32.h:22` says
  they are, and from the last slots go on behind `m_keys`; `TablesAnswer` promises nothing once an insertion
  did. FastSort counts bytes in 32 bits.

## 4. Proofs

All for every value of the constants, under the named assumptions of the modules only.

| theorem | argument |
|---|---|
| `SlateCombinerProofs!TypeCorrect` | each action; the age is capped by the threshold |
| `SlateCombinerProofs!OutputTraces`, `OneFaultBounded` | from the type invariant: `Chosen` yields connected sources only, the median of three lies between any two |
| `SyncStateMachineProofs!TypeCorrect`, `AssertionsHold`, `TasksFollow`, `CommandsAreCarriedOut` | one inductive invariant. The assertions alone are not inductive: a partial transition must be known to lead to a state (`PendingLeadsToState`), to have the tasks of that state's first half (`TasksFollowTheState` at every `pc`, `TasksCatchUp`), and running sequences must belong to states that have some (`OwnSequencesRun`) |
| `SyncStateMachineProofs!EachPartOnce`, `SyncProofs!PartsOfTransitionsRunOnce` | for machines that are not settable. `PartsRun` counts, at every place of the dispatch, what was done since the last command was accepted: in the middle of a partial transition the next state's pre tasks and time-zero events are ahead of its post tasks, in the middle of a whole one they are still to come. It needs of the configuration (`GraphIsValid`) that no transition leads back to state 0 and that states shorter than a period do not time out |
| `SyncStateMachineProofs!NoGaps` | `InTime`: the age of a state that will time out is a whole number of periods and at most its duration, less than it between dispatches, so the command comes at exactly that age. Durations are taken to be whole periods (`WholePeriods`); of any others the guarantee cannot hold to the cycle. `SyncProofs` shows that the machine of the run is an instance |
| `SyncProofs!ValidationIsExact`, `CyclesAreFound` | for graphs of any size. A search on its way stands at the end of dangerous states that lead to it, so that a loop through any of them goes through the last one (`OnItsWay`); what it leaves explored is closed, and no loop meets it (`Settled`), so that a search which ends there has missed none. By induction on the states not yet on the path, then on the states searched from; that the recursive definitions have a solution at all is shown the same way |
| `SyncProofs!AsyncMachineIsCalledInTime` | rests on the search: the configuration has no loop of states shorter than a period. A pending command is due, so there is none when dispatch names a later time (`GoodMachine`, `WakeInv`). From the second transition of a burst on the states start now, only short ones time out, and those behind lead to the one that is current (`BurstInv`, `Behind`), which they cannot do twice: a burst has at most one transition more than there are states |
| `SlateCombinerProofs!ConnectedDecide` | the history needs `SilenceInv`: a source's age counts at least the combines since its last sign of life, a connected one's is below the threshold, and a number that no combine has seen is news. `DisconnectedIsMute` (the vote is the same whatever a disconnected source says) and `DownselectCopiesOne` follow from the type invariant and the lemmas about the vote |
| `FtStringsProofs!TypeCorrect`, `Agreement`, `LossIsHarmless` | agreement is not inductive: what strings agree on is said by `IInv` at every place of the cycle. `Cycle` names the one slate `b` that everybody outside a set `F` of at most one string offered at the start; whoever gets to control starts from `b`, with all messages of those it heard, and whoever has run it holds `AfterControl` of `b`. `Healthy` adds that a string that is not failing is outside `F`, hears everybody and stays synced. `Failing` says what a failing string may lack |
| `ThreadsProofs!WakeupsArrive` | inductive as it stands: Clear resets only over an empty queue, Push leaves its thread signalling |
| `ThreadsProofs!IsAFifo` | refinement of CallbackFifo: waiting is what on_ready took followed by the vector; Take moves between the two, which needs that nothing is left over from the last batch |
| `ThreadsProofs!CommandsAreInOrder` | whatever number is on its way, settled, failed or in a request comes after settled numbers only (`Orderly`), and each number the client holds, however old, is true (`NumbersAreTrue`). The greatest number of a set is found by well-founded induction |
| `ThreadsProofs!TypesCorrect`, `WritersAreAlone` | for any finite set of threads. A writer is alone because of the word, so the word has to be tied to the threads (`LockInv`): its count is the number of readers inside (`ReadersAreCounted`, with cardinalities), it tells of a writer that is inside (`WriterIsTold`), and a thread about to exchange saw a word that allowed it (`SawItTakable`), which the exchange compares again |
| `GroundProofs!WaitsForItsCall`, `RateLimitHolds` | waiting, the client's call and its refusal are set and cleared together;  last_poll_time is the outstanding call's start unless poll_asap overwrote it, so last_success_time is the last good call's, unless forgotten |
| `GroundProofs!CallsAreSpacedOut`, `PollersStayScheduled` | `SpacingInv`: while nobody asked, last_poll_time is the start of the last call, and what is left until the next poll makes up, with the time since that start, what the outcome promised; a delay that is scheduled is never less than the one promised, by the bounds of the jitter and the backoff (`ScheduleKeeps`) |
| `GroundProofs!CallsGoWhereTheyShould` | of the monitor, that no signal is owed for an outage it has signalled. Of the endpoint, `Rotating`: those that failed since the rotation began are an arc of the circle of targets that ends before the index, or all of them; the index then never comes back before everyone had a turn |
| `GroundProofs!FlowsGoSomewhere` | `ParserInv` says at every section of the file what has been read of the flow, `IsSetUp` ties flows, connections and the validator of the commanded destination once the relay is up |
| `GroundProofs!TablesAreRight` | Names: reading a file asks back for each line what the first line with that key said, in both directions (`Filled`, unfolded line by line). Map, until an insertion strays: a key is in one slot (`OneSlot`) that a search from its hash reaches (`Reached`) before an empty one. Sort: after k passes the scratch or the array is a permutation of the input (`Arranged`, a bijection of places) that is in order by its k lowest digits (`InOrder`): each number's place is its rank by digit and position (`PlaceIsRank`), ranks are a bijection, and a pass adds a digit above those in order (`NextDigit`, `PassSorts`). Mapping signed numbers and floats keeps their order (`MappingKeepsOrder`) and restoring undoes it |
| `GroundProofs!TypesAreKept` | from the invariants of the parts, with `PollerTypes`, which says of the drawn period that it belongs to the policy, since the delays that follow must fit the cap; doubling stays natural (`DoubledIsNat`); and `LinesAreBounded` of the relay's file |
| `PlatformProofs!LinksRecover` | TCP: with a socket, all bytes in both directions are of its epoch, and a link that is not connected has nothing to send (`TcpInv`). UDP: the groups joined are those stored without those refused, and whoever lost a socket it wants has its timer running (`UdpInv`) |
| `PlatformProofs!DownloadsAreWhole` | everything below the cursor is in its place, except what lies above a loss of the running transfer; a retry either steps back below that loss, by no more than was written since, or the download has `missed` it. What is counted never exceeds what is written (`TransferInv`), also when resume_from has wrapped, so stepping back stays in the file |
| `PlatformProofs!TypesStayRight` | from the invariants of all the parts below, which hold most of it; three more conjuncts say what they leave out: chunks are numbered by connections that were and fit the buffers (`TcpTypes`), a pending retry is one that is still allowed, positions do not leave the file (`CurlTypes`), counts of tokens stay below what was handed out (`TokenBounds`) |
| `PlatformProofs!ListsStayExact` | Registry (`BagInv`): the owned sinks are the first `count` of the vector, each at its index (`Order`); a stand-in is in the bag with its sink (`Paired`); outside a round nothing is behind them (`Trimmed`), within one everything collected is still somewhere in the vector. Swapping one to the front or behind the last is shown for `Order` alone, the counts with cardinalities. Server (`ServerInv`): each connection on one list, once, open ones on one, accepted ones on the first (`ListsGood`), through each of the passes that prune, refuse and promote; the owner was told exactly if a list became empty |
| `PlatformProofs!SlotsRunOnce` | `GoodEmission` says how far an emission has come: what is behind it was called, or has to go; what is before it was not called. IDs are handed out in increasing order, so an appended record is a new one. A function that is held and not empty is known to its handler, which lives (`GoodFunctions`): that is what lets a dying handler empty it |
| `PlatformProofs!SlateStaysWhole` | Layout (`LayoutInv`), up to the first size that wraps: elements and holes are aligned, within the shard, and no two of them overlap; what is carved from a hole or from growth is an element with holes around it (`AddSound`). Tokens (`TokenInv`, with cardinalities): frames are the IDs of unbound tokens, each its own; counts of frames and of default tokens bound what is alive; an accountant that is off has forgotten nobody |
| `PlatformProofs!BatchesAreAtomic` | each element holds what its type can hold (`CommandInv`), for which storing changes nothing (`HeldFacts`); after m commands the first m elements are set and m old values are saved (`HasSet`, `HasSaved`); undoing them from the first on puts each back or, where that is refused, leaves it and says so, and as the elements differ none disturbs another |
| `PlatformProofs!NoRightIsGained` | rights rest on the policy of the element whose memory it is, and a view shares it (`ViewsShareThePolicy`); masks are kept because prefixes are transitive |

Three lemmas of `PlatformProofs`, `SyncProofs` and `GroundProofs` stand for induction over data, which the
library's theorems cannot give here: `HasLeast` (a set of naturals has a least element, by well-founded
induction), `UpTo` (induction up to n, stated of a set of numbers) and `Recursion` (a function that is defined
by recursion up to n exists, so that a local recursive definition is what it says). `Filter`, the carving of a
range, the batches of commands, the search for loops, the reading of a file, the weights of digits and the
doubling of the backoff rest on them.

The proofs of `ThreadsProofs`, `GroundProofs` and `PlatformProofs` begin with a lemma `EachPart`: a behaviour
of the run is, for each part, one of that part's specification, since the others leave its variables alone.
The part's invariant is then proved of its own `Init` and `Next`. The assumptions are those of the modules
(`SyncAssumption` and `GraphAssumption`, `ThresholdAssumption`, ...) and those of the runs' modules:
`MachineAssumption` (tasks do not issue timeouts, durations are whole periods, `nano_t_max` is later than any
time a dispatch asks for), `BoundsAssumption` (numbers of commands and threads are finite, widths are
positive), `GroundAssumption` (some target, limits that are natural numbers), `TablesAssumption` (files list
pairs of a name and an integer, hashes are slots, the base is even, keys are finitely many naturals),
`DelayAssumption` and `PolicyAssumption` (the cap is beyond every delay, a period is longer than its jitter),
`PlatformAssumption` (buffers, files, rewind and bounds are natural numbers, a UDP buffer holds a datagram,
sinks and tokens are finite in number, one sink has a stand-in, paths are sequences, and offsets reach at
least as far as the alignments of the kinds of elements that are placed).

Only model-checked, and why:

* Liveness (`RejoinsEventually`, `EveryCallbackRuns`, `QueueIsDrained`, `LockIsNotLeft`, `PollingGoesOn`,
  `SettableLetsCommandsIn`) is out of the prover's reach.
  It stays with TLC that what is due happens: of `PollingGoesOn`, `EnabledIsScheduled` is proved
  (`PollersStayScheduled`), that the poll then comes is not.

Every invariant and every action property of a passing run is proved.

## 5. Not modelled, and the plan

Not modelled: DroneGncControl, which calls subsystems that are not in the tree, one after the other; typed
loads and stores of the slate, macros, value types and the vendored hash, which have no behaviour beyond unit
tests; perf_util's vector arithmetic. Of modelled parts: FdBag's select_until and multi_select, the
peer-to-peer and multi-server TCP connections (made of what is modelled), enum registries and copies of whole
builders, credentials and address parsing of gRPC, alarms, start-up of the runtimes, telemetry formatting and
logging.

What a later stage would add: the peer-to-peer connections as a composition of `TcpLink`, with the invariants
proved above as its lemmas.
