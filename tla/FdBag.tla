-------------------------------- MODULE FdBag --------------------------------
(***************************************************************************)
(* The set of file descriptors an event loop selects on.  FdBag keeps its  *)
(* FdEventSinks in a vector whose first fes_count members are active and,  *)
(* while events are dispatched, whose rest are removed sinks that must not *)
(* be destroyed yet: the events collected from the kernel hold raw         *)
(* pointers to them.  Handlers attach, detach, close and re-register sinks *)
(* at any point of a round, their own and others'.                         *)
(*                                                                         *)
(* FdEventSink is not in the tree; of it the model keeps the events it is  *)
(* registered for and whether its descriptor is open; one that is in no    *)
(* bag only remembers its events.  Sinks are numbered as their descriptors,*)
(* which is the order of dispatch.  epoll_ctl does not fail on what is     *)
(* open.                                                                   *)
(***************************************************************************)
EXTENDS Integers, Sequences, FiniteSets, Functions

CONSTANTS
    Sinks,        \* the sinks that may ever exist, integers
    Standin,      \* of a sink epoll cannot poll: the eventfd polled instead
    MaxFds,       \* max_fds
    MaxVector     \* bound on the vector with what is removed in a round

NonPollable == DOMAIN Standin
Standins == Range(Standin)
Clients == Sinks \ Standins        \* sinks the owners of a bag know of

Events == {"rw", "except"}     \* reading and writing are not told apart
All == Events

VARIABLES
    bag,        \* [fesv, count, idx, owner, interest, active, kernel]
    open,       \* sinks whose descriptor is open
    collected,  \* of the round: what the kernel reported and is still to do
    current,    \* the sink whose handler is running, or 0
    dispatching \* dispatch_in_progress

vars == <<bag, open, collected, current, dispatching>>

\* idx counts from one; zero is SIZE_MAX, the index of a sink of no bag.
NoFds ==
    [fesv |-> <<>>, count |-> 0, active |-> 0, kernel |-> {},
     idx |-> [s \in Sinks |-> 0], owner |-> [s \in Sinks |-> FALSE],
     interest |-> [s \in Sinks |-> {}]]

Active(e) == IF "rw" \in e THEN 1 ELSE 0

-----------------------------------------------------------------------------
(* The bag's operations as functions of the bag.                           *)

\* update_epoll of a sink the kernel can poll.
Register(b, s, e) ==
    [b EXCEPT !.interest[s] = e,
              !.kernel = IF e = {} THEN @ \ {s} ELSE @ \cup {s},
              !.active = @ + Active(e) - Active(b.interest[s])]

\* update_epoll: a stand-in in the bag is told what its sink waits for.
UpdateEpoll(b, s, e) ==
    IF s \notin NonPollable THEN Register(b, s, e)
    ELSE LET t == Standin[s]
             c == IF e = b.interest[s] \/ ~b.owner[t] THEN b ELSE Register(b, t, e \cap {"rw"})
         IN  [c EXCEPT !.interest[s] = e, !.active = @ + Active(e) - Active(b.interest[s])]

Bug_PushBackNoSwap(b, s) ==
    LET n == b.count + 1
    IN  [b EXCEPT !.fesv = Append(b.fesv, s),
                  !.count = n, !.idx[s] = n, !.owner[s] = TRUE, !.interest[s] = {}]

\* The new sink goes to the end of the active part, in front of removed ones.
PushBack(b, s) ==
    LET n == b.count + 1
        v == Append(b.fesv, s)
    IN  [b EXCEPT !.fesv = [v EXCEPT ![n] = s, ![Len(v)] = v[n]],
                  !.count = n, !.idx[s] = n, !.owner[s] = TRUE, !.interest[s] = {}]

\* attach_fes of a sink that wants the events e, with the stand-in it may need.
\* When the sink takes the last place its stand-in is refused: error_fes, a
\* sink of no bag, stands in, nothing polls the sink, and attach_fes succeeds.
AttachFes(b, s, e) ==
    IF s \notin NonPollable \/ b.count + 2 > MaxFds THEN UpdateEpoll(PushBack(b, s), s, e)
    ELSE UpdateEpoll(PushBack(PushBack(b, s), Standin[s]), s, e)

Bug_TakeOutAtOnce(b, s) ==
    LET i == b.idx[s]
        n == b.count
        last == b.fesv[n]
    IN  [b EXCEPT !.fesv = [k \in 1..(Len(@) - 1) |-> IF k = i THEN last ELSE IF k = n THEN s ELSE @[k]],
                  !.count = n - 1,
                  !.owner[s] = FALSE,
                  !.idx = [[@ EXCEPT ![last] = i] EXCEPT ![s] = 0]]

\* The second half of remove_fes: swap with the last active one, deletion deferred in a round.
TakeOut(b, s) ==
    LET i == b.idx[s]
        n == b.count
        v == [b.fesv EXCEPT ![i] = b.fesv[n], ![n] = s]
    IN  [b EXCEPT !.fesv = IF dispatching THEN v ELSE SubSeq(v, 1, Len(v) - 1),
                  !.count = n - 1,
                  !.owner[s] = FALSE,
                  !.idx = [[@ EXCEPT ![b.fesv[n]] = i] EXCEPT ![s] = 0]]

Deactivate(b, s) ==
    [b EXCEPT !.active = @ - Active(b.interest[s]), !.kernel = @ \ {s}]

\* remove_fes: the stand-in is closed with its sink.
RemoveFes(b, s) ==
    LET t == Standin[s]
    IN  IF s \in NonPollable /\ b.owner[t]
          THEN TakeOut(TakeOut(Deactivate(Deactivate(b, s), t), t), s)
          ELSE TakeOut(Deactivate(b, s), s)

Needs(s) == IF s \in NonPollable THEN 2 ELSE 1
Room(s) == bag.count < MaxFds /\ Len(bag.fesv) + Needs(s) <= MaxVector

-----------------------------------------------------------------------------
Init ==
    /\ bag = NoFds
    /\ open = Clients
    /\ collected = {}
    /\ current = 0
    /\ dispatching = FALSE

\* Between rounds, or inside a handler.
Running == dispatching => current # 0

Attach(s, e) ==
    /\ Running
    /\ s \in open /\ ~bag.owner[s] /\ Room(s)
    /\ bag' = AttachFes(bag, s, e)
    /\ UNCHANGED <<open, collected, current, dispatching>>

Detach(s) ==
    /\ Running
    /\ s \in open /\ bag.owner[s]
    /\ bag' = RemoveFes(bag, s)
    /\ UNCHANGED <<open, collected, current, dispatching>>

\* FdEventSink::close takes the sink out of its bag.
Close(s) ==
    /\ Running
    /\ s \in open
    /\ open' = open \ {s}
    /\ bag' = IF bag.owner[s] THEN RemoveFes(bag, s) ELSE bag
    /\ UNCHANGED <<collected, current, dispatching>>

\* set_events, add_events and remove_events of an attached sink.
SetEvents(s, e) ==
    /\ Running
    /\ bag.owner[s] /\ s \in Clients
    /\ bag' = UpdateEpoll(bag, s, e)
    /\ UNCHANGED <<open, collected, current, dispatching>>

\* The sink a kernel event points to.
Target(t) == IF t \in Standins THEN CHOOSE s \in NonPollable : Standin[s] = t ELSE t

\* raw_epoll: any of the registered descriptors may be ready, or hung up.
Reports == [target : Sinks, events : SUBSET (Events \cup {"hup"})]
Report(ready, hup) ==
    LET of(t) == [target |-> Target(t),
                  events |-> bag.interest[t] \cup (IF t \in hup THEN {"hup"} ELSE {})]
    IN  {of(t) : t \in ready}

Select(ready, hup) ==
    /\ ~dispatching
    /\ ready \subseteq bag.kernel
    /\ collected' = Report(ready, hup)
    /\ dispatching' = TRUE
    /\ UNCHANGED <<bag, open, current>>

\* What is dispatched of a report under the caller's mask.
Dispatched(report, mask) ==
    (report.events \cup (IF "hup" \in report.events THEN bag.interest[report.target] \cap {"rw"} ELSE {}))
        \cap mask

\* dispatch_epoll goes through the events in the order of the descriptors.
TakeEvent(report, mask) ==
    /\ dispatching /\ current = 0
    /\ report \in collected
    /\ \A r \in collected : report.target <= r.target
    /\ collected' = collected \ {report}
    /\ current' = IF bag.owner[report.target] /\ Dispatched(report, mask) # {}
                    THEN report.target ELSE 0
    /\ UNCHANGED <<bag, open, dispatching>>

\* A handler that fails has its sink closed.
HandlerReturns(ok) ==
    /\ current # 0
    /\ current' = 0
    /\ IF ~ok /\ current \in open
         THEN /\ open' = open \ {current}
              /\ bag' = IF bag.owner[current] THEN RemoveFes(bag, current) ELSE bag
         ELSE UNCHANGED <<bag, open>>
    /\ UNCHANGED <<collected, dispatching>>

\* The end of dispatch_epoll destroys what was removed.
EndDispatch ==
    /\ dispatching /\ current = 0 /\ collected = {}
    /\ dispatching' = FALSE
    /\ bag' = [bag EXCEPT !.fesv = SubSeq(@, 1, bag.count)]
    /\ UNCHANGED <<open, collected, current>>

Next ==
    \/ \E s \in Clients, e \in SUBSET Events : Attach(s, e) \/ SetEvents(s, e)
    \/ \E s \in Clients : Detach(s) \/ Close(s)
    \/ \E ready \in SUBSET bag.kernel : \E hup \in {{}, ready} : Select(ready, hup)
    \/ \E report \in collected, mask \in {All, {"rw"}} : TakeEvent(report, mask)
    \/ \E ok \in BOOLEAN : HandlerReturns(ok)
    \/ EndDispatch

Spec == Init /\ [][Next]_vars

-----------------------------------------------------------------------------
TypeOK ==
    /\ bag.fesv \in Seq(Sinks) /\ bag.count \in 0..MaxFds
    /\ bag.idx \in [Sinks -> 0..MaxFds] /\ bag.owner \in [Sinks -> BOOLEAN]
    /\ bag.interest \in [Sinks -> SUBSET Events] /\ bag.kernel \subseteq Sinks
    /\ open \subseteq Clients
    /\ collected \subseteq Reports /\ current \in Clients \cup {0}
    /\ dispatching \in BOOLEAN

Owned == {s \in Sinks : bag.owner[s]}

(***************************************************************************)
(* The registry is exact, however handlers attach, detach and close: every *)
(* owned sink is found at its index, and nothing else among the first      *)
(* fes_count; active_count, by which select decides whether it may block   *)
(* for ever, counts the owned sinks that wait for reading or writing; the  *)
(* kernel polls just those that wait for anything.                         *)
(***************************************************************************)
RegistryIsExact ==
    /\ bag.count = Cardinality(Owned)
    /\ \A s \in Owned : bag.idx[s] \in 1..bag.count /\ bag.fesv[bag.idx[s]] = s
    /\ bag.active = Cardinality({s \in Owned : "rw" \in bag.interest[s]})
    /\ bag.kernel = {s \in Owned \ NonPollable : bag.interest[s] # {}}
    /\ ~dispatching => Len(bag.fesv) = bag.count

(***************************************************************************)
(* No event points to a destroyed sink: until the round is over the vector *)
(* holds every sink with a collected event ("defer deletion of any         *)
(* FdEventSinks until after dispatch, to avoid invalidating pointers").    *)
(***************************************************************************)
CollectedAreAlive ==
    \A report \in collected : report.target \in Range(bag.fesv)
=============================================================================
