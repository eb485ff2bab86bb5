------------------------------- MODULE UdpLink -------------------------------
(***************************************************************************)
(* A UDP connection: a UdpConnection, which reopens its socket, over an    *)
(* FdDgramChannel, which moves whole datagrams between the socket and two  *)
(* buffers.  Datagrams are counted, not told apart.                        *)
(***************************************************************************)
EXTENDS Integers, FiniteSets

CONSTANTS
    Size,      \* of the two buffers of the channel, in datagrams
    Groups     \* multicast groups

VARIABLES
    mode,      \* [low: is_low_latency, latest: keep_only_last_dgram]
    conn,      \* [closed, disconnected, connected: the flags, remote: remote_addr is set]
    timer,     \* the reconnection timer is enabled
    shut,      \* FdDgramChannel::is_closed_flag
    fes,       \* the channel has its descriptor
    events,    \* fd events of the descriptor, of "read", "write"
    input,     \* datagrams written and not sent
    output,    \* datagrams received and not popped
    groups,    \* [stored: multicast_subscriptions, doubled: those in it twice or more,
               \*  joined: by the socket, refused: by the kernel]
    stray      \* a second socket was bound and left in the FdBag

vars == <<mode, conn, timer, shut, fes, events, input, output, groups, stray>>
chan == <<shut, fes, events, input, output>>

TypeOK ==
    /\ mode \in [low : BOOLEAN, latest : BOOLEAN]
    /\ conn \in [closed : BOOLEAN, disconnected : BOOLEAN, connected : BOOLEAN, remote : BOOLEAN]
    /\ {timer, shut, fes, stray} \subseteq BOOLEAN
    /\ events \subseteq {"read", "write"}
    /\ {input, output} \subseteq 0..Size
    /\ groups \in [stored : SUBSET Groups, doubled : SUBSET Groups,
                  joined : SUBSET Groups, refused : SUBSET Groups]

Init ==
    /\ mode \in [low : BOOLEAN, latest : BOOLEAN]
    /\ conn = [closed |-> FALSE, disconnected |-> TRUE, connected |-> FALSE, remote |-> FALSE]
    /\ timer = FALSE
    /\ shut = TRUE /\ fes = FALSE /\ events = {} /\ input = 0 /\ output = 0
    /\ groups = [stored |-> {}, doubled |-> {}, joined |-> {}, refused |-> {}]
    /\ stray = FALSE

is_connected == ~shut /\ fes

-----------------------------------------------------------------------------
(* FdDgramChannel.                                                         *)

\* space_left, of a channel with n datagrams to send under the events ev:
\* with low latency only what can be sent at once is taken.
SpaceLeft(n, ev, handling) ==
    IF ~is_connected THEN 0
    ELSE IF mode.low THEN IF n > 0 \/ ("write" \in ev /\ ~handling) THEN 0 ELSE 1
    ELSE Size - n

AssignFd ==
    /\ shut' = FALSE /\ fes' = TRUE /\ events' = {"read", "write"}

\* UdpConnection::close, of a connection without unsent datagrams.
CloseNow ==
    /\ shut' = TRUE /\ fes' = FALSE /\ events' = {} /\ input' = 0
    /\ conn' = [conn EXCEPT !.closed = TRUE, !.disconnected = TRUE]
    /\ timer' = FALSE

Bug_FdCloses(told) ==
    /\ shut' = TRUE /\ fes' = FALSE /\ events' = {} /\ input' = 0
    /\ UNCHANGED <<conn, timer>>

\* The descriptor closes: channel_close and both handle_fd_close.  The
\* client is told, and may refuse, which closes the connection for good.
FdCloses(told) ==
    IF ~told THEN CloseNow
    ELSE /\ shut' = TRUE /\ fes' = FALSE /\ events' = {} /\ input' = 0
         /\ timer' = (timer \/ ~conn.disconnected)
         /\ UNCHANGED conn

\* channel_close from above: what is written is sent first.
ChannelClose ==
    IF fes /\ input > 0
      THEN /\ shut' = TRUE /\ events' = events \ {"read"}
           /\ UNCHANGED <<fes, input>>
      ELSE /\ shut' = TRUE /\ fes' = FALSE /\ events' = {} /\ input' = 0

\* commit_dataframe: conn.remote is what an unconnected socket needs.
Commit ==
    /\ ~conn.closed /\ conn.remote /\ SpaceLeft(input, events, FALSE) > 0
    /\ input' = input + 1
    /\ events' = events \cup {"write"}
    /\ UNCHANGED <<mode, conn, timer, shut, fes, output, groups, stray>>

\* pop_dgram and clear.
Pop(n) ==
    /\ n \in 1..output
    /\ output' = output - n
    /\ events' = IF is_connected THEN events \cup {"read"} ELSE events
    /\ UNCHANGED <<mode, conn, timer, shut, fes, input, groups, stray>>

Bug_Received(left, good) ==
    IF mode.latest THEN IF good > 0 /\ left < Size THEN left + 1 ELSE left ELSE left + good

\* What waits for the client after good datagrams were read.
Received(left, good) ==
    IF mode.latest THEN IF good > 0 /\ left = 0 THEN 1 ELSE left ELSE left + good

\* handle_fd_read: a full buffer is offered to the client, then the socket
\* is read till it has no more or the buffer is full; what the firewall
\* refuses or is too long changes nothing; the client takes some.
FdRead(offered, good, taken) ==
    LET left  == output - offered
        full  == left = Size \/ (~mode.latest /\ left + good = Size)
        after == Received(left, good)
    IN  /\ fes /\ "read" \in events
        /\ offered <= output /\ (output < Size => offered = 0)
        /\ good <= Size - left
        /\ taken <= after /\ (good = 0 => taken = 0)
        /\ output' = after - taken
        /\ events' = IF full /\ taken = 0 THEN events \ {"read"} ELSE events
        /\ UNCHANGED <<mode, conn, timer, shut, fes, input, groups, stray>>

Bug_LowRefill(n) == n <= Size

\* With low latency the client is asked only when nothing waits to be sent.
LowRefill(n) == n <= 1

\* handle_fd_write, which leaves n datagrams: the client is asked when the
\* buffer is empty and, without low latency, after each datagram sent.  Low
\* latency sends one and leaves the event on, unless there was none to send.
FdWrite(n, idle, told) ==
    /\ fes /\ "write" \in events
    /\ IF shut THEN
            /\ n <= input /\ ~idle
            /\ IF n = 0 THEN FdCloses(told)
               ELSE /\ input' = n
                    /\ UNCHANGED <<conn, timer, shut, fes, events>>
       ELSE /\ n > input => conn.remote
            /\ IF mode.low
                 THEN LowRefill(n) /\ (idle => input = 0 /\ n = 0)
                 ELSE n <= Size /\ idle = (n = 0)
            /\ input' = n
            /\ events' = IF idle THEN events \ {"write"} ELSE events
            /\ UNCHANGED <<conn, timer, shut, fes>>
    /\ UNCHANGED <<mode, output, groups, stray>>

\* clear_unwritten, after which the client writes n.
ClearUnwritten(n, told) ==
    /\ input > 0
    /\ IF shut THEN n = 0 /\ FdCloses(told)
       ELSE /\ n <= SpaceLeft(0, events, FALSE)
            /\ input' = n
            /\ events' = IF SpaceLeft(0, events, FALSE) > 0 /\ n = 0 THEN events \ {"write"} ELSE events
            /\ UNCHANGED <<conn, timer, shut, fes>>
    /\ UNCHANGED <<mode, output, groups, stray>>

\* A broken descriptor.
FdBreaks(told) ==
    /\ fes
    /\ FdCloses(told)
    /\ UNCHANGED <<mode, output, groups, stray>>

-----------------------------------------------------------------------------
(* UdpConnection.                                                          *)

\* open_socket joins the groups in the order they are stored, and fails at
\* the first that the kernel refuses, which is one the socket has joined.
JoinStored ==
    /\ groups.doubled = {}
    /\ groups' = [groups EXCEPT !.joined = groups.stored, !.refused = {}]

\* open and connect (with a remote address, the socket connected or not; a
\* failing connect leaves the socket open).
Open(remote, connected, told) ==
    /\ ~is_connected /\ ~timer /\ ~fes
    /\ remote \/ connected = conn.connected
    /\ JoinStored
    /\ LET opened == [closed |-> FALSE, disconnected |-> FALSE, connected |-> connected,
                      remote |-> (told /\ remote) \/ (connected /\ conn.remote)]
       IN  IF told
             THEN /\ AssignFd
                  /\ conn' = opened
                  /\ UNCHANGED <<timer, input>>
             ELSE /\ shut' = TRUE /\ fes' = FALSE /\ events' = {} /\ input' = 0 /\ timer' = FALSE
                  /\ conn' = [opened EXCEPT !.closed = TRUE, !.disconnected = TRUE]
    /\ UNCHANGED <<mode, output, stray>>

\* The socket cannot be opened; while the last one is still sending, another
\* may be bound, its close event connected, and left in the FdBag, because
\* the channel is not free.
OpenFails(remote, connected) ==
    /\ ~is_connected /\ ~timer
    /\ remote \/ connected = conn.connected
    /\ conn' = [conn EXCEPT !.connected = connected, !.remote = @ /\ connected]
    /\ stray' \in {stray, stray \/ (fes /\ groups.doubled = {})}
    /\ UNCHANGED <<mode, timer, chan, groups>>

\* handle_fd_close of the socket left behind, which says a connection was
\* lost; its assertion, that the channel is closed, ends the program if not.
StrayCloses(told) ==
    /\ stray /\ shut
    /\ stray' = FALSE
    /\ IF told
         THEN /\ timer' = (timer \/ ~conn.disconnected)
              /\ UNCHANGED <<conn, shut, fes, events, input>>
         ELSE /\ conn' = [conn EXCEPT !.closed = TRUE, !.disconnected = TRUE]
              /\ timer' = FALSE
              /\ ChannelClose
    /\ UNCHANGED <<mode, output, groups>>

\* disconnect, or close, which also seals the connection.
Disconnect(close, told) ==
    /\ ~conn.disconnected \/ (close /\ ~conn.closed)
    /\ conn' = [conn EXCEPT !.disconnected = TRUE, !.closed = @ \/ close \/ (fes /\ input = 0 /\ ~told)]
    /\ timer' = FALSE
    /\ ChannelClose
    /\ UNCHANGED <<mode, output, groups, stray>>

\* handle_timer: the socket is opened and, if it is to be, connected.  Where
\* it cannot be opened nothing changes, and the timer tries again.
HandleTimer(told) ==
    /\ timer /\ ~fes
    /\ JoinStored
    /\ IF told THEN /\ AssignFd
                    /\ timer' = FALSE
                    /\ UNCHANGED <<conn, input>>
       ELSE CloseNow
    /\ UNCHANGED <<mode, output, stray>>

\* handle_timer where the socket opens and cannot be connected: the channel
\* is closed again, of which the client is told.
ConnectFails(told) ==
    /\ timer /\ conn.connected
    /\ JoinStored
    /\ FdCloses(told)
    /\ UNCHANGED <<mode, output, stray>>

\* multicast_group_join stores the group, again if it is stored, before it is
\* joined; the kernel refuses it to a socket that has joined it.
Join(g, ok) ==
    /\ ok => g \notin groups.joined
    /\ groups' = [groups EXCEPT !.stored = @ \cup {g},
                                !.doubled = @ \cup ({g} \cap groups.stored),
                                !.joined = IF is_connected /\ ok THEN @ \cup {g} ELSE @,
                                !.refused = IF is_connected /\ ok THEN @ \ {g}
                                            ELSE IF is_connected THEN @ \cup ({g} \ groups.joined) ELSE @]
    /\ UNCHANGED <<mode, conn, timer, chan, stray>>

Leave(g) ==
    /\ g \in groups.stored
    /\ groups' = [groups EXCEPT !.stored = @ \ {g},
                                !.doubled = @ \ {g},
                                !.joined = IF is_connected THEN @ \ {g} ELSE @,
                                !.refused = @ \ {g}]
    /\ UNCHANGED <<mode, conn, timer, chan, stray>>

Amounts == 0..Size

Next ==
    \/ Commit
    \/ \E n \in Amounts : Pop(n)
    \/ \E offered, good, taken \in Amounts : FdRead(offered, good, taken)
    \/ \E n \in Amounts, idle, told \in BOOLEAN : FdWrite(n, idle, told)
    \/ \E n \in Amounts, told \in BOOLEAN : ClearUnwritten(n, told)
    \/ \E told \in BOOLEAN : FdBreaks(told) \/ HandleTimer(told) \/ ConnectFails(told) \/ StrayCloses(told)
    \/ \E remote, connected, told \in BOOLEAN : Open(remote, connected, told)
    \/ \E remote, connected \in BOOLEAN : OpenFails(remote, connected)
    \/ \E close, told \in BOOLEAN : Disconnect(close, told)
    \/ \E g \in Groups, ok \in BOOLEAN : Join(g, ok)
    \/ \E g \in Groups : Leave(g)

Spec == Init /\ [][Next]_vars

-----------------------------------------------------------------------------
(***************************************************************************)
(* A socket lost without a request is always on its way back: unless the   *)
(* owner disconnected or closed, a connection without a socket has its     *)
(* reconnection timer running and a channel that is free for the next one. *)
(* That the next one can be opened is the kernel's to grant, and it never  *)
(* does while a group is stored twice.                                     *)
(***************************************************************************)
LostSocketComesBack ==
    ~is_connected /\ ~conn.closed /\ ~conn.disconnected => timer /\ ~fes

(***************************************************************************)
(* Multicast groups outlive the socket: an open one, the first or the      *)
(* tenth, has joined just the groups asked for and not left since, but for *)
(* those the kernel refused it.                                            *)
(***************************************************************************)
GroupsSurvive ==
    is_connected => groups.joined = groups.stored \ groups.refused

(***************************************************************************)
(* The channel waits for what it can do next: for the socket to be         *)
(* writable while anything is unsent, closed or not, for it to be readable *)
(* while there is room; and a closed channel keeps the socket only to send.*)
(***************************************************************************)
NothingStalls ==
    /\ fes /\ input > 0 => "write" \in events
    /\ is_connected /\ output < Size => "read" \in events
    /\ fes /\ shut => input > 0

(***************************************************************************)
(* Nothing stale is sent or read where that is asked for: with low latency *)
(* a datagram never waits behind another, through any mix of commits,      *)
(* refills and clearing, and with keep_only_last_dgram one waits at most.  *)
(***************************************************************************)
FreshOnly ==
    /\ mode.low => input <= 1
    /\ mode.latest => output <= 1
=============================================================================
