------------------------------- MODULE TcpLink -------------------------------
(***************************************************************************)
(* A TCP connection that reconnects: a TcpConnection over an               *)
(* FdStreamChannel over the socket a Reconnector (not in the tree)         *)
(* obtains, and the peer.  Bytes are moved in chunks; a chunk carries the  *)
(* number of the connection it was written or sent in.                     *)
(***************************************************************************)
EXTENDS Integers, Sequences, Functions

CONSTANTS
    Size,             \* of the two buffers of the channel, in chunks
    MaxConnections    \* bound on the connections that come about

VARIABLES
    wanted,      \* the Reconnector is enabled
    sealed,      \* TcpConnection::is_closed_flag
    shut,        \* FdStreamChannel::is_closed_flag
    fes,         \* the channel has its descriptor
    events,      \* fd events of the descriptor, of "read", "write"
    input,       \* written by the client, not yet to the socket
    output,      \* read from the socket, not yet by the client
    peer,        \* [sent: by the peer and unread, gone: it has closed]
    epoch        \* the number of the connection

vars == <<wanted, sealed, shut, fes, events, input, output, peer, epoch>>

Chunks == 1..MaxConnections

TypeOK ==
    /\ {wanted, sealed, shut, fes} \subseteq BOOLEAN
    /\ events \subseteq {"read", "write"}
    /\ \A s \in {input, output, peer.sent} : s \in Seq(Chunks) /\ Len(s) <= Size
    /\ peer.gone \in BOOLEAN /\ epoch \in 0..MaxConnections

is_connected == ~shut /\ fes

Init ==
    /\ wanted = FALSE /\ sealed = FALSE /\ shut = TRUE /\ fes = FALSE
    /\ events = {} /\ input = <<>> /\ output = <<>>
    /\ peer = [sent |-> <<>>, gone |-> FALSE]
    /\ epoch = 0

Take(s, n) == SubSeq(s, n + 1, Len(s))

-----------------------------------------------------------------------------
(* The client.                                                             *)

Connect ==
    /\ ~is_connected /\ ~wanted
    /\ wanted' = TRUE /\ sealed' = FALSE
    /\ UNCHANGED <<shut, fes, events, input, output, peer, epoch>>

\* What the descriptor's close handlers do: the channel's, then the
\* connection's, whose client is told and may fail, which closes for good.
FdCloses(told) ==
    /\ shut' = TRUE /\ fes' = FALSE /\ events' = {} /\ input' = <<>>
    /\ wanted' = (wanted /\ told) /\ sealed' = (sealed \/ ~told)

\* FdStreamChannel::channel_close: what is written is flushed first.
ChannelClose(told) ==
    IF fes /\ input = <<>> THEN FdCloses(told)
    ELSE /\ shut' = TRUE
         /\ events' = events \ {"read"}
         /\ input' = IF fes THEN input ELSE <<>>
         /\ UNCHANGED <<wanted, sealed, fes>>

Reset(told) ==
    /\ ChannelClose(told)
    /\ UNCHANGED <<output, peer, epoch>>

\* disconnect, or close, which also seals the connection.
Disconnect(close, told) ==
    /\ wanted \/ fes \/ (close /\ ~sealed)
    /\ shut' = TRUE
    /\ wanted' = FALSE
    /\ sealed' = (sealed \/ close \/ (fes /\ input = <<>> /\ ~told))
    /\ fes' = (fes /\ input # <<>>)
    /\ events' = IF fes' THEN events \ {"read"} ELSE {}
    /\ input' = IF fes' THEN input ELSE <<>>
    /\ UNCHANGED <<output, peer, epoch>>

\* commit_dataframe: writing is switched on.
Commit ==
    /\ ~sealed /\ is_connected /\ Len(input) < Size
    /\ input' = Append(input, epoch)
    /\ events' = events \cup {"write"}
    /\ UNCHANGED <<wanted, sealed, shut, fes, output, peer, epoch>>

Bug_ReadAgain(ev) == ev

\* Consumed data switches reading on again.
ReadAgain(ev) == IF is_connected THEN ev \cup {"read"} ELSE ev

\* pop_front and clear.
PopFront(n) ==
    /\ n \in 1..Len(output)
    /\ output' = Take(output, n)
    /\ events' = ReadAgain(events)
    /\ UNCHANGED <<wanted, sealed, shut, fes, input, peer, epoch>>

-----------------------------------------------------------------------------
(* The event loop.                                                         *)

\* handle_fd_read: a full buffer is offered to the client (offered is what
\* it takes) before the socket is read, and what was read after.
FdRead(offered, read, taken, handled, told) ==
    LET full  == Len(output) = Size
        left  == IF full THEN Take(output, offered) ELSE output
        got   == left \o SubSeq(peer.sent, 1, read)
    IN  /\ fes /\ "read" \in events
        /\ full \/ offered = 0
        /\ offered <= Len(output)
        /\ read <= Len(peer.sent) /\ read <= Size - Len(left)
        /\ taken <= Len(got) /\ (taken > 0 => read > 0)
        /\ \/ /\ Len(left) = Size /\ read = 0       \* no room: wait for the client
              /\ events' = events \ {"read"}
              /\ UNCHANGED <<wanted, sealed, shut, fes, input, output, peer>>
           \/ /\ read > 0
              /\ output' = Take(got, taken)
              /\ peer' = [peer EXCEPT !.sent = Take(@, read)]
              /\ IF handled THEN UNCHANGED <<wanted, sealed, shut, fes, events, input>>
                 ELSE FdCloses(told)
           \/ /\ Len(left) < Size /\ peer.gone /\ peer.sent = <<>>   \* end of file
              /\ output' = left
              /\ FdCloses(told)
              /\ UNCHANGED peer
    /\ UNCHANGED epoch

\* handle_fd_write: asked is what the client writes when it is asked to.
FdWrite(asked, written, again, told) ==
    LET before == IF is_connected /\ input = <<>> THEN [i \in 1..asked |-> epoch] ELSE input
        left   == Take(before, written)
        after  == IF is_connected /\ before # <<>> /\ left = <<>>
                    THEN [i \in 1..again |-> epoch] ELSE left
    IN  /\ fes /\ "write" \in events
        /\ asked = 0 \/ (is_connected /\ ~sealed /\ input = <<>>)
        /\ again = 0 \/ (is_connected /\ ~sealed /\ written > 0 /\ left = <<>>)
        /\ written <= Len(before)
        /\ IF shut /\ after = <<>> THEN FdCloses(told)
           ELSE /\ input' = after
                /\ events' = IF ~shut /\ after = <<>> THEN events \ {"write"} ELSE events
                /\ UNCHANGED <<wanted, sealed, shut, fes>>
        /\ UNCHANGED <<output, peer, epoch>>

\* A read or write error, or the keepalive gives up.
FdBreaks(told) ==
    /\ fes
    /\ FdCloses(told)
    /\ UNCHANGED <<output, peer, epoch>>

\* TcpConnection::handle_connect.  The client takes so much in its last
\* chance; it is asked once, because has_popped is cleared where it is
\* popped; the rest is cleared.
Bug_HandleConnect(taken, ok, told) ==
    /\ wanted /\ ~is_connected /\ epoch < MaxConnections
    /\ output' = Take(output, taken)
    /\ IF input # <<>> THEN UNCHANGED <<wanted, sealed, shut, fes, events, input, peer, epoch>>
       ELSE /\ epoch' = epoch + 1
            /\ peer' = [sent |-> <<>>, gone |-> FALSE]
            /\ IF ok THEN /\ shut' = FALSE /\ fes' = TRUE /\ events' = {"read", "write"}
                          /\ UNCHANGED <<wanted, sealed, input>>
               ELSE FdCloses(told)

HandleConnect(taken, ok, told) ==
    /\ wanted /\ ~is_connected /\ epoch < MaxConnections
    /\ taken <= Len(output)
    /\ output' = <<>>
    /\ IF input # <<>> THEN UNCHANGED <<wanted, sealed, shut, fes, events, input, peer, epoch>>
       ELSE /\ epoch' = epoch + 1
            /\ peer' = [sent |-> <<>>, gone |-> FALSE]
            /\ IF ok THEN /\ shut' = FALSE /\ fes' = TRUE /\ events' = {"read", "write"}
                          /\ UNCHANGED <<wanted, sealed, input>>
               ELSE FdCloses(told)

-----------------------------------------------------------------------------
(* The peer of the open connection.                                        *)

PeerSends ==
    /\ fes /\ ~peer.gone /\ Len(peer.sent) < Size
    /\ peer' = [peer EXCEPT !.sent = Append(@, epoch)]
    /\ UNCHANGED <<wanted, sealed, shut, fes, events, input, output, epoch>>

PeerCloses ==
    /\ fes /\ ~peer.gone
    /\ peer' = [peer EXCEPT !.gone = TRUE]
    /\ UNCHANGED <<wanted, sealed, shut, fes, events, input, output, epoch>>

Amounts == 0..Size

Next ==
    \/ Connect \/ Commit \/ PeerSends \/ PeerCloses
    \/ \E n \in Amounts : PopFront(n)
    \/ \E told \in BOOLEAN : Reset(told) \/ FdBreaks(told)
    \/ \E close, told \in BOOLEAN : Disconnect(close, told)
    \/ \E offered, read, taken \in Amounts, handled, told \in BOOLEAN :
           FdRead(offered, read, taken, handled, told)
    \/ \E asked, written, again \in Amounts, told \in BOOLEAN : FdWrite(asked, written, again, told)
    \/ \E taken \in Amounts, ok, told \in BOOLEAN : HandleConnect(taken, ok, told)

Spec == Init /\ [][Next]_vars

-----------------------------------------------------------------------------
(***************************************************************************)
(* Streams do not mix: over the socket of a connection goes nothing that   *)
(* was written before it, and the client of a connection reads nothing     *)
(* that was sent before it ("Leaving old stream data in with a new         *)
(* connection would probably result in a corrupt data stream").            *)
(***************************************************************************)
StreamsDoNotMix ==
    /\ fes => Range(input) \subseteq {epoch}
    /\ is_connected => Range(output) \subseteq {epoch}

(***************************************************************************)
(* No descriptor is left without the event it needs: what is written waits *)
(* for the socket to be writable, also after the channel was closed, and   *)
(* a channel with room waits for it to be readable.                        *)
(***************************************************************************)
NothingStalls ==
    /\ fes /\ input # <<>> => "write" \in events
    /\ is_connected /\ Len(output) < Size => "read" \in events
    /\ fes /\ shut => input # <<>>
=============================================================================
