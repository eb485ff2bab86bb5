------------------------------ MODULE TcpServer ------------------------------
(***************************************************************************)
(* A listening server and its connections.  A new connection is pending    *)
(* until it asks to be accepted, and may ask at once.  Both lists are      *)
(* pruned when a connection comes in and on every dispatch: closed         *)
(* connections leave, accepted ones change lists, the oldest beyond        *)
(* max_connections are closed.                                             *)
(*                                                                         *)
(* ServerFd is not in the tree; of it the model keeps whether it is        *)
(* closed, asked to be accepted and was accepted.                          *)
(***************************************************************************)
EXTENDS Integers, Sequences, Functions, Lists

CONSTANTS
    Conns,      \* bound: the connections that may ever come in
    MaxLimit    \* bound on max_connections

VARIABLES
    listening,              \* listen_fd
    connections, pending,   \* the server's lists
    max,                    \* max_connections
    opened,                 \* connections whose descriptor is open
    asks,                   \* is_acceptance_requested
    accepted,               \* is_connection_accepted
    unseen,                 \* connections that have not come in yet
    owners                  \* (history) what the subclass knows: connections, none, or told so again

vars == <<listening, connections, pending, max, opened, asks, accepted, unseen, owners>>

TypeOK ==
    /\ listening \in BOOLEAN
    /\ connections \in Seq(Conns) /\ pending \in Seq(Conns)
    /\ max \in 0..MaxLimit
    /\ {opened, asks, accepted, unseen} \subseteq SUBSET Conns
    /\ owners \in {"some", "none", "told twice"}

Init ==
    /\ listening = FALSE
    /\ connections = <<>> /\ pending = <<>>
    /\ max \in 1..MaxLimit
    /\ opened = {} /\ asks = {} /\ accepted = {}
    /\ unseen = Conns
    /\ owners = "none"

-----------------------------------------------------------------------------
(* The lists, as one record of what pruning changes.                       *)

Now == [conns |-> connections, pend |-> pending, open |-> opened, acc |-> accepted]

Newest(s, n) == IF Len(s) <= n THEN s ELSE SubSeq(s, Len(s) - n + 1, Len(s))
Oldest(s, n) == IF Len(s) <= n THEN <<>> ELSE SubSeq(s, 1, Len(s) - n)
Members(s) == {s[i] : i \in 1..Len(s)}

\* server_accept_connection of those of s that ask, in their order; the
\* subclass refuses some, which are closed but stay on the list till pruned.
Accept(l, s, refused) ==
    LET new == Filter(s, asks')
    IN  [l EXCEPT !.conns = @ \o new,
                  !.acc = @ \cup Members(new),
                  !.open = @ \ (Members(new) \cap refused)]

Bug_PrunePendingKeepsAccepted(l, refused) ==
    LET alive == Filter(l.pend, l.open)
        moved == Accept(l, alive, refused)
        rest  == alive
    IN  [moved EXCEPT !.pend = Newest(rest, max), !.open = @ \ Members(Oldest(rest, max))]

\* server_prune_pending_connections
PrunePending(l, refused) ==
    LET alive == Filter(l.pend, l.open)
        moved == Accept(l, alive, refused)
        rest  == Filter(alive, Conns \ moved.acc)
    IN  [moved EXCEPT !.pend = Newest(rest, max), !.open = @ \ Members(Oldest(rest, max))]

\* server_prune_accepted_connections
PruneAccepted(l) ==
    LET alive == Filter(l.conns, l.open)
    IN  [l EXCEPT !.conns = Newest(alive, max), !.open = @ \ Members(Oldest(alive, max))]

Bug_AllGoneIfEmpty(before, after) == after.conns = <<>>

\* server_all_disconnect is called: some connection was closed and none is left.
AllGone(before, after) == before.conns # <<>> /\ after.conns = <<>>

\* server_prune_connections, from the lists l.
Prune(l, refused) ==
    LET half == PrunePending(l, refused)
        done == PruneAccepted(half)
        known == IF half.conns # <<>> THEN "some" ELSE owners
    IN  /\ connections' = done.conns /\ pending' = done.pend
        /\ opened' = done.open /\ accepted' = done.acc
        /\ owners' = IF ~AllGone(half, done) THEN known
                     ELSE IF known = "some" THEN "none" ELSE "told twice"

-----------------------------------------------------------------------------
Start ==
    /\ ~listening
    /\ listening' = TRUE
    /\ UNCHANGED <<connections, pending, max, opened, asks, accepted, unseen, owners>>

\* server_handle_connect: accept() fails, or the subclass does not take the connection.
ConnectFails(c) ==
    /\ listening /\ c \in unseen
    /\ unseen' = unseen \ {c}
    /\ UNCHANGED <<listening, connections, pending, max, opened, asks, accepted, owners>>

\* server_handle_connect with add_connection; ready: it asks to be accepted from the start.
Connect(c, ready, refused) ==
    /\ listening /\ c \in unseen
    /\ unseen' = unseen \ {c}
    /\ asks' = IF ready THEN asks \cup {c} ELSE asks
    /\ LET l == [Now EXCEPT !.open = @ \cup {c}]
       IN  Prune(IF ready THEN Accept(l, <<c>>, refused) ELSE [l EXCEPT !.pend = Append(@, c)], refused)
    /\ UNCHANGED <<listening, max>>

\* What a connection does of itself: between dispatches, or dispatched.
AsksIn(c) ==
    /\ c \in opened \ asks
    /\ asks' = asks \cup {c}
    /\ UNCHANGED <<listening, connections, pending, max, opened, accepted, unseen, owners>>

\* server_handle_disconnect only asks for a dispatch, deletion waits for it.
Disconnects(c) ==
    /\ c \in opened
    /\ opened' = opened \ {c}
    /\ UNCHANGED <<listening, connections, pending, max, asks, accepted, unseen, owners>>

Dispatch(refused) ==
    /\ asks' = asks
    /\ Prune(Now, refused)
    /\ UNCHANGED <<listening, max, unseen>>

\* stop, also when the listening port closes: everything is closed.
Stop ==
    /\ listening \/ connections # <<>> \/ pending # <<>>
    /\ listening' = FALSE
    /\ opened' = opened \ (Members(connections) \cup Members(pending))
    /\ connections' = <<>> /\ pending' = <<>>
    /\ owners' = IF connections # <<>> THEN "none" ELSE owners
    /\ UNCHANGED <<max, asks, accepted, unseen>>

\* The code tests the old limit against zero.
SetMaxConnections(n) ==
    /\ max # 0
    /\ max' = n
    /\ UNCHANGED <<listening, connections, pending, opened, asks, accepted, unseen, owners>>

Next ==
    \/ Start \/ Stop
    \/ \E c \in Conns : ConnectFails(c) \/ AsksIn(c) \/ Disconnects(c)
    \/ \E c \in Conns, ready \in BOOLEAN, refused \in SUBSET Conns : Connect(c, ready, refused)
    \/ \E refused \in SUBSET Conns : Dispatch(refused)
    \/ \E n \in 0..MaxLimit : SetMaxConnections(n)

Spec == Init /\ [][Next]_vars

-----------------------------------------------------------------------------
(***************************************************************************)
(* No connection is lost or held twice: every open one is on exactly one   *)
(* list, once, the accepted ones on the list of accepted, and whatever     *)
(* leaves a list is closed, on pruning, refusal, overflow and stop.        *)
(***************************************************************************)
HeldOnce ==
    /\ IsInjective(connections \o pending)
    /\ opened \subseteq Members(connections) \cup Members(pending)
    /\ Members(connections) \subseteq accepted
    /\ Members(pending) \cap accepted = {}

(***************************************************************************)
(* The subclass knows whether anybody is connected: it is told that all    *)
(* disconnected when the last accepted connection leaves the list, and at  *)
(* no other time (server_all_disconnect: "transitioned from having at      *)
(* least one connection to having no connections").                        *)
(***************************************************************************)
AllDisconnectIsTold ==
    owners = IF connections = <<>> THEN "none" ELSE "some"
=============================================================================
