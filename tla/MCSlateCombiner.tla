--------------------------- MODULE MCSlateCombiner ---------------------------
(***************************************************************************)
(* SlateCombiner on a small instance, with a history that the code does    *)
(* not keep: how many combines ago each source last gave a sign of life.   *)
(***************************************************************************)
EXTENDS SlateCombiner, TLC

MCSeqDefault == -1

\* Elements are told apart by nothing: their order plays no part anywhere.
MCSymmetry == Permutations(Element)

\* Three of the records are enough to tear, to disagree and to agree; a proxy
\* sender's message carries one of them.
MCMessage(f) == {r \in Record : IF f = SeqDefault
                                THEN \A e \in Element : r[e] = Lowest(Value)
                                ELSE \E e \in Element : r[e] = Lowest(Value)}

VARIABLES
    news,   \* a message with a real sequence number came since the last combine
    quiet   \* combines since the one that saw the last sign of life, capped

HistoryInit ==
    /\ Init
    /\ news = [s \in Source |-> FALSE]
    /\ quiet = [s \in Source |-> StaleThreshold]

HistoryReceive(s, f, d) ==
    /\ Receive(s, f, d)
    /\ news' = [news EXCEPT ![s] = @ \/ f \in Freshness]
    /\ UNCHANGED quiet

(***************************************************************************)
(* Holding the very number that is asked for is a sign of life, and news   *)
(* that is not asked for stays news for a combine that takes any number.   *)
(***************************************************************************)
Alive(s, accepted) ==
    IF accepted = AnySequence THEN news[s] ELSE fresh[s] = accepted

HistoryCombine(accepted) ==
    /\ Combine(accepted)
    /\ quiet' = [s \in Source |-> IF Alive(s, accepted)
                                  THEN 0
                                  ELSE Min2(quiet[s] + 1, StaleThreshold)]
    /\ news' = [s \in Source |-> news[s] /\ accepted # AnySequence /\ fresh[s] # accepted]

HistoryNext ==
    \/ \E s \in Source, f \in Freshness \cup {SeqDefault} :
          \E d \in MCMessage(f) : HistoryReceive(s, f, d)
    \/ \E accepted \in Freshness \cup {AnySequence} : HistoryCombine(accepted)

HistorySpec == HistoryInit /\ [][HistoryNext]_<<vars, news, quiet>>

(***************************************************************************)
(* A source that has said nothing for StaleThreshold combines is out of    *)
(* the vote: neither the default value, a proxy sender's nor a repeated    *)
(* number keeps it in, and the first combine after start-up finds nobody.  *)
(***************************************************************************)
SilentSourceIsOut ==
    \A s \in Source : connected[s] => quiet[s] < StaleThreshold

(***************************************************************************)
(* Who is not connected decides nothing, in either mode: a silent source   *)
(* leaves the vote, its last record has no say in it, and downselect       *)
(* copies one whole record, that of the connected majority.                *)
(***************************************************************************)
OnlyConnectedDecide ==
    /\ []SilentSourceIsOut
    /\ DisconnectedHasNoSay /\ NeverTears /\ DownselectFollowsMajority
=============================================================================
