---------------------------- MODULE CombinerVote ----------------------------
(***************************************************************************)
(* The pure part of SlateCombiner: which of the (at most three) sources    *)
(* take part in a cycle's vote and what the vote yields.  No state here:   *)
(* SlateCombiner drives these operators for one combiner, FtStrings drives *)
(* them for the combiner each redundant string keeps in its sync shard.    *)
(*                                                                         *)
(* Elements are combined independently of their type, so an element's      *)
(* value is an integer; the bins that group elements by type only decide   *)
(* the order in which the elements are visited.                            *)
(***************************************************************************)
EXTENDS Integers, FiniteSets

CONSTANTS
    NumSources,      \* builders_in.size() at init
    Element,         \* the configured element paths
    Value,           \* values an element can hold
    Freshness,       \* values the freshness element takes once a message came
    SeqDefault,      \* std::numeric_limits<INT64>::min(), the proxy sender's
    AnySequence,     \* sharer_invalid_sequence_number: match any change
    StaleThreshold   \* UINT8, cycles without an update before disconnection

NumSourcesMax == 3
UINT8Max == 255

(***************************************************************************)
(* What init accepts: one to three sources, and a threshold that is not    *)
(* zero and fits the UINT8 the age is kept in.                             *)
(***************************************************************************)
ASSUME SourcesAssumption ==
    NumSources \in 1..NumSourcesMax
ASSUME ThresholdAssumption ==
    StaleThreshold \in 1..UINT8Max
ASSUME ValueAssumption ==
    /\ Value \subseteq Int
    /\ Freshness \subseteq Int \ {0}
    /\ SeqDefault \in Int \ (Freshness \cup {0})
    /\ AnySequence \notin Freshness

Source == 1..NumSources
Record == [Element -> Value]
FreshReading == Freshness \cup {0, SeqDefault}

-----------------------------------------------------------------------------
(* Freshness.                                                              *)

(***************************************************************************)
(* Zero is a default-initialised element and SeqDefault a proxy sender's;  *)
(* neither is ever an update.  Otherwise a source updated when its         *)
(* freshness changed, or equals the accepted number if one is asked for.   *)
(***************************************************************************)
Bug_UpdatedNoDefaults(f, last, accepted) ==
    IF accepted = AnySequence THEN f # last ELSE f = accepted
Updated(f, last, accepted) ==
    /\ f # 0
    /\ f # SeqDefault
    /\ IF accepted = AnySequence THEN f # last ELSE f = accepted

Bug_NextAgeUncapped(f, last, age, accepted) ==
    IF Updated(f, last, accepted) THEN 0 ELSE (age + 1) % (UINT8Max + 1)
NextAge(f, last, age, accepted) ==
    CASE Updated(f, last, accepted)                                  -> 0
      [] ~Updated(f, last, accepted) /\ age < StaleThreshold         -> age + 1
      [] ~Updated(f, last, accepted) /\ ~(age < StaleThreshold)      -> age

NextLast(f, last, accepted) == IF Updated(f, last, accepted) THEN f ELSE last

Fresh(age) == age < StaleThreshold

-----------------------------------------------------------------------------
(* The vote of one element (bin_copy, bin_max, bin_median).                *)

Max2(a, b) == IF a >= b THEN a ELSE b
Min2(a, b) == IF a <= b THEN a ELSE b
Median3(a, b, c) == Max2(Min2(a, b), Min2(Max2(a, b), c))

Lowest(S) == CHOOSE s \in S : \A t \in S : s <= t
Highest(S) == CHOOSE s \in S : \A t \in S : t <= s

(***************************************************************************)
(* The sources whose data are combined, given the connected ones: all of   *)
(* them, or in downselect mode a single one, the second of three when the  *)
(* second and third agree on every element and the first in every other    *)
(* case.                                                                   *)
(***************************************************************************)
Bug_ChosenAlwaysFirst(data, live, downselect) ==
    IF downselect /\ live # {} THEN {Lowest(live)} ELSE live
Chosen(data, live, downselect) ==
    CASE ~downselect \/ live = {}                      -> live
      [] downselect /\ Cardinality(live) \in {1, 2}    -> {Lowest(live)}
      [] downselect /\ Cardinality(live) = 3           ->
            IF data[2] = data[3] THEN {2} ELSE {1}

(***************************************************************************)
(* With nothing to combine the output keeps what it held.                  *)
(***************************************************************************)
Bug_VoteElementMin(data, picked, e, held) ==
    CASE picked = {} -> held
      [] Cardinality(picked) \in {1, 2} ->
            Min2(data[Lowest(picked)][e], data[Highest(picked)][e])
      [] Cardinality(picked) = 3 -> Min2(data[1][e], Min2(data[2][e], data[3][e]))
VoteElement(data, picked, e, held) ==
    CASE picked = {} -> held
      [] Cardinality(picked) = 1 -> data[Lowest(picked)][e]
      [] Cardinality(picked) = 2 ->
            Max2(data[Lowest(picked)][e], data[Highest(picked)][e])
      [] Cardinality(picked) = 3 -> Median3(data[1][e], data[2][e], data[3][e])

Bug_VoteAllSources(data, live, held, downselect) ==
    [e \in Element |-> VoteElement(data, Source, e, held[e])]
Bug_VoteZeroWhenNone(data, live, held, downselect) ==
    [e \in Element |-> VoteElement(data, Chosen(data, live, downselect), e, 0)]
Vote(data, live, held, downselect) ==
    [e \in Element |-> VoteElement(data, Chosen(data, live, downselect), e, held[e])]
=============================================================================
