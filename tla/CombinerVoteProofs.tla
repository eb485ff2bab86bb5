-------------------------- MODULE CombinerVoteProofs --------------------------
(***************************************************************************)
(* What the operators of CombinerVote return, for any number of sources,   *)
(* elements and values: a vote is over connected sources, yields a value   *)
(* of one of them and a record; ages and last numbers stay in their types. *)
(***************************************************************************)
EXTENDS CombinerVote, FiniteSetTheorems, TLAPS

(***************************************************************************)
(* The four shapes a set of connected sources can have, with what the      *)
(* CHOOSEs of CombinerVote pick in each.                                   *)
(***************************************************************************)
LEMMA LiveShapes ==
    ASSUME NEW S \in SUBSET Source
    PROVE  \/ S = {} /\ Cardinality(S) = 0
           \/ \E a \in Source : /\ S = {a}
                                /\ Cardinality(S) = 1
                                /\ Lowest(S) = a /\ Highest(S) = a
           \/ \E a, b \in Source : /\ a < b /\ S = {a, b}
                                   /\ Cardinality(S) = 2
                                   /\ Lowest(S) = a /\ Highest(S) = b
           \/ /\ NumSources = 3 /\ S = {1, 2, 3}
              /\ Cardinality(S) = 3
              /\ Lowest(S) = 1 /\ Highest(S) = 3
<1>1. Source \subseteq {1, 2, 3} /\ Source \subseteq Int
  BY SourcesAssumption DEF Source, NumSourcesMax
<1>2. \/ S = {}
      \/ \E a \in Source : S = {a}
      \/ \E a, b \in Source : a < b /\ S = {a, b}
      \/ S = {1, 2, 3}
  <2>1. \A a \in Source : a = 1 \/ a = 2 \/ a = 3
    BY <1>1
  <2>2. S = {x \in {1, 2, 3} : x \in S}
    BY <1>1
  <2>3. CASE 1 \in S /\ 2 \in S /\ 3 \in S
    BY <2>2, <2>3
  <2>4. CASE 1 \in S /\ 2 \in S /\ 3 \notin S
    <3>1. S = {1, 2}
      BY <2>2, <2>4
    <3> QED BY <3>1
  <2>5. CASE 1 \in S /\ 2 \notin S /\ 3 \in S
    <3>1. S = {1, 3}
      BY <2>2, <2>5
    <3> QED BY <3>1
  <2>6. CASE 1 \notin S /\ 2 \in S /\ 3 \in S
    <3>1. S = {2, 3}
      BY <2>2, <2>6
    <3> QED BY <3>1
  <2>7. CASE 1 \in S /\ 2 \notin S /\ 3 \notin S
    BY <2>2, <2>7
  <2>8. CASE 1 \notin S /\ 2 \in S /\ 3 \notin S
    BY <2>2, <2>8
  <2>9. CASE 1 \notin S /\ 2 \notin S /\ 3 \in S
    BY <2>2, <2>9
  <2>10. CASE 1 \notin S /\ 2 \notin S /\ 3 \notin S
    BY <2>2, <2>10
  <2> QED BY <2>3, <2>4, <2>5, <2>6, <2>7, <2>8, <2>9, <2>10
<1>3. CASE S = {}
  BY <1>3, FS_EmptySet
<1>4. ASSUME NEW a \in Source, S = {a}
      PROVE  Cardinality(S) = 1 /\ Lowest(S) = a /\ Highest(S) = a
  BY <1>4, <1>1, FS_Singleton DEF Lowest, Highest
<1>5. ASSUME NEW a \in Source, NEW b \in Source, a < b, S = {a, b}
      PROVE  Cardinality(S) = 2 /\ Lowest(S) = a /\ Highest(S) = b
  <2>1. Cardinality({a} \cup {b}) = 2
    <3>1. IsFiniteSet({a}) /\ Cardinality({a}) = 1 /\ b \notin {a}
      BY <1>1, <1>5, FS_Singleton
    <3> QED BY <3>1, FS_AddElement
  <2>2. S = {a} \cup {b}
    BY <1>5
  <2>3. Lowest(S) = a
    BY <1>1, <1>5 DEF Lowest
  <2>4. Highest(S) = b
    BY <1>1, <1>5 DEF Highest
  <2> QED BY <2>1, <2>2, <2>3, <2>4
<1>6. CASE S = {1, 2, 3}
  <2>1. NumSources = 3
    BY <1>6, SourcesAssumption DEF Source, NumSourcesMax
  <2>2. Cardinality(({1} \cup {2}) \cup {3}) = 3
    <3>1. IsFiniteSet({1}) /\ Cardinality({1}) = 1
      BY FS_Singleton
    <3>2. IsFiniteSet({1} \cup {2}) /\ Cardinality({1} \cup {2}) = 2
      BY <3>1, FS_AddElement
    <3> QED BY <3>2, FS_AddElement
  <2>3. S = ({1} \cup {2}) \cup {3}
    BY <1>6
  <2>4. Lowest(S) = 1 /\ Highest(S) = 3
    BY <1>6 DEF Lowest, Highest
  <2> QED BY <1>6, <2>1, <2>2, <2>3, <2>4
<1> QED BY <1>2, <1>3, <1>4, <1>5, <1>6

(***************************************************************************)
(* The median is one of its arguments and lies between any two of them.    *)
(***************************************************************************)
LEMMA MedianIsBetween ==
    ASSUME NEW a \in Int, NEW b \in Int, NEW c \in Int
    PROVE  /\ Median3(a, b, c) \in {a, b, c}
           /\ Min2(a, b) <= Median3(a, b, c) /\ Median3(a, b, c) <= Max2(a, b)
           /\ Min2(a, c) <= Median3(a, b, c) /\ Median3(a, b, c) <= Max2(a, c)
           /\ Min2(b, c) <= Median3(a, b, c) /\ Median3(a, b, c) <= Max2(b, c)
BY DEF Median3, Min2, Max2

(***************************************************************************)
(* The chosen sources are connected ones, and there are some if any is.    *)
(***************************************************************************)
LEMMA ChosenIsConnected ==
    ASSUME NEW d, NEW live \in SUBSET Source, NEW ds \in BOOLEAN
    PROVE  /\ Chosen(d, live, ds) \subseteq live
           /\ live # {} => Chosen(d, live, ds) # {}
<1>1. CASE ~ds \/ live = {}
  BY <1>1, FS_EmptySet DEF Chosen
<1>2. CASE ~(~ds \/ live = {})
  <2>1. CASE Cardinality(live) \in {1, 2}
    <3>1. Lowest(live) \in live
      BY <1>2, <2>1, LiveShapes
    <3> QED BY <1>2, <2>1, <3>1 DEF Chosen
  <2>2. CASE Cardinality(live) = 3
    <3>1. live = {1, 2, 3}
      BY <1>2, <2>2, LiveShapes
    <3> QED BY <1>2, <2>2, <3>1 DEF Chosen
  <2> QED BY <1>2, <2>1, <2>2, LiveShapes
<1> QED BY <1>1, <1>2

(***************************************************************************)
(* The vote over a non-empty set of sources is some source's value.        *)
(***************************************************************************)
LEMMA VoteTraces ==
    ASSUME NEW d \in [Source -> Record], NEW picked \in SUBSET Source,
           NEW e \in Element, NEW held, picked # {}
    PROVE  \E s \in picked : VoteElement(d, picked, e, held) = d[s][e]
<1>1. \A s \in Source : d[s][e] \in Int
  BY ValueAssumption DEF Record
<1>2. CASE Cardinality(picked) = 1
  BY <1>2, LiveShapes DEF VoteElement
<1>3. CASE Cardinality(picked) = 2
  <2>1. PICK a \in picked, b \in picked : Lowest(picked) = a /\ Highest(picked) = b
    BY <1>3, LiveShapes
  <2>2. VoteElement(d, picked, e, held) = Max2(d[a][e], d[b][e])
    BY <1>3, <2>1 DEF VoteElement
  <2> QED BY <1>1, <2>1, <2>2 DEF Max2
<1>4. CASE Cardinality(picked) = 3
  <2>1. picked = {1, 2, 3}
    BY <1>4, LiveShapes
  <2>2. VoteElement(d, picked, e, held) = Median3(d[1][e], d[2][e], d[3][e])
    BY <1>4 DEF VoteElement
  <2> QED BY <1>1, <2>1, <2>2, MedianIsBetween
<1> QED BY <1>2, <1>3, <1>4, LiveShapes

LEMMA VoteIsRecord ==
    ASSUME NEW d \in [Source -> Record], NEW live \in SUBSET Source, NEW held \in Record,
           NEW ds \in BOOLEAN
    PROVE  Vote(d, live, held, ds) \in Record
<1>1. SUFFICES ASSUME NEW e \in Element
               PROVE  VoteElement(d, Chosen(d, live, ds), e, held[e]) \in Value
  BY DEF Vote, Record
<1>2. CASE Chosen(d, live, ds) = {}
  BY <1>2, FS_EmptySet DEF VoteElement, Record
<1>3. CASE Chosen(d, live, ds) # {}
  <2>1. Chosen(d, live, ds) \in SUBSET Source
    BY ChosenIsConnected
  <2>2. PICK s \in Source : VoteElement(d, Chosen(d, live, ds), e, held[e]) = d[s][e]
    BY <1>3, <2>1, VoteTraces
  <2> QED BY <2>2 DEF Record
<1> QED BY <1>2, <1>3

(***************************************************************************)
(* One cycle of freshness: the age, a UINT8, stops at the threshold, and   *)
(* a number that is kept is a real one or the initial default.             *)
(***************************************************************************)
LEMMA AgeIsBounded ==
    ASSUME NEW f, NEW last, NEW age \in 0..StaleThreshold, NEW accepted
    PROVE  NextAge(f, last, age, accepted) \in 0..StaleThreshold
BY ThresholdAssumption DEF NextAge, UINT8Max

LEMMA LastIsReal ==
    ASSUME NEW f \in FreshReading, NEW last \in Freshness \cup {SeqDefault}, NEW accepted
    PROVE  NextLast(f, last, accepted) \in Freshness \cup {SeqDefault}
BY DEF NextLast, Updated, FreshReading
=============================================================================
