------------------------- MODULE SlateCombinerProofs -------------------------
(***************************************************************************)
(* For any number of elements, values, freshness numbers and any staleness *)
(* threshold: the metrics stay in their ranges (the UINT8 age never        *)
(* wraps), every combined element comes from a source connected that       *)
(* cycle, and who is not connected, or silent too long, decides nothing.   *)
(***************************************************************************)
EXTENDS MCSlateCombiner, CombinerVoteProofs

(***************************************************************************)
(* Every metric stays in its range; in particular fresh_age, a UINT8,      *)
(* stops at the threshold instead of wrapping to "fresh" (init,            *)
(* validate_and_combine).                                                  *)
(***************************************************************************)
THEOREM TypeCorrect == Spec => []TypeOK
<1>1. Init => TypeOK
  <2> SUFFICES ASSUME Init PROVE TypeOK
    OBVIOUS
  <2>1. PICK d \in Record : data = [s \in Source |-> d] /\ out = d
    BY DEF Init
  <2>2. data \in [Source -> Record] /\ out \in Record
    BY <2>1
  <2>3. freshAge \in [Source -> 0..StaleThreshold]
    BY ThresholdAssumption DEF Init, UINT8Max
  <2> QED BY <2>2, <2>3 DEF Init, TypeOK, FreshReading
<1>2. TypeOK /\ [Next]_vars => TypeOK'
  <2> SUFFICES ASSUME TypeOK, [Next]_vars PROVE TypeOK'
    OBVIOUS
  <2> USE DEF TypeOK
  <2>1. ASSUME NEW s \in Source, NEW f \in Freshness \cup {SeqDefault},
               NEW d \in Record, Receive(s, f, d)
        PROVE  TypeOK'
    BY <2>1 DEF Receive, FreshReading
  <2>2. ASSUME NEW accepted \in Freshness \cup {AnySequence}, Combine(accepted)
        PROVE  TypeOK'
    <3> DEFINE age(s) == NextAge(fresh[s], freshLast[s], freshAge[s], accepted)
               live == {s \in Source : Fresh(age(s))}
    <3>1. \A s \in Source : age(s) \in 0..StaleThreshold
      BY AgeIsBounded
    <3>2. \A s \in Source :
            NextLast(fresh[s], freshLast[s], accepted) \in Freshness \cup {SeqDefault}
      BY LastIsReal
    <3>3. Vote(data, live, out, downselect) \in Record
      BY VoteIsRecord
    <3> QED BY <2>2, <3>1, <3>2, <3>3 DEF Combine
  <2>3. CASE UNCHANGED vars
    BY <2>3 DEF vars
  <2> QED BY <2>1, <2>2, <2>3 DEF Next
<1> QED BY <1>1, <1>2, PTL DEF Spec

(***************************************************************************)
(* Every element of the combined slate comes from a source connected on    *)
(* that cycle, and with none connected nothing changes, in both modes.     *)
(***************************************************************************)
THEOREM OutputTraces == Spec => OutputTracesToConnected
<1>1. ASSUME TypeOK, NEW accepted \in Freshness \cup {AnySequence}, Combine(accepted)
      PROVE  IF ConnectedSources' = {}
             THEN out' = out
             ELSE \A e \in Element : \E s \in ConnectedSources' : out'[e] = data[s][e]
  <2> DEFINE live == {s \in Source :
                        Fresh(NextAge(fresh[s], freshLast[s], freshAge[s], accepted))}
             picked == Chosen(data, live, downselect)
  <2>1. ConnectedSources' = live
    BY <1>1 DEF Combine, ConnectedSources
  <2>2. out' = Vote(data, live, out, downselect)
    BY <1>1 DEF Combine
  <2>3. CASE live = {}
    <3>1. picked = {}
      BY <1>1, <2>3, ChosenIsConnected DEF TypeOK
    <3>2. \A e \in Element : VoteElement(data, picked, e, out[e]) = out[e]
      <4> HIDE DEF picked
      <4> QED BY <3>1, FS_EmptySet DEF VoteElement
    <3>3. out' = [e \in Element |-> out[e]]
      BY <2>2, <3>2 DEF Vote
    <3> QED BY <1>1, <2>1, <2>3, <3>3 DEF TypeOK, Record
  <2>4. CASE live # {}
    <3>1. picked # {} /\ picked \subseteq live
      BY <1>1, <2>4, ChosenIsConnected DEF TypeOK
    <3>2. ASSUME NEW e \in Element PROVE \E s \in live : out'[e] = data[s][e]
      <4>1. \E s \in picked : VoteElement(data, picked, e, out[e]) = data[s][e]
        <5>1. picked \in SUBSET Source /\ picked # {}
          BY <3>1
        <5>2. data \in [Source -> Record]
          BY <1>1 DEF TypeOK
        <5> HIDE DEF picked
        <5> QED BY <5>1, <5>2, VoteTraces
      <4>2. out'[e] = VoteElement(data, picked, e, out[e])
        BY <2>2 DEF Vote
      <4> QED BY <3>1, <4>1, <4>2
    <3> QED BY <2>1, <2>4, <3>2
  <2> QED BY <2>3, <2>4
<1>2. TypeOK /\ [Next]_vars =>
        [CombineStep =>
           IF ConnectedSources' = {}
           THEN out' = out
           ELSE \A e \in Element : \E s \in ConnectedSources' : out'[e] = data[s][e]]_vars
  BY <1>1 DEF CombineStep
<1> QED BY <1>2, TypeCorrect, PTL DEF Spec, OutputTracesToConnected

(***************************************************************************)
(* With three sources connected, each element of the median lies between   *)
(* any two sources' values, whichever the third says.                      *)
(***************************************************************************)
THEOREM OneFaultBounded == Spec => OneFaultIsBounded
<1>1. ASSUME TypeOK, NEW accepted \in Freshness \cup {AnySequence}, Combine(accepted),
             Cardinality(ConnectedSources') = 3, ~downselect,
             NEW s \in Source, NEW t \in Source, s # t, NEW e \in Element
      PROVE  /\ Min2(data[s][e], data[t][e]) <= out'[e]
             /\ out'[e] <= Max2(data[s][e], data[t][e])
  <2> DEFINE live == {x \in Source :
                        Fresh(NextAge(fresh[x], freshLast[x], freshAge[x], accepted))}
  <2>1. ConnectedSources' = live
    BY <1>1 DEF Combine, ConnectedSources
  <2>2. live = {1, 2, 3} /\ NumSources = 3
    BY <1>1, <2>1, LiveShapes
  <2>3. Chosen(data, live, downselect) = live
    BY <1>1, <2>2 DEF Chosen
  <2>4. out'[e] = VoteElement(data, live, e, out[e])
    BY <1>1, <2>3 DEF Combine, Vote
  <2>5. out'[e] = Median3(data[1][e], data[2][e], data[3][e])
    BY <1>1, <2>1, <2>2, <2>4, FS_EmptySet DEF VoteElement
  <2>6. \A x \in Source : data[x][e] \in Int
    BY <1>1, ValueAssumption DEF TypeOK, Record
  <2>7. Source = {1, 2, 3}
    BY <2>2 DEF Source
  <2>8. \A a, b, c \in Int :
          /\ Min2(a, b) <= Median3(a, b, c) /\ Median3(a, b, c) <= Max2(a, b)
          /\ Min2(a, c) <= Median3(a, b, c) /\ Median3(a, b, c) <= Max2(a, c)
          /\ Min2(b, c) <= Median3(a, b, c) /\ Median3(a, b, c) <= Max2(b, c)
    BY MedianIsBetween
  <2>9. \A a, b \in Int : Min2(a, b) = Min2(b, a) /\ Max2(a, b) = Max2(b, a)
    BY DEF Min2, Max2
  <2> QED BY <1>1, <2>5, <2>6, <2>7, <2>8, <2>9
<1>2. TypeOK /\ [Next]_vars =>
        [(CombineStep /\ Cardinality(ConnectedSources') = 3 /\ ~downselect) =>
            \A s, t \in Source : s # t => \A e \in Element :
                /\ Min2(data[s][e], data[t][e]) <= out'[e]
                /\ out'[e] <= Max2(data[s][e], data[t][e])]_vars
  BY <1>1 DEF CombineStep
<1> QED BY <1>2, TypeCorrect, PTL DEF Spec, OneFaultIsBounded

-----------------------------------------------------------------------------
(* Who is not connected has no say.                                        *)

\* Neither mode looks at the record of a source that is not connected.
LEMMA VoteIgnores ==
    ASSUME NEW d \in [Source -> Record], NEW other \in [Source -> Record],
           NEW live \in SUBSET Source, \A s \in live : other[s] = d[s],
           NEW held \in Record, NEW ds \in BOOLEAN
    PROVE  Vote(other, live, held, ds) = Vote(d, live, held, ds)
<1> DEFINE picked == Chosen(d, live, ds)
<1>1. Chosen(other, live, ds) = picked
  <2>1. CASE live = {1, 2, 3}
    BY <2>1 DEF Chosen
  <2>2. CASE live # {1, 2, 3}
    <3>1. live # {} => Cardinality(live) \in {1, 2}
      BY <2>2, LiveShapes
    <3> QED BY <3>1 DEF Chosen
  <2> QED BY <2>1, <2>2
<1>2. picked \in SUBSET live
  BY ChosenIsConnected
<1>3. ASSUME NEW e \in Element
      PROVE  VoteElement(other, picked, e, held[e]) = VoteElement(d, picked, e, held[e])
  <2>1. picked \in SUBSET Source
    BY <1>2
  <2> HIDE DEF picked
  <2>2. CASE picked = {}
    BY <2>2, FS_EmptySet DEF VoteElement
  <2>3. CASE Cardinality(picked) = 1
    <3>1. Lowest(picked) \in picked
      BY <2>1, <2>3, LiveShapes, FS_EmptySet
    <3> QED BY <1>2, <2>3, <3>1 DEF VoteElement
  <2>4. CASE Cardinality(picked) = 2
    <3>1. Lowest(picked) \in picked /\ Highest(picked) \in picked
      BY <2>1, <2>4, LiveShapes, FS_EmptySet
    <3> QED BY <1>2, <2>4, <3>1 DEF VoteElement
  <2>5. CASE Cardinality(picked) = 3
    <3>1. picked = {1, 2, 3}
      BY <2>1, <2>5, LiveShapes, FS_EmptySet
    <3> QED BY <1>2, <2>5, <3>1 DEF VoteElement
  <2> QED BY <2>1, <2>2, <2>3, <2>4, <2>5, LiveShapes
<1> QED BY <1>1, <1>3 DEF Vote

\* Downselect takes one source, the first of those that agree or else the first.
LEMMA DownselectPicks ==
    ASSUME NEW d \in [Source -> Record], NEW live \in SUBSET Source, live # {}
    PROVE  LET agreeing == {s \in live : \E t \in live \ {s} : d[s] = d[t]}
           IN  \E s \in live :
                  /\ Chosen(d, live, TRUE) = {s}
                  /\ d[s] = d[Lowest(IF agreeing = {} THEN live ELSE agreeing)]
<1> DEFINE agreeing == {s \in live : \E t \in live \ {s} : d[s] = d[t]}
           first == Lowest(IF agreeing = {} THEN live ELSE agreeing)
<1> SUFFICES \E s \in live : Chosen(d, live, TRUE) = {s} /\ d[s] = d[first]
  OBVIOUS
<1>1. CASE Cardinality(live) = 1
  <2>1. PICK a \in Source : live = {a} /\ Lowest(live) = a
    BY <1>1, LiveShapes
  <2>2. agreeing = {}
    BY <2>1
  <2> QED BY <1>1, <2>1, <2>2 DEF Chosen
<1>2. CASE Cardinality(live) = 2
  <2>1. PICK a, b \in Source : a < b /\ live = {a, b} /\ Lowest(live) = a
    BY <1>2, LiveShapes
  <2>2. agreeing = {} \/ agreeing = live
    BY <2>1
  <2> QED BY <1>2, <2>1, <2>2 DEF Chosen
<1>3. CASE Cardinality(live) = 3
  <2>1. live = {1, 2, 3} /\ Lowest(live) = 1
    BY <1>3, LiveShapes
  <2>2. Chosen(d, live, TRUE) = IF d[2] = d[3] THEN {2} ELSE {1}
    BY <1>3, <2>1 DEF Chosen
  <2>3. agreeing = {} \/ agreeing = {1, 2} \/ agreeing = {1, 3} \/ agreeing = {2, 3} \/ agreeing = live
    BY <2>1
  <2>4. Lowest({1, 2}) = 1 /\ Lowest({1, 3}) = 1 /\ Lowest({2, 3}) = 2
    BY DEF Lowest
  <2>5. CASE d[2] = d[3]
    <3>1. agreeing = {2, 3} \/ (agreeing = live /\ d[1] = d[2])
      BY <2>1, <2>3, <2>5
    <3>2. agreeing # {}
      BY <2>1, <3>1
    <3>3. first = 2 \/ (first = 1 /\ d[1] = d[2])
      <4> HIDE DEF agreeing
      <4> QED BY <2>1, <2>4, <3>1, <3>2
    <3> HIDE DEF first
    <3> QED BY <2>1, <2>2, <2>5, <3>3
  <2>6. CASE d[2] # d[3]
    <3>1. agreeing # {2, 3}
      BY <2>1, <2>6
    <3>2. first = 1
      <4> HIDE DEF agreeing
      <4> QED BY <2>1, <2>3, <2>4, <3>1
    <3> HIDE DEF first
    <3> QED BY <2>1, <2>2, <2>6, <3>2
  <2> QED BY <2>5, <2>6
<1> QED BY <1>1, <1>2, <1>3, LiveShapes

\* A vote over one source is its record.
LEMMA VoteOfOne ==
    ASSUME NEW d \in [Source -> Record], NEW live \in SUBSET Source, NEW held,
           NEW s \in Source, Chosen(d, live, TRUE) = {s}
    PROVE  Vote(d, live, held, TRUE) = d[s]
<1>1. Cardinality({s}) = 1 /\ {s} # {} /\ Lowest({s}) = s
  <2>1. s \in Int
    BY SourcesAssumption DEF Source
  <2> QED BY <2>1, FS_Singleton DEF Lowest
<1>2. \A e \in Element : VoteElement(d, {s}, e, held[e]) = d[s][e]
  BY <1>1 DEF VoteElement
<1>3. Vote(d, live, held, TRUE) = [e \in Element |-> d[s][e]]
  BY <1>2 DEF Vote
<1> QED BY <1>3 DEF Record

\* What a combine votes over, and what comes of it.
LEMMA CombineVotes ==
    ASSUME TypeOK, NEW accepted, Combine(accepted)
    PROVE  /\ ConnectedSources' \in SUBSET Source
           /\ out' = Vote(data, ConnectedSources', out, downselect)
BY DEF TypeOK, Combine, ConnectedSources

(***************************************************************************)
(* validate_and_combine: a source that is not connected this cycle could   *)
(* hold any record and the combined slate would be the same.               *)
(***************************************************************************)
THEOREM DisconnectedIsMute == Spec => DisconnectedHasNoSay
<1>1. ASSUME TypeOK, CombineStep, NEW s \in Source \ ConnectedSources', NEW r \in Record
      PROVE  out' = Vote([data EXCEPT ![s] = r], ConnectedSources', out, downselect)
  <2>1. PICK accepted : Combine(accepted)
    BY <1>1 DEF CombineStep
  <2>2. /\ ConnectedSources' \in SUBSET Source
        /\ out' = Vote(data, ConnectedSources', out, downselect)
    BY <1>1, <2>1, CombineVotes
  <2>3. data \in [Source -> Record] /\ out \in Record /\ downselect \in BOOLEAN
    BY <1>1 DEF TypeOK
  <2>4. PICK live \in SUBSET Source : live = ConnectedSources'
    BY <2>2
  <2>5. PICK other : other = [data EXCEPT ![s] = r]
    OBVIOUS
  <2>6. other \in [Source -> Record] /\ \A t \in live : other[t] = data[t]
    BY <1>1, <2>3, <2>4, <2>5
  <2>7. Vote(other, live, out, downselect) = Vote(data, live, out, downselect)
    BY <2>3, <2>6, VoteIgnores
  <2> QED BY <2>2, <2>4, <2>5, <2>7
<1>2. TypeOK /\ [Next]_vars =>
        [CombineStep =>
          \A s \in Source \ ConnectedSources', r \in Record :
             out' = Vote([data EXCEPT ![s] = r], ConnectedSources', out, downselect)]_vars
  BY <1>1
<1> QED BY <1>2, TypeCorrect, PTL DEF Spec, DisconnectedHasNoSay

(***************************************************************************)
(* Downselect: the combined record is one connected source's, whole, and   *)
(* that of the majority where two or more are exactly equal.               *)
(***************************************************************************)
THEOREM DownselectCopiesOne == Spec => NeverTears /\ DownselectFollowsMajority
<1>1. ASSUME TypeOK, CombineStep, downselect, ConnectedSources' # {}
      PROVE  /\ \E s \in ConnectedSources' : out' = data[s]
             /\ LET agreeing == {s \in ConnectedSources' :
                                    \E t \in ConnectedSources' \ {s} : data[s] = data[t]}
                IN  out' = data[Lowest(IF agreeing = {} THEN ConnectedSources' ELSE agreeing)]
  <2>1. /\ ConnectedSources' \in SUBSET Source
        /\ out' = Vote(data, ConnectedSources', out, TRUE)
        /\ data \in [Source -> Record]
    <3>1. PICK accepted : Combine(accepted)
      BY <1>1 DEF CombineStep
    <3>2. downselect = TRUE
      BY <1>1 DEF TypeOK
    <3> QED BY <1>1, <3>1, <3>2, CombineVotes DEF TypeOK
  <2>2. PICK live \in SUBSET Source : live = ConnectedSources'
    BY <2>1
  <2> DEFINE agreeing == {s \in live : \E t \in live \ {s} : data[s] = data[t]}
  <2>3. PICK s \in live :
          /\ Chosen(data, live, TRUE) = {s}
          /\ data[s] = data[Lowest(IF agreeing = {} THEN live ELSE agreeing)]
    BY <1>1, <2>1, <2>2, DownselectPicks
  <2>4. out' = data[s]
    <3>1. Vote(data, live, out, TRUE) = data[s]
      BY <2>1, <2>3, VoteOfOne
    <3> QED BY <2>1, <2>2, <3>1
  <2> QED BY <2>2, <2>3, <2>4
<1>2. TypeOK /\ [Next]_vars =>
        [(CombineStep /\ downselect /\ ConnectedSources' # {}) =>
            \E s \in ConnectedSources' : out' = data[s]]_vars
  BY <1>1
<1>3. TypeOK /\ [Next]_vars =>
        [(CombineStep /\ downselect /\ ConnectedSources' # {}) =>
            LET agreeing == {s \in ConnectedSources' :
                                \E t \in ConnectedSources' \ {s} : data[s] = data[t]}
            IN  out' = data[Lowest(IF agreeing = {} THEN ConnectedSources' ELSE agreeing)]]_vars
  BY <1>1
<1> QED BY <1>2, <1>3, TypeCorrect, PTL DEF Spec, NeverTears, DownselectFollowsMajority

-----------------------------------------------------------------------------
(***************************************************************************)
(* Silence.  A source's age counts at least the combines since its last    *)
(* sign of life: it is out of the vote by its age, no combine finds an     *)
(* update in a source without one, and a number that a combine has not     *)
(* seen yet is news.                                                       *)
(***************************************************************************)
SilenceInv ==
    /\ TypeOK
    /\ quiet \in [Source -> Nat] /\ news \in [Source -> BOOLEAN]
    /\ \A s \in Source :
          /\ connected[s] => Fresh(freshAge[s])
          /\ quiet[s] <= freshAge[s]
          /\ fresh[s] \in Freshness /\ fresh[s] # freshLast[s] => news[s]

LEMMA HistoryIsCombiner == HistorySpec => Spec
<1>1. HistoryInit => Init
  BY DEF HistoryInit
<1>2. \A f : MCMessage(f) \subseteq Record
  BY DEF MCMessage
<1>3. [HistoryNext]_<<vars, news, quiet>> => [Next]_vars
  BY <1>2 DEF HistoryNext, HistoryReceive, HistoryCombine, Next
<1> QED BY <1>1, <1>3, PTL DEF HistorySpec, Spec

LEMMA SilenceInit == HistoryInit /\ TypeOK => SilenceInv
<1> SUFFICES ASSUME HistoryInit, TypeOK PROVE SilenceInv
  OBVIOUS
<1>1. StaleThreshold \in Nat
  BY ThresholdAssumption DEF UINT8Max
<1> QED BY <1>1, ValueAssumption DEF HistoryInit, Init, SilenceInv

\* An update is a sign of life.
LEMMA UpdateIsAlive ==
    ASSUME SilenceInv, NEW s \in Source, NEW accepted \in Freshness \cup {AnySequence},
           Updated(fresh[s], freshLast[s], accepted)
    PROVE  Alive(s, accepted)
BY DEF SilenceInv, TypeOK, FreshReading, Updated, Alive

LEMMA SilenceNext ==
    SilenceInv /\ TypeOK' /\ [HistoryNext]_<<vars, news, quiet>> => SilenceInv'
<1> SUFFICES ASSUME SilenceInv, TypeOK', [HistoryNext]_<<vars, news, quiet>>
             PROVE  SilenceInv'
  OBVIOUS
<1>1. ASSUME NEW s \in Source, NEW f \in Freshness \cup {SeqDefault}, NEW d,
             HistoryReceive(s, f, d)
      PROVE  SilenceInv'
  BY <1>1 DEF SilenceInv, HistoryReceive, Receive, TypeOK
<1>2. ASSUME NEW accepted \in Freshness \cup {AnySequence}, HistoryCombine(accepted)
      PROVE  SilenceInv'
  <2>1. StaleThreshold \in Nat
    BY ThresholdAssumption DEF UINT8Max
  <2>2. \A a, b \in Nat : Min2(a, b) \in Nat /\ Min2(a, b) <= a /\ Min2(a, b) <= b
    BY DEF Min2
  <2>3. quiet' \in [Source -> Nat] /\ news' \in [Source -> BOOLEAN]
    BY <1>2, <2>1, <2>2 DEF SilenceInv, HistoryCombine
  <2>4. ASSUME NEW s \in Source
        PROVE  /\ connected'[s] => Fresh(freshAge'[s])
               /\ quiet'[s] <= freshAge'[s]
               /\ fresh'[s] \in Freshness /\ fresh'[s] # freshLast'[s] => news'[s]
    <3> DEFINE upd == Updated(fresh[s], freshLast[s], accepted)
    <3>1. /\ freshAge'[s] = NextAge(fresh[s], freshLast[s], freshAge[s], accepted)
          /\ freshLast'[s] = NextLast(fresh[s], freshLast[s], accepted)
          /\ connected'[s] <=> Fresh(freshAge'[s])
          /\ fresh' = fresh
          /\ quiet'[s] = IF Alive(s, accepted) THEN 0 ELSE Min2(quiet[s] + 1, StaleThreshold)
          /\ news'[s] = (news[s] /\ accepted # AnySequence /\ fresh[s] # accepted)
      BY <1>2 DEF HistoryCombine, Combine, TypeOK
    <3>2. freshAge[s] \in 0..StaleThreshold /\ quiet[s] \in Nat /\ quiet[s] <= freshAge[s]
      BY DEF SilenceInv, TypeOK
    <3>3. quiet'[s] <= freshAge'[s]
      <4>1. CASE upd
        BY <2>1, <3>1, <4>1, UpdateIsAlive DEF NextAge
      <4>2. CASE ~upd
        BY <2>1, <3>1, <3>2, <4>2 DEF NextAge, Min2
      <4> QED BY <4>1, <4>2
    <3>4. fresh'[s] \in Freshness /\ fresh'[s] # freshLast'[s] => news'[s]
      <4>1. CASE upd
        BY <3>1, <4>1 DEF NextLast
      <4>2. CASE ~upd
        <5> SUFFICES ASSUME fresh[s] \in Freshness, fresh[s] # freshLast[s] PROVE news'[s]
          BY <3>1, <4>2 DEF NextLast
        <5>1. fresh[s] # 0 /\ fresh[s] # SeqDefault
          BY ValueAssumption
        <5>2. accepted # AnySequence /\ fresh[s] # accepted
          BY <4>2, <5>1 DEF Updated
        <5> QED BY <3>1, <5>2 DEF SilenceInv
      <4> QED BY <4>1, <4>2
    <3> QED BY <3>1, <3>3, <3>4
  <2> QED BY <2>3, <2>4 DEF SilenceInv
<1>3. CASE UNCHANGED <<vars, news, quiet>>
  BY <1>3 DEF SilenceInv, vars
<1> QED BY <1>1, <1>2, <1>3 DEF HistoryNext

(***************************************************************************)
(* A source silent for StaleThreshold combines is out of the vote, and out *)
(* of it a source decides nothing: default values, a proxy sender's and    *)
(* repeated numbers keep nobody in.                                        *)
(***************************************************************************)
THEOREM ConnectedDecide == HistorySpec => OnlyConnectedDecide
<1>1. SilenceInv => SilentSourceIsOut
  BY ThresholdAssumption DEF SilenceInv, TypeOK, SilentSourceIsOut, Fresh, UINT8Max
<1> QED BY <1>1, HistoryIsCombiner, TypeCorrect, SilenceInit, SilenceNext,
           DisconnectedIsMute, DownselectCopiesOne, PTL DEF HistorySpec, OnlyConnectedDecide
=============================================================================
