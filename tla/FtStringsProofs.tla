--------------------------- MODULE FtStringsProofs ---------------------------
(***************************************************************************)
(* For any control law, inputs, values and threshold, in both modes of the *)
(* combiner and of hotsync: strings that run control agree, and one that   *)
(* fails at a time neither interrupts control nor throws another out.      *)
(***************************************************************************)
EXTENDS FtStrings, CombinerVoteProofs

Between == {"late", "idle"}                  \* after the check of this cycle
Before == {"early", "sharing", "check"}      \* and before it
Offered == {seen[p].shard : p \in {q \in String : seen[q] # NoOffer}}

(***************************************************************************)
(* At most one string is failing, which may be down or behind; messages    *)
(* are those of this cycle's senders.                                      *)
(***************************************************************************)
Failing ==
    /\ \A s, t \in faulty : s = t
    /\ \A s \in String \ faulty : pc[s] # "down"
    /\ \A s \in String : heard[s] \subseteq Senders
    /\ \A s \in String : pc[s] \in Before \cup {"synced"} => ~ran[s]

\* Before the first cycle nobody has anything but what it was built with.
NotStarted ==
    \A s \in String :
        /\ pc[s] \in {"idle", "down"}
        /\ shard[s] = InitialShard
        /\ offer[s] = [synced |-> FALSE, shard |-> InitialShard]
        /\ ~synced[s] /\ ~ran[s] /\ sent[s] = NoMessage

\* Up to the exchange nobody has the messages of this cycle; one that restarted waits.
InPhase ==
    \A s \in String : pc[s] \in {"early", "sharing"} =>
        \A t \in String :
            \/ pc[t] \in {"early", "sharing", "down"}
            \/ pc[t] = "idle" /\ ~ran[t] /\ t \in faulty

(***************************************************************************)
(* Those outside F were healthy when the cycle started, and offered b.     *)
(* They start from b, and so does who agrees with one of them.             *)
(***************************************************************************)
StartsFrom(F, b) ==
    /\ \A s, t \in F : s = t
    /\ \A s \in String \ F : seen[s] # NoOffer /\ seen[s].shard = b
    /\ \A s \in String \ F : pc[s] \in Before => shard[s] = b
    /\ \A s \in String \ F : pc[s] = "early" =>
            synced[s] \/ \A p \in String : seen[p] # NoOffer => ~seen[p].synced
    /\ \A s \in String : pc[s] = "synced" => shard[s] = b
    /\ \A s \in String : pc[s] \in Between /\ ran[s] =>
            shard[s] = AfterControl(b, [p \in heard[s] |-> sent[p]], seq)

\* A healthy string has been since the cycle started, or has rejoined with all messages.
Healthy(F) ==
    \A s \in String \ faulty :
        /\ pc[s] \in Before => s \notin F
        /\ pc[s] = "check" => heard[s] = Senders
        /\ pc[s] \in Between \cup {"synced"} => synced[s] /\ heard[s] = Senders
        /\ pc[s] \in Between => ran[s]
        /\ pc[s] = "idle" => offer[s] = [synced |-> TRUE, shard |-> shard[s]]

Cycle == InPhase /\ \E F \in SUBSET String, b \in Offered : StartsFrom(F, b) /\ Healthy(F)

IInv == TypeOK /\ Failing /\ (NotStarted \/ Cycle)

-----------------------------------------------------------------------------
(* The operators.                                                          *)

\* Whoever is left out, there is another string outside a set of at most one.
LEMMA OneMore ==
    ASSUME NEW F \in SUBSET String, \A s, t \in F : s = t, NEW s \in String
    PROVE  \E p \in String \ {s} : p \notin F
<1>1. String = {1, 2, 3}
  BY StringsAssumption DEF String, Source
<1> QED BY <1>1

\* A hotsync source is a string with an offer, and the one that is taken is a source.
LEMMA HotsyncedIsShard ==
    ASSUME TypeOK, NEW s \in String
    PROVE  Hotsynced(s) \in Shard
<1>1. CASE synced[s] \/ HotsyncSources(s) = {}
  BY <1>1 DEF Hotsynced, TypeOK
<1>2. CASE ~(synced[s] \/ HotsyncSources(s) = {})
  <2>1. HotsyncSources(s) \in SUBSET Source
    BY DEF HotsyncSources, String
  <2>2. Lowest(HotsyncSources(s)) \in HotsyncSources(s)
    BY <1>2, <2>1, LiveShapes
  <2>3. \A p \in HotsyncSources(s) : p \in String /\ seen[p] # NoOffer
    BY DEF HotsyncSources
  <2>4. \A p \in HotsyncSources(s) : seen[p] \in Offer
    BY <2>3 DEF TypeOK
  <2>5. \A p \in HotsyncSources(s) : seen[p].shard \in Shard
    BY <2>4 DEF Offer
  <2> QED BY <1>2, <2>2, <2>5 DEF Hotsynced
<1> QED BY <1>1, <1>2

LEMMA AfterControlIsShard ==
    ASSUME NEW x \in Shard, NEW D \in SUBSET String, NEW msgs \in [D -> Record],
           NEW f \in Freshness
    PROVE  AfterControl(x, msgs, f) \in Shard
<1> DEFINE fresh == [p \in String |-> IF p \in DOMAIN msgs THEN f ELSE x.fresh[p]]
           data  == [p \in String |-> IF p \in DOMAIN msgs THEN msgs[p] ELSE x.data[p]]
           age   == [p \in String |-> NextAge(fresh[p], x.last[p], x.age[p], AnySequence)]
           last  == [p \in String |-> NextLast(fresh[p], x.last[p], AnySequence)]
           live  == {p \in String : Fresh(age[p])}
           out   == Vote(data, live, x.out, Downselect)
<1>1. /\ x.fresh \in [String -> FreshReading] /\ x.data \in [String -> Record]
      /\ x.last \in [String -> Freshness \cup {SeqDefault}]
      /\ x.age \in [String -> 0..StaleThreshold]
      /\ x.out \in Record /\ x.control \in ControlState
  BY DEF Shard
<1>2. fresh \in [String -> FreshReading]
  BY <1>1 DEF FreshReading
<1>3. data \in [String -> Record]
  BY <1>1
<1>4. age \in [String -> 0..StaleThreshold]
  <2>1. \A p \in String : NextAge(fresh[p], x.last[p], x.age[p], AnySequence) \in 0..StaleThreshold
    BY <1>1, AgeIsBounded
  <2> QED BY <2>1
<1>5. last \in [String -> Freshness \cup {SeqDefault}]
  <2>1. \A p \in String :
          NextLast(fresh[p], x.last[p], AnySequence) \in Freshness \cup {SeqDefault}
    BY <1>1, <1>2, LastIsReal
  <2> QED BY <2>1
<1>6. out \in Record
  <2>1. live \in SUBSET Source /\ data \in [Source -> Record] /\ Downselect \in BOOLEAN
    BY <1>3, StringsAssumption DEF String
  <2> HIDE DEF live, data
  <2> QED BY <1>1, <2>1, VoteIsRecord
<1>7. Law(x.control, out) \in ControlState
  BY <1>1, <1>6, StringsAssumption
<1>8. AfterControl(x, msgs, f) =
        [fresh |-> fresh, data |-> data, last |-> last, age |-> age, out |-> out,
         control |-> Law(x.control, out)]
  BY DEF AfterControl
<1> HIDE DEF fresh, data, age, last, live, out
<1> QED BY <1>2, <1>3, <1>4, <1>5, <1>6, <1>7, <1>8 DEF Shard

-----------------------------------------------------------------------------
(* Types, and what is failing.                                             *)

LEMMA InitIsShard == InitialShard \in Shard
BY StringsAssumption, ThresholdAssumption
   DEF InitialShard, Shard, FreshReading, UINT8Max

LEMMA TypeNext ==
    ASSUME TypeOK, Failing, [Next]_vars
    PROVE  TypeOK'
<1> USE DEF TypeOK
<1>1. CASE StartCycle
  BY <1>1 DEF StartCycle
<1>2. CASE Exchange
  <2>1. Senders \subseteq String /\ InCycle \subseteq String
    BY DEF Senders, InCycle, Up
  <2>2. CASE heard' = [s \in String |-> IF s \in InCycle THEN Senders ELSE {}] /\ UNCHANGED faulty
    BY <1>2, <2>1, <2>2 DEF Exchange
  <2>3. ASSUME NEW s \in InCycle, NEW missed \in SUBSET Senders,
               heard' = [t \in String |-> CASE t = s -> Senders \ missed
                                            [] t \in InCycle \ {s} -> Senders
                                            [] t \notin InCycle -> {}],
               faulty' = {s}
        PROVE  TypeOK'
    <3>1. heard' \in [String -> SUBSET String]
      BY <2>1, <2>3
    <3> QED BY <1>2, <2>1, <2>3, <3>1 DEF Exchange
  <2> QED BY <1>2, <2>2, <2>3 DEF Exchange
<1>3. ASSUME NEW s \in String, Early(s)
      PROVE  TypeOK'
  <2>1. Hotsynced(s) \in Shard
    BY HotsyncedIsShard
  <2> QED BY <1>3, <2>1, StringsAssumption DEF Early, String
<1>4. ASSUME NEW s \in String, Check(s)
      PROVE  TypeOK'
  <2>1. Bootstrap(s) \in BOOLEAN
    BY DEF Bootstrap, Agrees, Alone
  <2> QED BY <1>4, <2>1 DEF Check
<1>5. ASSUME NEW s \in String, DispatchSynced(s)
      PROVE  TypeOK'
  <2>1. heard[s] \subseteq String /\ \A p \in heard[s] : sent[p] \in Record
    BY DEF Failing, Senders
  <2>2. AfterControl(shard[s], [p \in heard[s] |-> sent[p]], seq) \in Shard
    BY <2>1, AfterControlIsShard
  <2> QED BY <1>5, <2>2 DEF DispatchSynced
<1>6. ASSUME NEW s \in String, Late(s)
      PROVE  TypeOK'
  <2>1. [synced |-> synced[s], shard |-> shard[s]] \in Offer
    BY DEF Offer
  <2> QED BY <1>6, <2>1 DEF Late
<1>7. ASSUME NEW s \in String, Crash(s)
      PROVE  TypeOK'
  BY <1>7 DEF Crash
<1>8. ASSUME NEW s \in String, Restart(s)
      PROVE  TypeOK'
  BY <1>8, InitIsShard DEF Restart
<1>9. CASE UNCHANGED vars
  BY <1>9 DEF vars
<1> QED BY <1>1, <1>2, <1>3, <1>4, <1>5, <1>6, <1>7, <1>8, <1>9 DEF Next, Step

LEMMA FailingNext ==
    ASSUME TypeOK, Failing, [Next]_vars
    PROVE  Failing'
<1> USE DEF TypeOK, Failing
<1>1. CASE StartCycle
  BY <1>1 DEF StartCycle, Senders, Up, Before
<1>2. CASE Exchange
  <2>1. Senders' = Senders /\ Senders \subseteq String
    BY <1>2 DEF Exchange, Senders
  <2>2. \A s \in String : pc'[s] \in Before \cup {"synced"} => ~ran'[s]
    BY <1>2 DEF Exchange, InCycle, Up, Before
  <2>3. \A s \in String : pc'[s] = "down" => pc[s] = "down"
    BY <1>2 DEF Exchange, InCycle, Up
  <2>4. CASE heard' = [s \in String |-> IF s \in InCycle THEN Senders ELSE {}] /\ UNCHANGED faulty
    BY <1>2, <2>1, <2>2, <2>3, <2>4
  <2>5. ASSUME NEW s \in InCycle, NEW missed \in SUBSET Senders,
               faulty \subseteq {s},
               heard' = [t \in String |-> CASE t = s -> Senders \ missed
                                            [] t \in InCycle \ {s} -> Senders
                                            [] t \notin InCycle -> {}],
               faulty' = {s}
        PROVE  Failing'
    <3>1. \A t \in String : heard'[t] \subseteq Senders
      BY <2>5
    <3> QED BY <2>1, <2>2, <2>3, <2>5, <3>1
  <2> QED BY <1>2, <2>4, <2>5 DEF Exchange
<1>3. ASSUME NEW s \in String, Early(s)
      PROVE  Failing'
  <2>1. Senders \subseteq Senders'
    <3>1. \A r \in Reading(s) : r # NoMessage
      BY StringsAssumption, NoneAssumption DEF String
    <3> QED BY <1>3, <3>1 DEF Early, Senders
  <2> QED BY <1>3, <2>1 DEF Early, Before
<1>4. ASSUME NEW s \in String, Check(s)
      PROVE  Failing'
  BY <1>4 DEF Check, Senders, Before
<1>5. ASSUME NEW s \in String, DispatchSynced(s)
      PROVE  Failing'
  BY <1>5 DEF DispatchSynced, Senders, Before
<1>6. ASSUME NEW s \in String, Late(s)
      PROVE  Failing'
  BY <1>6 DEF Late, Senders, Before
<1>7. ASSUME NEW s \in String, Crash(s)
      PROVE  Failing'
  BY <1>7 DEF Crash, Senders, Before, Up
<1>8. ASSUME NEW s \in String, Restart(s)
      PROVE  Failing'
  BY <1>8 DEF Restart, Senders, Before
<1>9. CASE UNCHANGED vars
  BY <1>9 DEF vars, Senders
<1> QED BY <1>1, <1>2, <1>3, <1>4, <1>5, <1>6, <1>7, <1>8, <1>9 DEF Next, Step

-----------------------------------------------------------------------------
(* The cycle.                                                              *)

\* The check lets in every string that was healthy, and only who starts from b.
LEMMA CheckAgrees ==
    ASSUME TypeOK, NEW F \in SUBSET String, NEW b, StartsFrom(F, b),
           NEW s \in String, pc[s] = "check"
    PROVE  /\ s \notin F => Bootstrap(s)
           /\ Bootstrap(s) => shard[s] = b
<1>1. PICK p \in String \ {s} : p \notin F
  BY OneMore DEF StartsFrom
<1>2. seen[p] # NoOffer /\ seen[p].shard = b
  BY <1>1 DEF StartsFrom
<1>3. s \notin F => shard[s] = b
  BY DEF StartsFrom, Before
<1>4. ~Alone(s)
  BY <1>1, <1>2 DEF Alone
<1>5. ASSUME s \notin F
      PROVE  Bootstrap(s)
  BY <1>1, <1>2, <1>3, <1>5 DEF Bootstrap, Agrees
<1>6. ASSUME Bootstrap(s)
      PROVE  shard[s] = b
  <2>1. PICK q \in String \ {s} : seen[q] # NoOffer /\ seen[q].shard = shard[s]
    BY <1>4, <1>6 DEF Bootstrap, Agrees
  <2>2. CASE q \notin F
    BY <2>1, <2>2 DEF StartsFrom
  <2>3. CASE q \in F
    <3>1. s \notin F
      BY <2>1, <2>3 DEF StartsFrom
    <3> QED BY <1>3, <3>1
  <2> QED BY <2>2, <2>3
<1> QED BY <1>5, <1>6

LEMMA StartFirstCycle ==
    ASSUME TypeOK, Failing, NotStarted, StartCycle
    PROVE  Cycle'
<1> DEFINE F == faulty
           b == InitialShard
<1>1. \A s \in String : pc'[s] \in {"early", "down"}
  BY DEF StartCycle, TypeOK
<1>2. \A s \in String : seen'[s] = [synced |-> FALSE, shard |-> InitialShard]
  BY DEF StartCycle, NotStarted
<1>3. [synced |-> FALSE, shard |-> InitialShard] # NoOffer
  <2>1. [synced |-> FALSE, shard |-> InitialShard] \in Offer
    BY InitIsShard DEF Offer
  <2> QED BY <2>1, NoneAssumption
<1>4. InPhase'
  BY <1>1 DEF InPhase
<1>5. StartsFrom(F, b)'
  BY <1>1, <1>2, <1>3 DEF StartsFrom, StartCycle, NotStarted, Failing, Before, Between
<1>6. Healthy(F)'
  BY <1>1 DEF Healthy, StartCycle, Before, Between
<1>7. (b \in Offered)' /\ (F \in SUBSET String)'
  <2>1. \E p \in String : TRUE
    BY StringsAssumption DEF String, Source
  <2> QED BY <1>2, <1>3, <2>1 DEF Offered, StartCycle, TypeOK
<1> QED BY <1>4, <1>5, <1>6, <1>7 DEF Cycle, StartCycle

\* Who is healthy at the end of a cycle ran control on all messages, and offers the same.
LEMMA StartNextCycle ==
    ASSUME TypeOK, Failing, Cycle, StartCycle
    PROVE  Cycle'
<1>1. PICK F \in SUBSET String, b \in Offered : StartsFrom(F, b) /\ Healthy(F)
  BY DEF Cycle
<1>a. PICK G : G = faulty
  OBVIOUS
<1>b. PICK c : c = AfterControl(b, [p \in Senders |-> sent[p]], seq)
  OBVIOUS
<1>2. \A s \in String : pc'[s] \in {"early", "down"} /\ (pc'[s] = "early" => pc[s] = "idle")
  BY DEF StartCycle, TypeOK, Up
<1>3. \A s \in String \ G : pc[s] = "idle"
  BY <1>a DEF StartCycle, Failing, Up
<1>4. \A s \in String \ G : /\ offer[s] = [synced |-> TRUE, shard |-> c]
                            /\ shard[s] = c /\ synced[s]
  <2> SUFFICES ASSUME NEW s \in String \ G
               PROVE  /\ offer[s] = [synced |-> TRUE, shard |-> c]
                      /\ shard[s] = c /\ synced[s]
    OBVIOUS
  <2>1. ran[s] /\ synced[s] /\ heard[s] = Senders /\ offer[s] = [synced |-> TRUE, shard |-> shard[s]]
    BY <1>1, <1>3, <1>a DEF Healthy, Between
  <2>2. shard[s] = AfterControl(b, [p \in heard[s] |-> sent[p]], seq)
    BY <1>1, <1>3, <2>1 DEF StartsFrom, Between
  <2> QED BY <1>b, <2>1, <2>2
<1>5. \A s \in String \ G : c \in Shard /\ [synced |-> TRUE, shard |-> c] # NoOffer
  <2> SUFFICES ASSUME NEW s \in String \ G
               PROVE  c \in Shard /\ [synced |-> TRUE, shard |-> c] # NoOffer
    OBVIOUS
  <2>1. c \in Shard
    BY <1>4 DEF TypeOK
  <2>2. [synced |-> TRUE, shard |-> c] \in Offer
    BY <2>1 DEF Offer
  <2> QED BY <2>1, <2>2, NoneAssumption
<1>6. InPhase'
  BY <1>2 DEF InPhase
<1>7. StartsFrom(G, c)'
  <2>1. \A s \in String \ G : seen'[s] # NoOffer /\ seen'[s].shard = c
    BY <1>4, <1>5 DEF StartCycle
  <2>2. \A s \in String : ran'[s] = FALSE /\ pc'[s] # "synced"
    BY <1>2 DEF StartCycle
  <2>3. \A s, t \in G : s = t
    BY <1>a DEF Failing
  <2>4. \A s \in String \ G : shard'[s] = c /\ synced'[s]
    BY <1>4 DEF StartCycle
  <2> QED BY <2>1, <2>2, <2>3, <2>4 DEF StartsFrom, StartCycle
<1>8. Healthy(G)'
  BY <1>2, <1>a DEF Healthy, StartCycle, Before, Between, Failing
<1>9. (c \in Offered)' /\ (G \in SUBSET String)'
  <2>1. PICK p \in String : p \notin G
    <3>1. 1 \in String
      BY StringsAssumption DEF String, Source
    <3> QED BY <1>a, <3>1, OneMore DEF Failing, TypeOK
  <2>2. seen'[p] # NoOffer /\ seen'[p].shard = c
    BY <1>4, <1>5, <2>1 DEF StartCycle
  <2> QED BY <1>a, <2>1, <2>2 DEF Offered, StartCycle, TypeOK
<1> QED BY <1>6, <1>7, <1>8, <1>9 DEF Cycle, StartCycle

(***************************************************************************)
(* Within a cycle F and b stay, whatever the strings do and whoever fails. *)
(***************************************************************************)
LEMMA ExchangeKeepsCycle ==
    ASSUME TypeOK, Failing, InPhase, NEW F \in SUBSET String, NEW b,
           StartsFrom(F, b), Healthy(F), Exchange
    PROVE  (InPhase /\ StartsFrom(F, b) /\ Healthy(F))'
<1>1. PICK u \in String : pc[u] = "sharing"
  BY DEF Exchange, InCycle, Up
<1>2. \A t \in String : \/ t \in InCycle /\ pc[t] = "sharing" /\ pc'[t] = "check"
                        \/ t \notin InCycle /\ pc[t] = "down" /\ pc'[t] = "down"
                        \/ /\ t \notin InCycle /\ pc[t] = "idle" /\ pc'[t] = "idle"
                           /\ ~ran[t] /\ t \in faulty
  BY <1>1 DEF InPhase, Exchange, InCycle, Up, TypeOK
<1>3. Senders' = Senders
  BY DEF Senders, Exchange
<1>4. \A t \in String \ faulty' : t \notin faulty /\ t \in InCycle /\ heard'[t] = Senders
  <2>1. CASE heard' = [s \in String |-> IF s \in InCycle THEN Senders ELSE {}] /\ UNCHANGED faulty
    BY <1>2, <2>1 DEF Failing
  <2>2. ASSUME NEW s \in InCycle, NEW missed \in SUBSET Senders, faulty \subseteq {s},
               heard' = [t \in String |-> CASE t = s -> Senders \ missed
                                            [] t \in InCycle \ {s} -> Senders
                                            [] t \notin InCycle -> {}],
               faulty' = {s}
        PROVE  \A t \in String \ faulty' : t \notin faulty /\ t \in InCycle /\ heard'[t] = Senders
    BY <1>2, <2>2 DEF Failing
  <2> QED BY <2>1, <2>2 DEF Exchange
<1>5. InPhase'
  BY <1>2 DEF InPhase
<1>6. StartsFrom(F, b)'
  BY <1>2 DEF StartsFrom, Exchange, Before, Between
<1>7. Healthy(F)'
  BY <1>2, <1>3, <1>4 DEF Healthy, Before, Between
<1> QED BY <1>5, <1>6, <1>7

LEMMA EarlyKeepsCycle ==
    ASSUME TypeOK, Failing, InPhase, NEW F \in SUBSET String, NEW b,
           StartsFrom(F, b), Healthy(F), NEW s \in String, Early(s)
    PROVE  (InPhase /\ StartsFrom(F, b) /\ Healthy(F))'
<1>1. \A t \in String : \/ pc[t] \in {"early", "sharing", "down"}
                        \/ pc[t] = "idle" /\ ~ran[t] /\ t \in faulty
  BY DEF InPhase, Early
<1>2. \A t \in String \ {s} : pc'[t] = pc[t] /\ shard'[t] = shard[t]
  BY DEF Early, TypeOK
<1>3. pc[s] = "early" /\ pc'[s] = "sharing" /\ shard'[s] = Hotsynced(s)
  BY DEF Early, TypeOK
<1>4. s \notin F => shard'[s] = b
  <2>1. s \notin F => synced[s] \/ HotsyncSources(s) = {}
    BY <1>3 DEF StartsFrom, HotsyncSources
  <2> QED BY <1>3, <2>1 DEF StartsFrom, Hotsynced, Before
<1>5. InPhase'
  BY <1>1, <1>2, <1>3 DEF InPhase, Early
<1>6. StartsFrom(F, b)'
  BY <1>1, <1>2, <1>3, <1>4 DEF StartsFrom, Early, Before, Between
<1>7. Healthy(F)'
  BY <1>1, <1>2, <1>3 DEF Healthy, Early, Before, Between
<1> QED BY <1>5, <1>6, <1>7

LEMMA CheckKeepsCycle ==
    ASSUME TypeOK, Failing, InPhase, NEW F \in SUBSET String, NEW b,
           StartsFrom(F, b), Healthy(F), NEW s \in String, Check(s)
    PROVE  (InPhase /\ StartsFrom(F, b) /\ Healthy(F))'
<1>1. \A t \in String \ {s} : pc'[t] = pc[t] /\ synced'[t] = synced[t]
  BY DEF Check, TypeOK
<1>2. /\ pc[s] = "check" /\ ~ran[s]
      /\ pc'[s] = IF Bootstrap(s) THEN "synced" ELSE "late"
      /\ synced'[s] = Bootstrap(s)
  BY DEF Check, TypeOK, Failing, Before
<1>3. s \notin F => Bootstrap(s)
  BY <1>2, CheckAgrees
<1>4. Bootstrap(s) => shard[s] = b
  BY <1>2, CheckAgrees
<1>5. Senders' = Senders
  BY DEF Senders, Check
<1>6. \A t \in String \ {s} : t \notin faulty' => t \notin faulty
  BY DEF Check
<1>7. s \notin faulty' => Bootstrap(s) /\ heard[s] = Senders
  <2>1. s \notin faulty => s \notin F /\ heard[s] = Senders
    BY <1>2 DEF Healthy, Before
  <2> QED BY <1>3, <2>1 DEF Check
<1>8. InPhase'
  BY <1>1, <1>2 DEF InPhase, Check
<1>9. StartsFrom(F, b)'
  BY <1>1, <1>2, <1>4 DEF StartsFrom, Check, Before, Between
<1>10. Healthy(F)'
  <2> SUFFICES ASSUME NEW t \in String, t \notin faulty'
               PROVE  /\ pc'[t] \in Before => t \notin F
                      /\ pc'[t] = "check" => heard'[t] = Senders'
                      /\ pc'[t] \in Between \cup {"synced"} => synced'[t] /\ heard'[t] = Senders'
                      /\ pc'[t] \in Between => ran'[t]
                      /\ pc'[t] = "idle" => offer'[t] = [synced |-> TRUE, shard |-> shard'[t]]
    BY DEF Healthy
  <2>1. CASE t = s
    <3>1. pc'[s] = "synced" /\ synced'[s] /\ heard[s] = Senders
      BY <1>2, <1>7, <2>1
    <3> QED BY <1>5, <2>1, <3>1 DEF Check, Before, Between
  <2>2. CASE t # s
    BY <1>1, <1>5, <1>6, <2>2 DEF Healthy, Check, Before, Between
  <2> QED BY <2>1, <2>2
<1> QED BY <1>8, <1>9, <1>10

LEMMA DispatchKeepsCycle ==
    ASSUME TypeOK, Failing, InPhase, NEW F \in SUBSET String, NEW b,
           StartsFrom(F, b), Healthy(F), NEW s \in String, DispatchSynced(s)
    PROVE  (InPhase /\ StartsFrom(F, b) /\ Healthy(F))'
<1>1. \A t \in String \ {s} : pc'[t] = pc[t] /\ shard'[t] = shard[t] /\ ran'[t] = ran[t]
  BY DEF DispatchSynced, TypeOK
<1>2. /\ pc[s] = "synced" /\ pc'[s] = "late" /\ ran'[s]
      /\ shard'[s] = AfterControl(shard[s], [p \in heard[s] |-> sent[p]], seq)
  BY DEF DispatchSynced, TypeOK
<1>3. shard[s] = b
  BY <1>2 DEF StartsFrom
<1>4. Senders' = Senders
  BY DEF Senders, DispatchSynced
<1>5. InPhase'
  BY <1>1, <1>2 DEF InPhase, DispatchSynced
<1>6. StartsFrom(F, b)'
  BY <1>1, <1>2, <1>3 DEF StartsFrom, DispatchSynced, Before, Between
<1>7. Healthy(F)'
  BY <1>1, <1>2, <1>4, ZenonT(40) DEF Healthy, DispatchSynced, Before, Between
<1> QED BY <1>5, <1>6, <1>7

LEMMA LateKeepsCycle ==
    ASSUME TypeOK, Failing, InPhase, NEW F \in SUBSET String, NEW b,
           StartsFrom(F, b), Healthy(F), NEW s \in String, Late(s)
    PROVE  (InPhase /\ StartsFrom(F, b) /\ Healthy(F))'
<1>1. \A t \in String \ {s} : pc'[t] = pc[t] /\ offer'[t] = offer[t]
  BY DEF Late, TypeOK
<1>2. /\ pc[s] = "late" /\ pc'[s] = "idle"
      /\ offer'[s] = [synced |-> synced[s], shard |-> shard[s]]
  BY DEF Late, TypeOK
<1>3. Senders' = Senders
  BY DEF Senders, Late
<1>4. InPhase'
  BY <1>1, <1>2 DEF InPhase, Late
<1>5. StartsFrom(F, b)'
  BY <1>1, <1>2 DEF StartsFrom, Late, Before, Between
<1>6. Healthy(F)'
  <2>1. s \notin faulty => synced[s] = TRUE
    BY <1>2 DEF Healthy, Between, TypeOK
  <2>2. s \notin faulty => offer'[s] = [synced |-> TRUE, shard |-> shard[s]]
    BY <1>2, <2>1
  <2> QED BY <1>1, <1>2, <1>3, <2>2, ZenonT(40) DEF Healthy, Late, Before, Between
<1> QED BY <1>4, <1>5, <1>6

LEMMA FailureKeepsCycle ==
    ASSUME TypeOK, Failing, InPhase, NEW F \in SUBSET String, NEW b,
           StartsFrom(F, b), Healthy(F), NEW s \in String, Crash(s) \/ Restart(s)
    PROVE  (InPhase /\ StartsFrom(F, b) /\ Healthy(F))'
<1>1. \A t \in String \ {s} : /\ pc'[t] = pc[t] /\ shard'[t] = shard[t]
                              /\ synced'[t] = synced[t] /\ ran'[t] = ran[t]
  BY DEF Crash, Restart, TypeOK
<1>2. /\ s \in faulty' /\ faulty \subseteq faulty'
      /\ pc'[s] = "down" \/ (pc'[s] = "idle" /\ ~ran'[s])
  BY DEF Crash, Restart, TypeOK, Failing
<1>3. Senders' = Senders
  BY DEF Senders, Crash, Restart
<1>4. UNCHANGED <<seq, sent, heard, offer, seen>>
  BY DEF Crash, Restart
<1>5. InPhase'
  BY <1>1, <1>2 DEF InPhase
<1>6. StartsFrom(F, b)'
  BY <1>1, <1>2, <1>4 DEF StartsFrom, Before, Between
<1>7. Healthy(F)'
  BY <1>1, <1>2, <1>3, <1>4 DEF Healthy, Before, Between
<1> QED BY <1>5, <1>6, <1>7

-----------------------------------------------------------------------------
(* The theorems.                                                           *)

LEMMA InvInit == Init => IInv
<1> SUFFICES ASSUME Init PROVE IInv
  OBVIOUS
<1>1. [synced |-> FALSE, shard |-> InitialShard] \in Offer
  BY InitIsShard DEF Offer
<1>2. TypeOK
  BY <1>1, InitIsShard DEF Init, TypeOK
<1>3. Failing
  BY DEF Init, Failing, Senders, Before
<1>4. NotStarted
  BY DEF Init, NotStarted
<1> QED BY <1>2, <1>3, <1>4 DEF IInv

LEMMA InvNext == IInv /\ [Next]_vars => IInv'
<1> SUFFICES ASSUME IInv, [Next]_vars PROVE IInv'
  OBVIOUS
<1>1. TypeOK /\ Failing /\ TypeOK' /\ Failing'
  BY TypeNext, FailingNext DEF IInv
<1>2. CASE StartCycle
  BY <1>1, <1>2, StartFirstCycle, StartNextCycle DEF IInv
<1>3. CASE UNCHANGED vars
  <2>1. UNCHANGED <<seq, pc, shard, synced, ran, sent, heard, offer, seen, faulty>>
    BY <1>3 DEF vars
  <2>2. ASSUME NotStarted PROVE NotStarted'
    BY <2>1, <2>2 DEF NotStarted
  <2>3. ASSUME Cycle PROVE Cycle'
    <3>1. PICK F \in SUBSET String, b \in Offered : StartsFrom(F, b) /\ Healthy(F)
      BY <2>3 DEF Cycle
    <3>2. StartsFrom(F, b)'
      BY <2>1, <3>1 DEF StartsFrom
    <3>3. Healthy(F)'
      BY <2>1, <3>1 DEF Healthy, Senders
    <3>4. InPhase' /\ b \in Offered'
      BY <2>1, <2>3, <3>1 DEF Cycle, InPhase, Offered
    <3> QED BY <3>2, <3>3, <3>4 DEF Cycle
  <2> QED BY <1>1, <2>2, <2>3 DEF IInv
<1>4. CASE NotStarted /\ ~StartCycle
  <2>1. ~Exchange
    BY <1>4 DEF NotStarted, Exchange, InCycle, Up
  <2>2. \A s \in String : ~Step(s)
    BY <1>4 DEF NotStarted, Step, Early, Check, DispatchSynced, Late
  <2>3. ASSUME NEW s \in String, Crash(s) \/ Restart(s)
        PROVE  NotStarted'
    BY <1>1, <1>4, <2>3 DEF NotStarted, Crash, Restart, TypeOK
  <2> QED BY <1>1, <1>3, <1>4, <2>1, <2>2, <2>3 DEF Next, IInv
<1>5. CASE Cycle /\ ~StartCycle /\ Next
  <2>1. PICK F \in SUBSET String, b \in Offered : StartsFrom(F, b) /\ Healthy(F)
    BY <1>5 DEF Cycle
  <2>2. InPhase
    BY <1>5 DEF Cycle
  <2>3. (InPhase /\ StartsFrom(F, b) /\ Healthy(F))'
    BY <1>1, <1>5, <2>1, <2>2, ExchangeKeepsCycle, EarlyKeepsCycle, CheckKeepsCycle,
       DispatchKeepsCycle, LateKeepsCycle, FailureKeepsCycle DEF Next, Step
  <2>4. seen' = seen
    BY <1>5 DEF Next, Step, Exchange, Early, Check, DispatchSynced, Late, Crash, Restart
  <2>5. Cycle'
    BY <2>1, <2>3, <2>4 DEF Cycle, Offered
  <2> QED BY <1>1, <2>5 DEF IInv
<1> QED BY <1>2, <1>3, <1>4, <1>5 DEF IInv

LEMMA Invariance == Spec => []IInv
BY InvInit, InvNext, PTL DEF Spec

(***************************************************************************)
(* What FtRuntime's strings hold keeps its type: shards, offers, messages. *)
(***************************************************************************)
THEOREM TypeCorrect == Spec => []TypeOK
BY Invariance, PTL DEF IInv

(***************************************************************************)
(* Strings about to run control (FtRuntime::dispatch between the check and *)
(* dispatch_synced) hold one shard, and those that ran it on the same      *)
(* messages hold one when they offer it, whatever crashed before.          *)
(***************************************************************************)
THEOREM Agreement == Spec => []StringsAgree
<1>1. ASSUME IInv
      PROVE  StringsAgree
  <2>1. CASE NotStarted
    BY <2>1 DEF NotStarted, StringsAgree, ControlStartsFromOneState, ControlAgreement
  <2>2. CASE Cycle
    <3>1. PICK F \in SUBSET String, b \in Offered : StartsFrom(F, b)
      BY <2>2 DEF Cycle
    <3>2. ControlStartsFromOneState
      BY <3>1 DEF ControlStartsFromOneState, StartsFrom
    <3>3. ASSUME NEW s \in String, NEW t \in String, {pc[s], pc[t]} \subseteq {"late", "idle"},
                 ran[s], ran[t], heard[s] = heard[t]
          PROVE  shard[s] = shard[t]
      <4>1. shard[s] = AfterControl(b, [p \in heard[s] |-> sent[p]], seq)
        BY <3>1, <3>3 DEF StartsFrom, Between
      <4>2. shard[t] = AfterControl(b, [p \in heard[t] |-> sent[p]], seq)
        BY <3>1, <3>3 DEF StartsFrom, Between
      <4> QED BY <3>3, <4>1, <4>2
    <3> QED BY <3>2, <3>3 DEF StringsAgree, ControlAgreement
  <2> QED BY <1>1, <2>1, <2>2 DEF IInv
<1> QED BY <1>1, Invariance, PTL

(***************************************************************************)
(* While one string at a time is failing, every cycle that shared inputs   *)
(* has two strings that run control, and the bootstrapper drops none that  *)
(* is healthy.                                                             *)
(***************************************************************************)
THEOREM LossIsHarmless == Spec => OneLossIsHarmless
<1>1. ASSUME IInv
      PROVE  OneLossNeverInterrupts
  <2> SUFFICES ASSUME \A s \in Up : pc[s] = "idle", NEW s0 \in String, sent[s0] # NoMessage
               PROVE  Cardinality({s \in String : ran[s]}) >= 2
    BY DEF OneLossNeverInterrupts
  <2> DEFINE R == {s \in String : ran[s]}
  <2>1. PICK F \in SUBSET String : Healthy(F)
    BY <1>1 DEF IInv, NotStarted, Cycle
  <2>2. \A s \in String \ faulty : s \in R
    BY <1>1, <2>1 DEF IInv, Failing, Up, Healthy, Between
  <2>3. PICK u \in String : u \notin faulty
    BY <1>1, OneMore DEF IInv, Failing, TypeOK
  <2>4. PICK v \in String \ {u} : v \notin faulty
    BY <1>1, OneMore DEF IInv, Failing, TypeOK
  <2>5. u \in R /\ v \in R /\ u # v /\ R \in SUBSET Source
    BY <2>2, <2>3, <2>4 DEF String
  <2> HIDE DEF R
  <2>6. Cardinality(R) = 2 \/ Cardinality(R) = 3
    BY <2>5, LiveShapes
  <2> QED BY <2>6 DEF R
<1>2. ASSUME IInv, [Next]_vars
      PROVE  [\A s \in String \ faulty' : synced[s] => synced'[s]]_vars
  <2> SUFFICES ASSUME Next, NEW s \in String, s \notin faulty', synced[s]
               PROVE  synced'[s]
    BY <1>2
  <2>1. ASSUME NEW t \in String, Check(t)
        PROVE  synced'[s]
    <3>1. CASE s # t
      BY <1>2, <2>1, <3>1 DEF Check, IInv, TypeOK
    <3>2. CASE s = t
      <4>1. PICK F \in SUBSET String, b \in Offered : StartsFrom(F, b) /\ Healthy(F)
        BY <1>2, <2>1 DEF IInv, NotStarted, Cycle, Check
      <4>2. s \notin faulty => Bootstrap(s)
        BY <1>2, <2>1, <3>2, <4>1, CheckAgrees DEF IInv, Healthy, Check, Before
      <4>3. Bootstrap(s)
        BY <2>1, <3>2, <4>2 DEF Check
      <4> QED BY <1>2, <2>1, <3>2, <4>3 DEF Check, IInv, TypeOK
    <3> QED BY <3>1, <3>2
  <2>2. ASSUME NEW t \in String, Restart(t)
        PROVE  synced'[s]
    <3>1. s # t
      BY <1>2, <2>2 DEF Restart, IInv, Failing
    <3> QED BY <1>2, <2>2, <3>1 DEF Restart, IInv, TypeOK
  <2>3. CASE synced' = synced
    BY <2>3
  <2> QED BY <2>1, <2>2, <2>3
         DEF Next, Step, StartCycle, Exchange, Early, DispatchSynced, Late, Crash
<1> QED BY <1>1, <1>2, Invariance, PTL DEF Spec, OneLossIsHarmless, HealthyStaysSynced
=============================================================================
