----------------------------- MODULE GroundProofs -----------------------------
(***************************************************************************)
(* Proofs about the programs on the ground.  The poller, for any delays,   *)
(* policies and deadline, waits exactly for its own call and keeps the     *)
(* rate limit; the endpoint gives every target its turn, for any targets   *)
(* and cooldown; the monitor answers each outage once, for any thresholds; *)
(* flows, names, keys and arrays of any number are relayed, answered,      *)
(* found and sorted.                                                       *)
(* What is proved of the parts holds of MCGround, which runs one of them   *)
(* at a time.                                                              *)
(***************************************************************************)
EXTENDS MCGround, FiniteSetTheorems, WellFoundedInduction, TLAPS

(* Induction over numbers, which rests on their least elements.            *)

LEMMA LessIsWellFounded ==
    \E rel : IsWellFoundedOn(rel, Nat) /\ \A i, j \in Nat : i < j => <<i, j>> \in rel
<1> WITNESS OpToRel(<, Nat)
<1>1. \A i, j \in Nat : i < j => <<i, j>> \in OpToRel(<, Nat)
  BY DEF OpToRel
<1> QED BY <1>1, NatLessThanWellFounded, Zenon

LEMMA HasLeast ==
    ASSUME NEW Type \in SUBSET Nat, Type # {} PROVE \E i \in Type : \A j \in Type : i <= j
<1>1. PICK rel : IsWellFoundedOn(rel, Nat) /\ \A i, j \in Nat : i < j => <<i, j>> \in rel
  BY LessIsWellFounded
<1>2. \E i \in Type : \A j \in Type : ~(<<j, i>> \in rel)
  <2>1. IsWellFoundedOn(rel, Nat) /\ Type \subseteq Nat
    BY <1>1
  <2> QED BY <2>1, WFMin, Zenon
<1>3. PICK i \in Type : \A j \in Type : ~(<<j, i>> \in rel)
  BY <1>2
<1>4. ASSUME NEW j \in Type PROVE i <= j
  <2>1. i \in Nat /\ j \in Nat /\ ~(j < i)
    BY <1>1, <1>3, Zenon
  <2> QED BY <2>1
<1> QED BY <1>4

\* Induction up to n, stated of the set of numbers for which something holds.
LEMMA UpTo ==
    ASSUME NEW n \in Nat, NEW Holds, 0 \in Holds, \A i \in 1..n : i - 1 \in Holds => i \in Holds
    PROVE  0..n \subseteq Holds
<1> DEFINE Type == (0..n) \ Holds
<1> SUFFICES ASSUME Type # {} PROVE FALSE
  OBVIOUS
<1>2. PICK x \in Type : \A y \in Type : x <= y
  <2> HIDE DEF Type
  <2>1. Type \in SUBSET Nat
    BY DEF Type
  <2> QED BY <2>1, HasLeast
<1>3. x \in 1..n
  OBVIOUS
<1>4. x - 1 \in Type
  BY <1>3
<1> QED BY <1>2, <1>3, <1>4

\* What it means that f is defined by recursion up to n.
Follows(f, n, base, step) == f[0] = base /\ \A i \in 1..n : f[i] = step[i][f[i - 1]]

\* Such a function exists.
LEMMA Recursion ==
    ASSUME NEW n \in Nat, NEW Type, NEW base \in Type, NEW step \in [1..n -> [Type -> Type]]
    PROVE  \E f \in [0..n -> Type] : Follows(f, n, base, step)
<1> DEFINE Upto(f, m) == f[0] = base /\ \A i \in 1..m : f[i] = step[i][f[i - 1]]
           Holds == {m \in 0..n : \E f \in [0..n -> Type] : Upto(f, m)}
<1>1. 0 \in Holds
  <2>1. [i \in 0..n |-> base] \in [0..n -> Type] /\ Upto([i \in 0..n |-> base], 0)
    OBVIOUS
  <2>2. \E f \in [0..n -> Type] : Upto(f, 0)
    <3> HIDE DEF Upto
    <3> QED BY <2>1
  <2> QED BY <2>2
<1>2. ASSUME NEW m \in 1..n, m - 1 \in Holds PROVE m \in Holds
  <2>1. PICK f \in [0..n -> Type] : Upto(f, m - 1)
    BY <1>2
  <2> DEFINE g == [f EXCEPT ![m] = step[m][f[m - 1]]]
  <2>2. m - 1 \in 0..n /\ m \in 0..n /\ f[m - 1] \in Type /\ step[m][f[m - 1]] \in Type
    OBVIOUS
  <2>3. g \in [0..n -> Type]
    BY <2>2
  <2>4. g[0] = base
    BY <2>1
  <2>5. ASSUME NEW i \in 1..m PROVE g[i] = step[i][g[i - 1]]
    <3>1. g[i - 1] = f[i - 1]
      BY <2>2
    <3>2. CASE i = m
      BY <3>1, <3>2, <2>2
    <3>3. CASE i # m
      BY <3>1, <3>3, <2>1
    <3> QED BY <3>2, <3>3
  <2>6. Upto(g, m)
    BY <2>4, <2>5
  <2> QED BY <2>2, <2>3, <2>6, Zenon
<1>3. n \in Holds
  <2> HIDE DEF Holds
  <2>1. 0..n \subseteq Holds
    BY <1>1, <1>2, UpTo, Zenon
  <2> QED BY <2>1
<1>4. PICK f \in [0..n -> Type] : Upto(f, n)
  BY <1>3
<1> QED BY <1>4 DEF Follows


-----------------------------------------------------------------------------
(* The poller.                                                             *)

(***************************************************************************)
(* What the rate limit rests on: last_poll_time is the start of the        *)
(* outstanding call unless poll_asap overwrote it meanwhile, and           *)
(* last_success_time that of the last good call unless it was such a one.  *)
(***************************************************************************)
TimesAreNat ==
    sincePoll \in Nat /\ sinceSuccess \in Nat /\ sinceStart \in Nat /\ sinceGood \in Nat

PollTimeIsStart == waiting /\ ~refused /\ asked # "inCall" => sincePoll = sinceStart

SuccessTimeIsStart == ~forgotten => sinceSuccess = sinceGood

Inv ==
    /\ TimesAreNat
    /\ WaitingHasCall
    /\ PollTimeIsStart
    /\ SuccessTimeIsStart

LEMMA CapIsNat == Cap \in Nat /\ MinDelay \in Nat
  BY DelayAssumption

LEMMA LaterIsNat == \A n \in Nat : Later(n) \in Nat
  BY CapIsNat DEF AtMost, Later

LEMMA InitInv == Init => Inv
  BY CapIsNat DEF Init, Inv, TimesAreNat, WaitingHasCall, PollTimeIsStart, SuccessTimeIsStart

-----------------------------------------------------------------------------
(* Every action keeps the invariant.                                       *)

LEMMA DispatchInv == Inv /\ Dispatch => Inv'
<1> SUFFICES ASSUME Inv, Dispatch PROVE Inv'
  OBVIOUS
<1> USE DEF Inv, TimesAreNat, WaitingHasCall, PollTimeIsStart, SuccessTimeIsStart
<1>1. PICK due \in IF justEnabled THEN Reenabled ELSE {RateLimited} :
        IF due = 0
          THEN /\ sincePoll' = 0
               /\ nextIn' = Never
               /\ waiting' = TRUE
               /\ StartCall
          ELSE /\ nextIn' = due
               /\ UNCHANGED <<sincePoll, waiting, client, history>>
  BY DEF Dispatch
<1>2. ~waiting /\ sinceSuccess' = sinceSuccess
  BY DEF Dispatch
<1>3. CASE due = 0
  BY <1>1, <1>2, <1>3 DEF StartCall
<1>4. CASE due # 0
  BY <1>1, <1>2, <1>4 DEF client, history
<1>5. QED
  BY <1>3, <1>4

LEMMA CompleteInv == Inv /\ Complete => Inv'
<1> SUFFICES ASSUME Inv, Complete PROVE Inv'
  OBVIOUS
<1> USE DEF Inv, TimesAreNat, WaitingHasCall, PollTimeIsStart, SuccessTimeIsStart
<1>1. waiting /\ ~refused /\ ~waiting' /\ call' = "none" /\ refused' = refused
  BY DEF Complete
<1>2. sincePoll' = sincePoll /\ sinceStart' = sinceStart /\ asked' = asked
  BY DEF Complete
<1>3. CASE sinceSuccess' = sincePoll /\ sinceGood' = sinceStart /\ forgotten' = (asked = "inCall")
  BY <1>1, <1>2, <1>3
<1>4. CASE UNCHANGED <<sinceSuccess, sinceGood, forgotten>>
  BY <1>1, <1>2, <1>4
<1>5. QED
  BY <1>3, <1>4 DEF Complete

LEMMA AskingInv == Inv /\ poll_asap /\ UNCHANGED client => Inv'
  BY CapIsNat DEF Inv, TimesAreNat, WaitingHasCall, PollTimeIsStart, SuccessTimeIsStart,
     poll_asap, Asked, client

LEMMA TickInv == Inv /\ Tick => Inv'
  BY LaterIsNat DEF Inv, TimesAreNat, WaitingHasCall, PollTimeIsStart, SuccessTimeIsStart,
     Tick, client

LEMMA OwnerInv ==
    Inv /\ (EnablePolling \/ DisablePolling
            \/ \E new \in Policies, asap \in BOOLEAN : UpdatePolicy(new, asap)) => Inv'
<1> SUFFICES ASSUME Inv PROVE /\ EnablePolling => Inv'
                              /\ DisablePolling => Inv'
                              /\ \A new \in Policies, asap \in BOOLEAN : UpdatePolicy(new, asap) => Inv'
  OBVIOUS
<1>1. UNCHANGED <<schedule, client, history>> => Inv'
  BY DEF Inv, TimesAreNat, WaitingHasCall, PollTimeIsStart, SuccessTimeIsStart,
     schedule, client, history
<1>2. EnablePolling => Inv'
  BY DEF EnablePolling, client, Inv, TimesAreNat, WaitingHasCall, PollTimeIsStart,
     SuccessTimeIsStart
<1>3. DisablePolling => Inv'
  BY <1>1 DEF DisablePolling
<1>4. ASSUME NEW new \in Policies, NEW asap \in BOOLEAN, UpdatePolicy(new, asap) PROVE Inv'
  BY <1>1, <1>4, AskingInv DEF UpdatePolicy
<1>5. QED
  BY <1>2, <1>3, <1>4

LEMMA CallInv == Inv /\ (Ended \/ Worker) => Inv'
  BY DEF Ended, CallEnds, Worker, schedule, history, Inv, TimesAreNat, WaitingHasCall,
     PollTimeIsStart, SuccessTimeIsStart

LEMMA NextInv == Inv /\ [Next]_vars => Inv'
<1> SUFFICES ASSUME Inv, [Next]_vars PROVE Inv'
  OBVIOUS
<1>1. CASE UNCHANGED vars
  BY <1>1 DEF vars, schedule, client, history, Inv, TimesAreNat, WaitingHasCall,
     PollTimeIsStart, SuccessTimeIsStart
<1>2. CASE PollAsap
  BY <1>2, AskingInv DEF PollAsap
<1>3. QED
  BY <1>1, <1>2, DispatchInv, CompleteInv, TickInv, OwnerInv, CallInv DEF Next

-----------------------------------------------------------------------------
(***************************************************************************)
(* The poller waits for a response exactly while its client has a call     *)
(* outstanding, in any order of dispatches, completions and requests, or   *)
(* for ever once the client refused a call for want of a stub.             *)
(***************************************************************************)
THEOREM WaitsForItsCall == Spec => []WaitingHasCall
<1>1. Inv => WaitingHasCall
  BY DEF Inv
<1>2. QED
  BY InitInv, NextInv, <1>1, PTL DEF Spec

(***************************************************************************)
(* The rate limit holds for every call dispatch starts, except right after *)
(* enabling and where poll_asap had the last good call's time forgotten.   *)
(***************************************************************************)
THEOREM RateLimitHolds == Spec => RateIsLimited
<1>1. Inv /\ [Next]_vars => [Starts /\ ~justEnabled /\ ~forgotten => sinceGood >= MinDelay]_vars
  <2> SUFFICES ASSUME Inv, Next, Starts, ~justEnabled, ~forgotten PROVE sinceGood >= MinDelay
    OBVIOUS
  <2>1. Dispatch
    <3>1. ~waiting /\ waiting' /\ call = "none"
      BY DEF Starts, Inv, WaitingHasCall
    <3>2. ~Ended /\ ~Worker /\ ~Complete
      BY <3>1 DEF Ended, CallEnds, Worker, Complete
    <3>3. ~PollAsap /\ ~EnablePolling /\ ~DisablePolling /\ ~Tick
      BY <3>1 DEF PollAsap, poll_asap, EnablePolling, DisablePolling, Tick, schedule
    <3>4. \A new \in Policies, asap \in BOOLEAN : ~UpdatePolicy(new, asap)
      BY <3>1 DEF UpdatePolicy, poll_asap, schedule
    <3>5. QED
      BY <3>2, <3>3, <3>4 DEF Next
  <2>2. RateLimited = 0
    <3>1. PICK due \in {RateLimited} : due # 0 => waiting' = waiting
      BY <2>1 DEF Dispatch
    <3>2. QED
      BY <3>1 DEF Starts
  <2>3. sinceSuccess = sinceGood /\ sinceSuccess \in Nat
    BY DEF Inv, SuccessTimeIsStart, TimesAreNat
  <2>4. QED
    BY <2>2, <2>3, CapIsNat DEF RateLimited, AtLeast
<1>2. QED
  BY <1>1, InitInv, NextInv, PTL DEF Spec, RateIsLimited

-----------------------------------------------------------------------------
(* The types of the poller.                                                *)

PollerTypes == TypeOK /\ period \in Jittered(policy.period)

LEMMA DelaysAreNat ==
    /\ {Jitter, MinDelay, Timeout, ReenableDelay, RetryCap, Cap} \subseteq Nat
    /\ MinDelay <= Cap /\ ReenableDelay + ReenableDelay \div 2 <= Cap
    /\ {FromLastSuccess, RandomReenable, RandomBackoff, StartEnabled} \subseteq BOOLEAN
BY DelayAssumption

LEMMA PolicyType ==
    ASSUME NEW p \in Policies
    PROVE  /\ {p.period, p.minBackoff, p.maxBackoff} \subseteq Nat
           /\ p.minBackoff <= p.maxBackoff /\ p.maxBackoff <= Cap
           /\ p.period > 0 => Jitter + 2 <= p.period
           /\ p.period + p.period \div 2 + 2 * Jitter <= Cap
BY PolicyAssumption DEF Policy

LEMMA HalfOf == \A d \in Nat : d \div 2 \in Nat /\ 2 * (d \div 2) <= d /\ d <= 2 * (d \div 2) + 1
OBVIOUS

\* A drawn period, and half as much again.
LEMMA PeriodIsBounded ==
    ASSUME NEW p \in Policies, NEW d \in Jittered(p.period)
    PROVE  d \in 0..Cap /\ d \div 2 \in 0..Cap /\ Around(d) \subseteq 0..Cap
<1> DEFINE q == p.period
           j == Jitter
           h == d \div 2
           k == q \div 2
<1>1. /\ q \in Nat /\ j \in Nat /\ Cap \in Nat
      /\ q > 0 => j + 2 <= q
      /\ q + k + 2 * j <= Cap
  BY PolicyType, DelaysAreNat
<1>2. \/ q = 0 /\ d = 0
      \/ q > 0 /\ d \in (q - j)..(q + j)
  BY <1>1 DEF Jittered
<1>3. d \in Nat
  <2> HIDE DEF q, j
  <2> QED BY <1>1, <1>2
<1>4. h \in Nat /\ 2 * h <= d /\ k \in Nat /\ q <= 2 * k + 1
  <2> HIDE DEF q
  <2> QED BY <1>1, <1>3, HalfOf
<1>5. Around(d) = h..(h + d)
  BY DEF Around
<1> HIDE DEF q, j, h, k
<1>6. h + d <= Cap
  <2>1. CASE q = 0 /\ d = 0
    BY <1>1, <1>4, <2>1
  <2>2. CASE q > 0 /\ d \in (q - j)..(q + j)
    <3>1. 2 * h <= 2 * k + 1 + j
      BY <1>1, <1>3, <1>4, <2>2
    <3>2. j = 0 => h <= k
      BY <1>1, <1>4, <3>1
    <3>3. j > 0 => h <= k + j
      BY <1>1, <1>4, <3>1
    <3> QED BY <1>1, <1>3, <1>4, <2>2, <3>2, <3>3
  <2> QED BY <1>2, <2>1, <2>2
<1>7. d \in 0..Cap /\ h \in 0..Cap /\ h..(h + d) \subseteq 0..Cap
  BY <1>1, <1>3, <1>4, <1>6
<1> QED BY <1>5, <1>7 DEF h

LEMMA DoubledIsNat ==
    ASSUME NEW b \in Nat, NEW n \in Nat PROVE Doubled(b, n) \in Nat
<1> DEFINE Body(f, i) == IF i = 0 THEN b ELSE 2 * f[i - 1]
           after == CHOOSE f : f = [i \in 0..n |-> Body(f, i)]
           step == [i \in 1..n |-> [x \in Nat |-> 2 * x]]
<1>1. PICK g \in [0..n -> Nat] : Follows(g, n, b, step)
  <2>1. step \in [1..n -> [Nat -> Nat]]
    OBVIOUS
  <2> HIDE DEF step
  <2> QED BY <2>1, Recursion
<1>2. g = [i \in 0..n |-> Body(g, i)]
  <2>1. ASSUME NEW i \in 1..n PROVE g[i] = 2 * g[i - 1]
    <3>1. g[i - 1] \in Nat
      OBVIOUS
    <3>2. step[i][g[i - 1]] = 2 * g[i - 1]
      BY <3>1
    <3> HIDE DEF step
    <3> QED BY <1>1, <3>2 DEF Follows
  <2>2. ASSUME NEW i \in 0..n PROVE g[i] = Body(g, i)
    <3>1. i = 0 \/ (i \in 1..n /\ i # 0)
      OBVIOUS
    <3>2. g[0] = b
      BY <1>1 DEF Follows
    <3> QED BY <2>1, <3>1, <3>2
  <2> HIDE DEF Body
  <2> QED BY <2>2
<1>3. after = [i \in 0..n |-> Body(after, i)]
  <2> HIDE DEF Body
  <2>1. \E f : f = [i \in 0..n |-> Body(f, i)]
    BY <1>2, Zenon
  <2> QED BY <2>1, Zenon
<1>4. Doubled(b, n) = after[n]
  BY Zenon DEF Doubled
<1>5. \A i \in 0..n : after[i] = Body(after, i)
  <2> HIDE DEF Body, after
  <2> QED BY <1>3
<1> HIDE DEF after
<1> DEFINE Holds == {i \in 0..n : after[i] \in Nat}
<1>6. 0 \in Holds
  BY <1>5
<1>7. ASSUME NEW i \in 1..n, i - 1 \in Holds PROVE i \in Holds
  <2>1. after[i - 1] \in Nat /\ i # 0 /\ i \in 0..n
    BY <1>7
  <2> QED BY <1>5, <2>1
<1>8. 0..n \subseteq Holds
  <2> HIDE DEF Holds
  <2> QED BY <1>6, <1>7, UpTo
<1> QED BY <1>4, <1>8

\* What failures put off the next poll by.
LEMMA BackoffType ==
    ASSUME PollerTypes
    PROVE  /\ BackoffAfter(retry) \subseteq 0..Cap
           /\ Longest(retry) \in 0..Cap /\ policy.minBackoff \in 0..Cap
<1> DEFINE least == policy.minBackoff
           most == policy.maxBackoff
           more == Doubled(least, retry)
<1>1. least \in Nat /\ most \in Nat /\ Cap \in Nat /\ least <= most /\ most <= Cap
  BY PolicyType, DelaysAreNat DEF PollerTypes, TypeOK
<1>2. more \in Nat
  <2>1. retry \in Nat
    BY DelaysAreNat DEF PollerTypes, TypeOK
  <2> HIDE DEF least
  <2> QED BY <1>1, <2>1, DoubledIsNat
<1>3. Longest(retry) = IF more > most THEN most ELSE more
  BY Zenon DEF Longest, AtMost
<1> HIDE DEF least, most, more
<1>4. Longest(retry) \in 0..Cap
  BY <1>1, <1>2, <1>3
<1>5. BackoffAfter(retry) = IF RandomBackoff THEN least..Longest(retry) ELSE {Longest(retry)}
  BY DEF BackoffAfter, least
<1>6. least..Longest(retry) \subseteq 0..Cap
  BY <1>1, <1>4
<1>7. BackoffAfter(retry) \subseteq 0..Cap
  BY <1>4, <1>5, <1>6, Zenon
<1>8. least \in 0..Cap
  BY <1>1
<1> QED BY <1>4, <1>7, <1>8 DEF least

LEMMA WaitType ==
    ASSUME NEW d \in 0..Cap, NEW since \in 0..Cap, NEW left \in 0..Never, NEW min \in 0..Cap
    PROVE  /\ AtLeast(d - since, 0) \in 0..Cap
           /\ AtLeast(left, min - since) \in 0..Never
           /\ Later(since) \in 0..Cap
           /\ 0..Cap \subseteq 0..Never
           /\ AtLeast(left - 1, 0) \in 0..Never
BY DelaysAreNat DEF AtLeast, AtMost, Later, Never

LEMMA PollerStart == Init => PollerTypes
<1> SUFFICES ASSUME Init PROVE PollerTypes
  OBVIOUS
<1>1. policy \in Policies /\ period \in Jittered(policy.period)
  BY DEF Init
<1>2. period \in 0..Cap
  BY <1>1, PeriodIsBounded
<1>3. /\ Cap \in Nat /\ Cap \in 0..Cap /\ 0 \in 0..Cap
      /\ 0 \in 0..Never /\ Never \in 0..Never /\ 0 \in 0..RetryCap
  BY DelaysAreNat DEF Never
<1>4. nextIn \in 0..Never
  BY <1>3 DEF Init
<1>5. enabled \in BOOLEAN
  BY DelaysAreNat DEF Init
<1> QED BY <1>1, <1>2, <1>3, <1>4, <1>5 DEF Init, PollerTypes, TypeOK

LEMMA ReenabledType == PollerTypes => Reenabled \subseteq 0..Cap
<1> SUFFICES ASSUME PollerTypes PROVE Reenabled \subseteq 0..Cap
  OBVIOUS
<1> DEFINE delays == IF RandomReenable THEN Around(ReenableDelay) ELSE {ReenableDelay}
           since == IF FromLastSuccess THEN sinceSuccess ELSE 0
<1>1. since \in 0..Cap
  BY DelaysAreNat DEF PollerTypes, TypeOK
<1>2. delays \subseteq 0..Cap
  <2> DEFINE r == ReenableDelay
             h == r \div 2
  <2>1. r \in Nat /\ h \in Nat /\ Cap \in Nat /\ r + h <= Cap
    BY DelaysAreNat, HalfOf
  <2>2. Around(r) = h..(h + r)
    BY DEF Around
  <2> HIDE DEF r, h
  <2>3. h..(h + r) \subseteq 0..Cap /\ r \in 0..Cap
    BY <2>1
  <2> QED BY <2>2, <2>3 DEF r
<1>3. Reenabled = {AtLeast(d - since, 0) : d \in delays}
  BY Zenon DEF Reenabled
<1> HIDE DEF delays, since
<1>4. \A d \in delays : AtLeast(d - since, 0) \in 0..Cap
  <2>1. 0 \in 0..Never /\ 0 \in 0..Cap
    BY DelaysAreNat DEF Never
  <2> QED BY <1>1, <1>2, <2>1, WaitType
<1> QED BY <1>3, <1>4, Zenon

LEMMA PollerNext == PollerTypes /\ [Next]_pollerVars => PollerTypes'
<1> SUFFICES ASSUME PollerTypes, [Next]_pollerVars PROVE PollerTypes'
  OBVIOUS
<1>0. /\ TypeOK /\ period \in Jittered(policy.period)
      /\ Cap \in Nat /\ 0 \in 0..Cap /\ Cap \in 0..Cap /\ 0..Cap \subseteq 0..Never
      /\ 0 \in 0..Never /\ Never \in 0..Never /\ MinDelay \in 0..Cap /\ 0 \in 0..RetryCap
  BY DelaysAreNat DEF PollerTypes, Never
<1>1. CASE Dispatch
  <2>1. PICK due \in IF justEnabled THEN Reenabled ELSE {RateLimited} :
          IF due = 0
            THEN /\ sincePoll' = 0
                 /\ nextIn' = Never
                 /\ waiting' = TRUE
                 /\ StartCall
            ELSE /\ nextIn' = due
                 /\ UNCHANGED <<sincePoll, waiting, client, history>>
    BY <1>1 DEF Dispatch
  <2>2. /\ justEnabled' = FALSE /\ UNCHANGED <<policy, period, enabled, sinceSuccess, retry>>
    BY <1>1 DEF Dispatch
  <2>3. due \in 0..Never
    <3>1. RateLimited \in 0..Never
      BY <1>0, WaitType DEF RateLimited, TypeOK
    <3>2. Reenabled \subseteq 0..Never
      BY <1>0, ReenabledType
    <3> QED BY <3>1, <3>2
  <2>4. CASE due = 0
    BY <1>0, <2>1, <2>2, <2>4 DEF StartCall, PollerTypes, TypeOK
  <2>5. CASE due # 0
    BY <1>0, <2>1, <2>2, <2>3, <2>5 DEF client, history, PollerTypes, TypeOK
  <2> QED BY <2>4, <2>5
<1>2. CASE Ended \/ Worker
  BY <1>0, <1>2 DEF Ended, CallEnds, Worker, schedule, history, PollerTypes, TypeOK
<1>3. CASE Complete
  <2>1. /\ call' = "none" /\ waiting' = FALSE
        /\ UNCHANGED <<policy, period, enabled, justEnabled, sincePoll, status, refused, sinceStart, asked>>
    BY <1>3 DEF Complete
  <2>2. /\ Around(period) \subseteq 0..Cap /\ period \in 0..Cap /\ period \div 2 \in 0..Cap
        /\ BackoffAfter(retry) \subseteq 0..Cap /\ Longest(retry) \in 0..Cap
        /\ policy.minBackoff \in 0..Cap
    BY <1>0, PeriodIsBounded, BackoffType DEF TypeOK
  <2>3. \A delay \in 0..Cap : Schedule(delay) \in 0..Never
    BY <1>0, WaitType DEF Schedule, TypeOK
  <2>4. CASE status = "ok" /\ sinceSuccess' = sincePoll
    <3>1. /\ sinceGood' = sinceStart /\ forgotten' = (asked = "inCall") /\ retry' = 0
          /\ promised' = IF retry > 0 THEN period \div 2 ELSE period
          /\ \E delay \in IF retry > 0 THEN Around(period) ELSE {period} : nextIn' = Schedule(delay)
      BY <1>3, <2>4 DEF Complete
    <3>2. nextIn' \in 0..Never
      BY <2>2, <2>3, <3>1
    <3>3. promised' \in 0..Cap
      BY <2>2, <3>1
    <3>4. forgotten' \in BOOLEAN
      BY <3>1
    <3>5. {sincePoll', sinceSuccess', sinceStart', sinceGood', promised'} \subseteq 0..Cap
      BY <1>0, <2>1, <2>4, <3>1, <3>3 DEF TypeOK
    <3>6. /\ policy' \in Policies /\ period' \in 0..Cap /\ period' \in Jittered(policy'.period)
          /\ enabled' \in BOOLEAN /\ justEnabled' \in BOOLEAN /\ waiting' \in BOOLEAN
          /\ call' \in {"none", "flying", "ended", "queued"} /\ status' \in {"none", "ok", "error"}
          /\ asked' \in {"no", "idle", "inCall"} /\ retry' \in 0..RetryCap
          /\ refused' \in BOOLEAN
      BY <1>0, <2>1, <3>1 DEF TypeOK
    <3> QED BY <3>2, <3>4, <3>5, <3>6, Zenon DEF PollerTypes, TypeOK
  <2>5. CASE status = "error"
    <3>1. /\ \E delay \in BackoffAfter(retry) : nextIn' = Schedule(delay)
          /\ promised' = IF RandomBackoff THEN policy.minBackoff ELSE Longest(retry)
          /\ retry' = AtMost(retry + 1, RetryCap)
          /\ UNCHANGED <<sinceSuccess, sinceGood, forgotten>>
      BY <1>3, <2>5 DEF Complete
    <3>2. nextIn' \in 0..Never
      BY <2>2, <2>3, <3>1
    <3>3. promised' \in 0..Cap
      BY <2>2, <3>1
    <3>4. retry' \in 0..RetryCap
      BY <1>0, <3>1, DelaysAreNat DEF TypeOK, AtMost
    <3>5. {sincePoll', sinceSuccess', sinceStart', sinceGood', promised'} \subseteq 0..Cap
      BY <1>0, <2>1, <3>1, <3>3 DEF TypeOK
    <3>6. /\ policy' \in Policies /\ period' \in 0..Cap /\ period' \in Jittered(policy'.period)
          /\ enabled' \in BOOLEAN /\ justEnabled' \in BOOLEAN /\ waiting' \in BOOLEAN
          /\ call' \in {"none", "flying", "ended", "queued"} /\ status' \in {"none", "ok", "error"}
          /\ asked' \in {"no", "idle", "inCall"} /\ forgotten' \in BOOLEAN
          /\ refused' \in BOOLEAN
      BY <1>0, <2>1, <3>1 DEF TypeOK
    <3> QED BY <3>2, <3>4, <3>5, <3>6, Zenon DEF PollerTypes, TypeOK
  <2> QED BY <1>3, <2>4, <2>5 DEF Complete
<1>4. ASSUME poll_asap, UNCHANGED <<enabled, client>>, policy' \in Policies,
             period' \in Jittered(policy'.period)
      PROVE  PollerTypes'
  <2>1. period' \in 0..Cap
    BY <1>4, PeriodIsBounded
  <2>2. asked' \in {"no", "idle", "inCall"}
    BY <1>4 DEF poll_asap, Asked
  <2> QED BY <1>0, <1>4, <2>1, <2>2 DEF poll_asap, client, PollerTypes, TypeOK
<1>5. CASE PollAsap
  BY <1>0, <1>4, <1>5 DEF PollAsap, TypeOK
<1>6. CASE EnablePolling
  <2>1. asked' \in {"no", "idle", "inCall"}
    BY <1>0, <1>6 DEF EnablePolling, TypeOK
  <2> QED BY <1>0, <1>6, <2>1 DEF EnablePolling, client, PollerTypes, TypeOK
<1>7. CASE DisablePolling
  BY <1>0, <1>7 DEF DisablePolling, schedule, client, history, PollerTypes, TypeOK
<1>8. ASSUME NEW new \in Policies, NEW asap \in BOOLEAN, UpdatePolicy(new, asap) PROVE PollerTypes'
  <2>1. /\ policy' \in Policies /\ period' \in Jittered(policy'.period)
        /\ UNCHANGED <<enabled, client>>
    BY <1>8 DEF UpdatePolicy
  <2>2. CASE poll_asap
    BY <1>4, <2>1, <2>2
  <2>3. CASE UNCHANGED <<schedule, history>>
    <3>1. period' \in 0..Cap
      BY <2>1, PeriodIsBounded
    <3> QED BY <1>0, <2>1, <2>3, <3>1 DEF schedule, client, history, PollerTypes, TypeOK
  <2> QED BY <1>8, <2>2, <2>3 DEF UpdatePolicy
<1>9. CASE Tick
  <2>1. nextIn' \in 0..Never
    BY <1>0, <1>9, WaitType DEF Tick, TypeOK
  <2>2. {sincePoll', sinceSuccess', sinceStart', sinceGood'} \subseteq 0..Cap
    BY <1>0, <1>9, WaitType DEF Tick, TypeOK
  <2> QED BY <1>0, <1>9, <2>1, <2>2 DEF Tick, client, PollerTypes, TypeOK
<1>10. CASE UNCHANGED pollerVars
  BY <1>0, <1>10 DEF pollerVars, vars, schedule, client, history, PollerTypes, TypeOK
<1> QED BY <1>1, <1>2, <1>3, <1>5, <1>6, <1>7, <1>8, <1>9, <1>10 DEF Next

-----------------------------------------------------------------------------
(***************************************************************************)
(* What the spacing of calls rests on: while nobody asked for a poll,      *)
(* last_poll_time is the start of the last call, and what is left until    *)
(* the next poll makes up, with the time since then, the promised delay.   *)
(* Enabling counts as asking, until the dispatch that serves it.           *)
(***************************************************************************)
SinceLastStart == asked = "no" => ~justEnabled /\ (~refused => sincePoll = sinceStart)

DelayIsKept == asked = "no" /\ ~waiting => promised <= sinceStart + nextIn

PollIsAhead == ~waiting /\ ~justEnabled /\ promised > 0 => nextIn <= Cap

SpacingInv == SinceLastStart /\ DelayIsKept /\ PollIsAhead

\* Times that the poller's types make natural numbers.
LEMMA SpacingTypes ==
    PollerTypes => /\ {Cap, MinDelay, sincePoll, sinceSuccess, sinceStart, promised, nextIn} \subseteq Nat
                   /\ Never = Cap + 1 /\ MinDelay <= Cap
                   /\ sincePoll <= Cap /\ sinceStart <= Cap /\ promised <= Cap /\ nextIn <= Never
<1> SUFFICES ASSUME PollerTypes
             PROVE  /\ {Cap, MinDelay, sincePoll, sinceSuccess, sinceStart, promised, nextIn} \subseteq Nat
                    /\ Never = Cap + 1 /\ MinDelay <= Cap
                    /\ sincePoll <= Cap /\ sinceStart <= Cap /\ promised <= Cap /\ nextIn <= Never
  OBVIOUS
<1>1. /\ {sincePoll, sinceSuccess, sinceStart, sinceGood, promised} \subseteq 0..Cap
      /\ nextIn \in 0..Never
  BY DEF PollerTypes, TypeOK
<1> QED BY <1>1, DelaysAreNat DEF Never

\* A delay that is put off for is promised, or there is nothing promised.
LEMMA ScheduleKeeps ==
    ASSUME PollerTypes, NEW delay \in Nat, delay <= Cap, NEW p \in Nat, p <= delay
    PROVE  p <= sincePoll + Schedule(delay) /\ (p > 0 => Schedule(delay) <= Cap)
<1>1. /\ Cap \in Nat /\ sincePoll \in Nat /\ nextIn \in Nat
  BY SpacingTypes
<1>2. CASE delay = 0
  <2>1. p = 0 /\ Schedule(delay) = nextIn
    BY <1>2 DEF Schedule
  <2> QED BY <1>1, <2>1
<1>3. CASE delay # 0
  <2>1. Schedule(delay) = IF delay - sincePoll < 0 THEN 0 ELSE delay - sincePoll
    BY <1>3 DEF Schedule, AtLeast
  <2> QED BY <1>1, <2>1
<1> QED BY <1>2, <1>3

LEMMA SpacingStart == Init => SpacingInv
<1> SUFFICES ASSUME Init PROVE SpacingInv
  OBVIOUS
<1>1. PollerTypes
  BY PollerStart
<1>2. /\ sincePoll = sinceStart /\ ~justEnabled /\ promised = 0
      /\ sinceStart \in Nat /\ nextIn \in Nat
  BY <1>1, SpacingTypes DEF Init
<1> QED BY <1>2 DEF SpacingInv, SinceLastStart, DelayIsKept, PollIsAhead

LEMMA SpacingDispatch == PollerTypes /\ SpacingInv /\ Dispatch => SpacingInv'
<1> SUFFICES ASSUME PollerTypes, SpacingInv, Dispatch PROVE SpacingInv'
  OBVIOUS
<1>1. PICK due \in IF justEnabled THEN Reenabled ELSE {RateLimited} :
        IF due = 0
          THEN /\ sincePoll' = 0
               /\ nextIn' = Never
               /\ waiting' = TRUE
               /\ StartCall
          ELSE /\ nextIn' = due
               /\ UNCHANGED <<sincePoll, waiting, client, history>>
  BY DEF Dispatch
<1>2. ~waiting /\ ~justEnabled'
  BY DEF Dispatch
<1>3. CASE due = 0
  BY <1>1, <1>2, <1>3 DEF StartCall, SpacingInv, SinceLastStart, DelayIsKept, PollIsAhead
<1>4. CASE due # 0
  <2>1. /\ nextIn' = due /\ sincePoll' = sincePoll /\ waiting' = waiting
        /\ sinceStart' = sinceStart /\ promised' = promised /\ asked' = asked
        /\ refused' = refused
    BY <1>1, <1>4 DEF history, client
  <2>2. CASE justEnabled
    <3>1. asked # "no"
      BY <2>2 DEF SpacingInv, SinceLastStart
    <3>2. due <= Cap
      BY <1>1, <2>2, ReenabledType, SpacingTypes
    <3> QED BY <1>2, <2>1, <3>1, <3>2 DEF SpacingInv, SinceLastStart, DelayIsKept, PollIsAhead
  <2>3. CASE ~justEnabled
    <3>1. due = IF nextIn < MinDelay - sinceSuccess THEN MinDelay - sinceSuccess ELSE nextIn
      BY <1>1, <2>3 DEF RateLimited, AtLeast
    <3>2. /\ {Cap, MinDelay, sinceSuccess, sinceStart, promised, nextIn} \subseteq Nat
          /\ MinDelay <= Cap
      BY SpacingTypes
    <3>3. due \in Int /\ nextIn <= due /\ (nextIn <= Cap => due <= Cap)
      BY <3>1, <3>2
    <3>4. asked = "no" => promised <= sinceStart + due
      BY <1>2, <3>2, <3>3 DEF SpacingInv, DelayIsKept
    <3>5. promised > 0 => due <= Cap
      BY <1>2, <2>3, <3>3 DEF SpacingInv, PollIsAhead
    <3> QED BY <1>2, <2>1, <3>4, <3>5, <2>3 DEF SpacingInv, SinceLastStart, DelayIsKept, PollIsAhead
  <2> QED BY <2>2, <2>3
<1> QED BY <1>3, <1>4

\* A response promises no more than the delay it schedules.
LEMMA SpacingComplete == PollerTypes /\ WaitingHasCall /\ SpacingInv /\ Complete => SpacingInv'
<1> SUFFICES ASSUME PollerTypes, WaitingHasCall, SpacingInv, Complete PROVE SpacingInv'
  OBVIOUS
<1>1. /\ ~waiting' /\ justEnabled' = justEnabled /\ asked' = asked
      /\ sincePoll' = sincePoll /\ sinceStart' = sinceStart /\ refused' = refused /\ ~refused
  BY DEF Complete, WaitingHasCall
<1>2. \E delay \in Nat, p \in Nat : /\ delay <= Cap /\ p <= delay
                                    /\ nextIn' = Schedule(delay) /\ promised' = p
  <2>1. CASE status = "ok" /\ promised' = IF retry > 0 THEN period \div 2 ELSE period
    <3>1. PICK delay \in IF retry > 0 THEN Around(period) ELSE {period} : nextIn' = Schedule(delay)
      BY <2>1 DEF Complete
    <3>2. /\ period \in 0..Cap /\ Around(period) \subseteq 0..Cap /\ period \div 2 \in Nat
      BY PeriodIsBounded DEF PollerTypes, TypeOK
    <3>3. delay \in 0..Cap
      BY <3>1, <3>2
    <3>4. promised' \in Nat /\ promised' <= delay
      <4> DEFINE half == period \div 2
      <4>1. retry > 0 => delay \in half..(half + period) /\ promised' = half
        BY <2>1, <3>1 DEF Around
      <4>2. ~(retry > 0) => delay = period /\ promised' = period
        BY <2>1, <3>1
      <4>3. half \in Nat /\ period \in Nat
        BY <3>2
      <4> HIDE DEF half
      <4> QED BY <4>1, <4>2, <4>3
    <3> QED BY <3>1, <3>3, <3>4, DelaysAreNat
  <2>2. CASE status = "error"
    <3>1. PICK delay \in BackoffAfter(retry) : nextIn' = Schedule(delay)
      BY <2>2 DEF Complete
    <3>2. promised' = IF RandomBackoff THEN policy.minBackoff ELSE Longest(retry)
      BY <2>2 DEF Complete
    <3>3. delay \in 0..Cap /\ Longest(retry) \in 0..Cap /\ policy.minBackoff \in 0..Cap
      BY <3>1, BackoffType
    <3>4. delay \in IF RandomBackoff THEN policy.minBackoff..Longest(retry) ELSE {Longest(retry)}
      BY <3>1 DEF BackoffAfter
    <3>5. promised' \in Nat /\ promised' <= delay
      <4> DEFINE least == policy.minBackoff
                 most == Longest(retry)
      <4>1. promised' = IF RandomBackoff THEN least ELSE most
        BY <3>2
      <4>2. least \in Nat /\ most \in Nat /\ delay \in IF RandomBackoff THEN least..most ELSE {most}
        BY <3>3, <3>4
      <4> HIDE DEF least, most
      <4> QED BY <4>1, <4>2
    <3> QED BY <3>1, <3>3, <3>5, DelaysAreNat
  <2> QED BY <2>1, <2>2 DEF Complete
<1>3. PICK delay \in Nat, p \in Nat : /\ delay <= Cap /\ p <= delay
                                      /\ nextIn' = Schedule(delay) /\ promised' = p
  BY <1>2
<1>4. promised' <= sincePoll + nextIn' /\ (promised' > 0 => nextIn' <= Cap)
  BY <1>3, ScheduleKeeps
<1> QED BY <1>1, <1>4 DEF SpacingInv, SinceLastStart, DelayIsKept, PollIsAhead

LEMMA SpacingTick == PollerTypes /\ SpacingInv /\ Tick => SpacingInv'
<1> SUFFICES ASSUME PollerTypes, SpacingInv, Tick PROVE SpacingInv'
  OBVIOUS
<1>1. /\ {Cap, sincePoll, sinceStart, promised, nextIn} \subseteq Nat
      /\ Never = Cap + 1 /\ promised <= Cap /\ nextIn <= Never
  BY SpacingTypes
<1>2. /\ nextIn' = IF nextIn = Never THEN Never ELSE IF nextIn - 1 < 0 THEN 0 ELSE nextIn - 1
      /\ sincePoll' = IF sincePoll + 1 > Cap THEN Cap ELSE sincePoll + 1
      /\ sinceStart' = IF sinceStart + 1 > Cap THEN Cap ELSE sinceStart + 1
      /\ UNCHANGED <<justEnabled, waiting, promised, asked, refused>>
  BY DEF Tick, Later, AtMost, AtLeast, client
<1>3. SinceLastStart'
  BY <1>1, <1>2 DEF SpacingInv, SinceLastStart
<1>4. DelayIsKept'
  <2>1. promised <= sinceStart + nextIn => promised <= sinceStart' + nextIn'
    BY <1>1, <1>2
  <2> QED BY <1>2, <2>1 DEF SpacingInv, DelayIsKept
<1>5. PollIsAhead'
  <2>1. nextIn <= Cap => nextIn' <= Cap
    BY <1>1, <1>2
  <2> QED BY <1>2, <2>1 DEF SpacingInv, PollIsAhead
<1> QED BY <1>3, <1>4, <1>5 DEF SpacingInv

LEMMA SpacingNext == PollerTypes /\ WaitingHasCall /\ SpacingInv /\ [Next]_vars => SpacingInv'
<1> SUFFICES ASSUME PollerTypes, WaitingHasCall, SpacingInv, [Next]_vars PROVE SpacingInv'
  OBVIOUS
<1>1. UNCHANGED <<schedule, refused, history>> => SpacingInv'
  BY DEF schedule, history, SpacingInv, SinceLastStart, DelayIsKept, PollIsAhead
<1>2. poll_asap => SpacingInv'
  <2> SUFFICES ASSUME poll_asap PROVE SpacingInv'
    OBVIOUS
  <2>1. asked' # "no" /\ nextIn' = 0
    BY DEF poll_asap, Asked
  <2>2. 0 <= Cap
    BY SpacingTypes
  <2> QED BY <2>1, <2>2 DEF SpacingInv, SinceLastStart, DelayIsKept, PollIsAhead
<1>3. CASE PollAsap
  BY <1>2, <1>3 DEF PollAsap
<1>4. CASE EnablePolling
  <2>1. asked' # "no" /\ justEnabled'
    BY <1>4 DEF EnablePolling
  <2> QED BY <2>1 DEF SpacingInv, SinceLastStart, DelayIsKept, PollIsAhead
<1>5. ASSUME NEW new \in Policies, NEW asap \in BOOLEAN, UpdatePolicy(new, asap) PROVE SpacingInv'
  BY <1>1, <1>2, <1>5 DEF UpdatePolicy, client
<1>6. CASE Ended \/ Worker \/ DisablePolling
  BY <1>1, <1>6 DEF Ended, CallEnds, Worker, DisablePolling, client
<1>7. CASE UNCHANGED vars
  BY <1>1, <1>7 DEF vars, client
<1> QED BY <1>3, <1>4, <1>5, <1>6, <1>7, SpacingDispatch, SpacingComplete, SpacingTick DEF Next

LEMMA SpacingHolds == Spec => []PollerTypes /\ []SpacingInv
<1>1. PollerTypes /\ [Next]_vars => PollerTypes'
  BY PollerNext DEF pollerVars
<1>2. Inv => WaitingHasCall
  BY DEF Inv
<1> QED BY <1>1, <1>2, InitInv, NextInv, PollerStart, SpacingStart, SpacingNext, PTL DEF Spec

(***************************************************************************)
(* A call that nobody asked for starts no sooner than the outcome of the   *)
(* last one says: a period after a good call, the backoff after a failed   *)
(* one, whatever policies are set and whatever time the calls take.        *)
(***************************************************************************)
THEOREM CallsAreSpacedOut == Spec => SpacedOut
<1>1. PollerTypes /\ SpacingInv /\ [Next]_vars => [Starts /\ asked = "no" => sinceStart >= promised]_vars
  <2> SUFFICES ASSUME PollerTypes, SpacingInv, Next, Starts, asked = "no" PROVE sinceStart >= promised
    OBVIOUS
  <2>1. ~waiting /\ waiting'
    BY DEF Starts
  <2>2. Dispatch
    <3>0. waiting' # FALSE /\ waiting' # waiting
      BY <2>1
    <3>1. ~Complete /\ ~Ended /\ ~Worker
      BY <3>0, Zenon DEF Ended, CallEnds, Worker, Complete, schedule
    <3>2. ~PollAsap /\ ~EnablePolling /\ ~DisablePolling /\ ~Tick
      BY <2>1 DEF PollAsap, poll_asap, EnablePolling, DisablePolling, Tick, schedule
    <3>3. \A new \in Policies, asap \in BOOLEAN : ~UpdatePolicy(new, asap)
      BY <2>1 DEF UpdatePolicy, poll_asap, schedule
    <3> QED BY <3>1, <3>2, <3>3 DEF Next
  <2>3. RateLimited = 0
    <3>1. ~justEnabled
      BY DEF SpacingInv, SinceLastStart
    <3>2. PICK due \in {RateLimited} : due # 0 => waiting' = waiting
      BY <2>2, <3>1 DEF Dispatch
    <3> QED BY <2>1, <3>2
  <2>4. {MinDelay, sinceSuccess, sinceStart, promised, nextIn} \subseteq Nat
    BY SpacingTypes
  <2>5. nextIn = 0
    BY <2>3, <2>4 DEF RateLimited, AtLeast
  <2>6. promised <= sinceStart + nextIn
    BY <2>1 DEF SpacingInv, DelayIsKept
  <2> QED BY <2>4, <2>5, <2>6
<1> QED BY <1>1, SpacingHolds, PTL DEF Spec, SpacedOut

(***************************************************************************)
(* An enabled poller has its next poll ahead of it or a response to wait   *)
(* for, once a call ended that leaves a delay to keep: on_response never   *)
(* leaves next_poll_time at nano_t_max then, and dispatch only does when   *)
(* it starts a call.                                                       *)
(***************************************************************************)
THEOREM PollersStayScheduled == Spec => []EnabledIsScheduled
<1>1. PollerTypes /\ SpacingInv => EnabledIsScheduled
  <2> SUFFICES ASSUME PollerTypes, SpacingInv, ~waiting, ~justEnabled, promised > 0
               PROVE  nextIn # Never
    BY DEF EnabledIsScheduled
  <2>1. nextIn <= Cap
    BY DEF SpacingInv, PollIsAhead
  <2> QED BY <2>1, SpacingTypes
<1> QED BY <1>1, SpacingHolds, PTL

-----------------------------------------------------------------------------
(* The monitor.                                                            *)

\* A signal is owed exactly while the monitor means to give it, out of contact.
MonitorInv ==
    /\ S!TypeOK
    /\ retry_on_connection <=> signals = "owed"
    /\ S!OneSignalPerOutage

LEMMA MonitorInit == S!Init => MonitorInv
BY GroundAssumption DEF S!Init, MonitorInv, S!TypeOK, S!OneSignalPerOutage

\* No age is both within aos_threshold and out of contact.
LEMMA NoShortOutage ==
    ASSUME NEW aos \in Nat, NEW t \in Nat, t = 0 \/ t >= aos, NEW a \in Nat
    PROVE  a < aos => ~(t > 0 /\ a > t)
OBVIOUS

LEMMA AgesAreNat ==
    ASSUME NEW m \in Nat, NEW step \in Nat, NEW a \in 0..m
    PROVE  a \in Nat /\ (IF a + step > m THEN m ELSE a + step) \in 0..m
OBVIOUS

LEMMA MonitorDispatch ==
    ASSUME MonitorInv, NEW a \in 0..MaxAge, S!Dispatch(a)
    PROVE  MonitorInv'
<1>1. a < Aos => ~S!RetryNext(a)
  <2>1. threshold \in Nat /\ (threshold = 0 \/ threshold >= Aos)
    BY GroundAssumption DEF MonitorInv, S!TypeOK
  <2>2. Aos \in Nat /\ a \in Nat
    BY GroundAssumption, AgesAreNat
  <2> QED BY <2>1, <2>2, NoShortOutage DEF S!RetryNext
<1>2. /\ contactAge' = a /\ threshold' = threshold /\ retry_on_connection' = S!RetryNext(a)
      /\ a < Aos /\ retry_on_connection =>
            signals' = IF signals = "owed" THEN "sent" ELSE "sent twice"
      /\ a < Aos /\ ~retry_on_connection => signals' = signals
      /\ ~(a < Aos) => signals' = IF S!RetryNext(a) THEN "owed" ELSE "none"
  BY DEF S!Dispatch, S!RetryNext
<1>3. S!RetryNext(a) \in BOOLEAN
  BY DEF S!RetryNext
<1>4. S!TypeOK'
  BY <1>2, <1>3 DEF MonitorInv, S!TypeOK
<1>5. CASE a < Aos
  BY <1>1, <1>2, <1>4, <1>5, Zenon DEF MonitorInv, S!OneSignalPerOutage, S!TypeOK
<1>6. CASE ~(a < Aos)
  BY <1>2, <1>3, <1>4, <1>6 DEF MonitorInv, S!OneSignalPerOutage
<1> QED BY <1>5, <1>6

LEMMA MonitorNext == MonitorInv /\ [S!Next]_monitorVars => MonitorInv'
<1> SUFFICES ASSUME MonitorInv, [S!Next]_monitorVars PROVE MonitorInv'
  OBVIOUS
<1>1. CASE S!Grow
  <2>1. (IF contactAge + Step > MaxAge THEN MaxAge ELSE contactAge + Step) \in 0..MaxAge
    BY GroundAssumption, AgesAreNat DEF MonitorInv, S!TypeOK
  <2> QED BY <1>1, <2>1, MonitorDispatch DEF S!Grow
<1>2. ASSUME NEW a \in Renewed, S!Renew(a) PROVE MonitorInv'
  BY <1>2, GroundAssumption, MonitorDispatch DEF S!Renew
<1>3. ASSUME NEW t \in Thresholds, S!SetThreshold(t) PROVE MonitorInv'
  BY <1>3 DEF MonitorInv, S!SetThreshold, S!TypeOK, S!OneSignalPerOutage
<1>4. CASE UNCHANGED monitorVars
  BY <1>4 DEF MonitorInv, monitorVars, S!TypeOK, S!OneSignalPerOutage
<1> QED BY <1>1, <1>2, <1>3, <1>4 DEF S!Next

-----------------------------------------------------------------------------
(* The endpoint.                                                           *)

LEMMA Remainder == \A a \in Int, b \in Nat \ {0} : a % b \in 0..(b - 1)
OBVIOUS

LEMMA RotationSteps ==
    ASSUME NEW n \in Nat \ {0}, NEW i \in Nat
    PROVE  /\ i % n \in 0..(n - 1)
           /\ (i + 0) % n \in 0..(n - 1)
           /\ i < n => i % n = i
           /\ i = n => i % n = 0
OBVIOUS

\* The targets from the one at a on, around the end, to the one before i.
InArc(a, j, i) == IF a < i THEN a <= j /\ j < i ELSE a <= j \/ j < i

\* The arc grows by the index it ended before, until it is all of the circle.
LEMMA ArcGrows ==
    ASSUME NEW n \in Nat \ {0}, NEW i \in 0..(n - 1), NEW a \in 0..(n - 1), NEW j \in 0..(n - 1)
    PROVE  /\ (i + 1) % n = i => j = i
           /\ (i + 1) % n # i => (InArc(i, j, (i + 1) % n) <=> j = i)
           /\ a # i /\ a = (i + 1) % n => InArc(a, j, i) \/ j = i
           /\ a # i /\ a # (i + 1) % n =>
                 (InArc(a, j, (i + 1) % n) <=> InArc(a, j, i) \/ j = i)
<1>0. i + 1 \in Nat
  OBVIOUS
<1>1. CASE i + 1 < n
  <2>1. (i + 1) % n = i + 1
    BY <1>0, <1>1, RotationSteps
  <2> QED BY <1>1, <2>1 DEF InArc
<1>2. CASE i + 1 = n
  <2>1. (i + 1) % n = 0
    BY <1>0, <1>2, RotationSteps
  <2> QED BY <1>2, <2>1 DEF InArc
<1> QED BY <1>1, <1>2

(***************************************************************************)
(* While failures keep coming, the last endpoint is the indexed one, and   *)
(* those that failed are all that DNS offers, or an arc of them that ends  *)
(* before it.  The rotation begins anew no later than the index returns.   *)
(***************************************************************************)
Rotating ==
    /\ index < Len(dns) /\ last = dns[index + 1]
    /\ \/ E!Range(dns) \subseteq failed
       \/ \E a \in 0..(Len(dns) - 1) :
             /\ a # index
             /\ \A j \in 0..(Len(dns) - 1) : dns[j + 1] \in failed <=> InArc(a, j, index)

EndpointInv ==
    /\ E!TypeOK
    /\ sinceCreated <= quiet
    /\ failed # {} => Rotating

LEMMA MinOfTwo ==
    ASSUME NEW a \in Int, NEW b \in Int
    PROVE  E!Min({a, b}) = IF a <= b THEN a ELSE b
<1>1. CASE a <= b
  BY <1>1 DEF E!Min
<1>2. CASE ~(a <= b)
  BY <1>2 DEF E!Min
<1> QED BY <1>1, <1>2

LEMMA CapsKeepOrder ==
    ASSUME NEW c \in Nat, NEW a \in 0..(c + 1), NEW b \in 0..(c + 1), a <= b
    PROVE  /\ E!Min({a + 1, c + 1}) \in 0..(c + 1) /\ E!Min({b + 1, c + 1}) \in 0..(c + 1)
           /\ E!Min({a + 1, c + 1}) <= E!Min({b + 1, c + 1})
<1>1. /\ E!Min({a + 1, c + 1}) = IF a + 1 <= c + 1 THEN a + 1 ELSE c + 1
      /\ E!Min({b + 1, c + 1}) = IF b + 1 <= c + 1 THEN b + 1 ELSE c + 1
  <2>1. a + 1 \in Int /\ b + 1 \in Int /\ c + 1 \in Int
    OBVIOUS
  <2> QED BY <2>1, MinOfTwo
<1> QED BY <1>1

\* Between two offers nothing is told of a sequence but that it is one without repeats.
LEMMA OfferShape ==
    ASSUME NEW d \in E!Offers
    PROVE  /\ d \in Seq(Targets) /\ Len(d) <= MaxTargets /\ Len(d) \in Nat
           /\ \A i, j \in 1..Len(d) : d[i] = d[j] => i = j
           /\ E!Range(d) = {d[i] : i \in 1..Len(d)}
<1>1. PICK m \in 0..MaxTargets : d \in [1..m -> Targets]
  BY DEF E!Offers, E!SeqOf
<1>2. m \in Nat /\ m <= MaxTargets
  BY GroundAssumption
<1>3. d \in Seq(Targets) /\ Len(d) = m
  BY <1>1, <1>2
<1>4. DOMAIN d = 1..Len(d)
  BY <1>1, <1>3
<1> QED BY <1>2, <1>3, <1>4 DEF E!Offers, E!IsInjective, E!Range

LEMMA CoveredByRange ==
    ASSUME NEW d \in E!Offers, NEW F,
           \A j \in 0..(Len(d) - 1) : d[j + 1] \in F
    PROVE  E!Range(d) \subseteq F
<1> SUFFICES ASSUME NEW i \in 1..Len(d) PROVE d[i] \in F
  BY OfferShape
<1>1. Len(d) \in Nat
  BY OfferShape
<1>2. i - 1 \in 0..(Len(d) - 1) /\ (i - 1) + 1 = i
  BY <1>1
<1> QED BY <1>2

\* What the next call goes to, and where the rotation stands then.
LEMMA NextIndexIsOffered ==
    ASSUME EndpointInv, NEW h \in BOOLEAN, ~(~override /\ dns = <<>>)
    PROVE  /\ E!NextIndex(h) \in 0..(MaxTargets - 1)
           /\ ~override => /\ Len(dns) \in Nat \ {0}
                           /\ E!NextIndex(h) \in 0..(Len(dns) - 1)
                           /\ dns[E!NextIndex(h) + 1] \in Targets
<1>1. MaxTargets \in Nat \ {0} /\ 0 \in 0..(MaxTargets - 1)
  BY GroundAssumption
<1>2. CASE override
  BY <1>1, <1>2 DEF E!NextIndex
<1>3. CASE ~override
  <2>1. dns \in Seq(Targets) /\ Len(dns) \in Nat /\ Len(dns) <= MaxTargets
    BY OfferShape DEF EndpointInv, E!TypeOK
  <2>2. Len(dns) \in Nat \ {0}
    BY <1>3, <2>1
  <2>3. index \in Nat
    BY <1>1 DEF EndpointInv, E!TypeOK
  <2>4. /\ index + 0 \in Nat /\ index + 1 \in Nat
        /\ (index + 0) % Len(dns) \in 0..(Len(dns) - 1)
        /\ (index + 1) % Len(dns) \in 0..(Len(dns) - 1)
        /\ 0 \in 0..(Len(dns) - 1)
    BY <2>2, <2>3, RotationSteps
  <2>5. E!NextIndex(h) \in 0..(Len(dns) - 1)
    BY <2>4 DEF E!NextIndex
  <2>6. E!NextIndex(h) + 1 \in 1..Len(dns) /\ E!NextIndex(h) \in 0..(MaxTargets - 1)
    BY <1>1, <2>1, <2>2, <2>5
  <2> QED BY <2>1, <2>2, <2>5, <2>6
<1> QED BY <1>2, <1>3

\* A failure that counts in the rotation joins the arc.
LEMMA RotationGoesOn ==
    ASSUME EndpointInv, Len(dns) \in Nat \ {0}, E!Endpoint(TRUE),
           index' = (index + 1) % Len(dns), last' = dns[index' + 1], dns' = dns,
           failed' = failed \cup (E!Current \cap {last}), failed' # {}
    PROVE  Rotating'
<1> DEFINE n == Len(dns)
<1> DEFINE Joined(j) == dns[j + 1] \in failed'
<1>0. dns \in E!Offers /\ \A k, l \in 1..n : dns[k] = dns[l] => k = l
  BY OfferShape DEF EndpointInv, E!TypeOK
<1>1. index \in Nat
  BY GroundAssumption DEF EndpointInv, E!TypeOK
<1>2. index < n /\ last = dns[index + 1] /\ failed' = failed \cup {dns[index + 1]}
  <2>1. CASE failed = {}
    BY <2>1 DEF E!Current
  <2>2. CASE failed # {}
    BY <2>2 DEF EndpointInv, Rotating, E!Current
  <2> QED BY <2>1, <2>2
<1>3. index \in 0..(n - 1) /\ index' \in 0..(n - 1)
  <2>1. n \in Nat \ {0} /\ index' = (index + 1) % n
    OBVIOUS
  <2> HIDE DEF n
  <2>2. index \in 0..(n - 1) /\ index + 1 \in Int
    BY <1>1, <1>2, <2>1
  <2>3. (index + 1) % n \in 0..(n - 1)
    BY <2>1, <2>2, Remainder
  <2> QED BY <2>1, <2>2, <2>3
<1>4. \A j \in 0..(n - 1) : dns[j + 1] = dns[index + 1] <=> j = index
  <2> SUFFICES ASSUME NEW j \in 0..(n - 1), dns[j + 1] = dns[index + 1] PROVE j = index
    OBVIOUS
  <2>1. j + 1 \in 1..n /\ index + 1 \in 1..n
    BY <1>3
  <2>2. j + 1 = index + 1
    BY <1>0, <2>1
  <2> QED BY <1>3, <2>2
<1>5. index' < Len(dns') /\ last' = dns'[index' + 1]
  BY <1>3
<1>6. \/ E!Range(dns) \subseteq failed'
      \/ \E a \in 0..(n - 1) : a # index' /\ \A j \in 0..(n - 1) : Joined(j) <=> InArc(a, j, index')
  <2>1. CASE failed = {}
    <3>1. \A j \in 0..(n - 1) : Joined(j) <=> j = index
      BY <1>2, <1>4, <2>1
    <3>2. CASE index' = index
      <4>0. (index + 1) % n = index
        BY <3>2
      <4>1. \A j \in 0..(n - 1) : j = index
        BY <1>3, <4>0, ArcGrows
      <4> QED BY <1>0, <3>1, <4>1, CoveredByRange
    <3>3. CASE index' # index
      <4>1. \A j \in 0..(n - 1) : Joined(j) <=> InArc(index, j, index')
        BY <1>3, <3>1, <3>3, ArcGrows
      <4> QED BY <1>3, <3>3, <4>1
    <3> QED BY <3>2, <3>3
  <2>2. CASE failed # {} /\ E!Range(dns) \subseteq failed
    BY <1>2, <2>2
  <2>3. CASE failed # {} /\ ~(E!Range(dns) \subseteq failed)
    <3>1. PICK a \in 0..(n - 1) :
             a # index /\ \A j \in 0..(n - 1) : dns[j + 1] \in failed <=> InArc(a, j, index)
      BY <2>3 DEF EndpointInv, Rotating
    <3>2. \A j \in 0..(n - 1) : Joined(j) <=> InArc(a, j, index) \/ j = index
      BY <1>2, <1>4, <3>1
    <3>3. CASE a = index'
      <4>1. a = (index + 1) % n /\ a # index
        BY <3>1, <3>3
      <4>2. \A j \in 0..(n - 1) : InArc(a, j, index) \/ j = index
        BY <1>3, <4>1, ArcGrows
      <4> QED BY <1>0, <3>2, <4>2, CoveredByRange
    <3>4. CASE a # index'
      <4>1. \A j \in 0..(n - 1) : Joined(j) <=> InArc(a, j, index')
        BY <1>3, <3>1, <3>2, <3>4, ArcGrows
      <4> QED BY <3>4, <4>1
    <3> QED BY <3>3, <3>4
  <2> QED BY <2>1, <2>2, <2>3
<1> QED BY <1>5, <1>6 DEF Rotating, E!Range

LEMMA EndpointInit == E!Init => EndpointInv
<1> SUFFICES ASSUME E!Init PROVE EndpointInv
  OBVIOUS
<1>1. 0 \in 0..(MaxTargets - 1) /\ Cooldown + 1 \in 0..(Cooldown + 1) /\ Cooldown + 1 <= Cooldown + 1
  BY GroundAssumption
<1> QED BY <1>1 DEF E!Init, EndpointInv, E!TypeOK

LEMMA EndpointCalled ==
    ASSUME EndpointInv, NEW h \in BOOLEAN, E!Endpoint(h)
    PROVE  EndpointInv'
<1>1. CASE ~override /\ dns = <<>>
  BY <1>1 DEF E!Endpoint, E!vars, EndpointInv, E!TypeOK, Rotating, E!Range
<1>2. CASE ~(~override /\ dns = <<>>)
  <2>1. /\ index' = E!NextIndex(h)
        /\ last' = IF override THEN E!Override ELSE dns[index' + 1]
        /\ sinceCreated' = IF E!CreatedNow(last' # last, h) THEN 0 ELSE sinceCreated
        /\ quiet' = IF h THEN 0 ELSE quiet
        /\ failed' = IF quiet > Cooldown \/ override THEN {}
                     ELSE IF h THEN failed \cup (E!Current \cap {last}) ELSE failed
        /\ dns' = dns /\ override' = override
    BY <1>2 DEF E!Endpoint
  <2>2. 0 \in 0..(Cooldown + 1) /\ \A x \in 0..(Cooldown + 1) : x \in Nat /\ 0 <= x
    BY GroundAssumption
  <2>3. sinceCreated' \in 0..(Cooldown + 1) /\ quiet' \in 0..(Cooldown + 1) /\ sinceCreated' <= quiet'
    BY <2>1, <2>2 DEF EndpointInv, E!TypeOK, E!CreatedNow
  <2>4. index' \in 0..(MaxTargets - 1) /\ last' \in Targets \cup {E!None, E!Override}
    BY <1>2, <2>1, NextIndexIsOffered
  <2>5. E!Current \subseteq Targets
    <3> SUFFICES ASSUME index < Len(dns) PROVE dns[index + 1] \in Targets
      BY DEF E!Current
    <3>1. index \in Nat /\ dns \in Seq(Targets) /\ Len(dns) \in Nat
      BY GroundAssumption, OfferShape DEF EndpointInv, E!TypeOK
    <3> QED BY <3>1
  <2>6. failed' \subseteq Targets
    BY <2>1, <2>5 DEF EndpointInv, E!TypeOK
  <2>7. E!TypeOK'
    BY <2>1, <2>3, <2>4, <2>6 DEF EndpointInv, E!TypeOK
  <2>8. failed' # {} => Rotating'
    <3> SUFFICES ASSUME failed' # {} PROVE Rotating'
      OBVIOUS
    <3>1. ~override /\ ~(quiet > Cooldown) /\ Len(dns) \in Nat \ {0}
      BY <1>2, <2>1, NextIndexIsOffered
    <3>2. ~(sinceCreated > Cooldown)
      BY <2>2, <3>1, GroundAssumption DEF EndpointInv, E!TypeOK
    <3>3. CASE h
      BY <2>1, <3>1, <3>2, <3>3, RotationGoesOn DEF E!NextIndex
    <3>4. CASE ~h
      <4>1. failed' = failed /\ Rotating
        BY <2>1, <3>1, <3>4 DEF EndpointInv
      <4>2. index \in Nat /\ index < Len(dns) /\ index + 0 = index
        BY <4>1, GroundAssumption DEF Rotating, EndpointInv, E!TypeOK
      <4>3. index' = index
        BY <2>1, <3>1, <3>2, <3>4, <4>2, RotationSteps DEF E!NextIndex
      <4>4. last' = last /\ dns' = dns
        BY <2>1, <3>1, <4>1, <4>3 DEF Rotating
      <4> QED BY <4>1, <4>3, <4>4 DEF Rotating, E!Range
    <3> QED BY <3>3, <3>4
  <2> QED BY <2>3, <2>7, <2>8 DEF EndpointInv
<1> QED BY <1>1, <1>2

LEMMA EndpointNext == EndpointInv /\ [E!Next]_endpointVars => EndpointInv'
<1> SUFFICES ASSUME EndpointInv, [E!Next]_endpointVars PROVE EndpointInv'
  OBVIOUS
<1>1. ASSUME NEW h \in BOOLEAN, E!Endpoint(h) PROVE EndpointInv'
  BY <1>1, EndpointCalled
<1>2. ASSUME NEW d \in E!Offers, E!Resolve(d) PROVE EndpointInv'
  BY <1>2 DEF E!Resolve, EndpointInv, E!TypeOK
<1>3. CASE E!SetOverride
  BY <1>3 DEF E!SetOverride, EndpointInv, E!TypeOK
<1>4. CASE E!Wait
  <2>1. sinceCreated \in 0..(Cooldown + 1) /\ quiet \in 0..(Cooldown + 1) /\ sinceCreated <= quiet
    BY DEF EndpointInv, E!TypeOK
  <2>2. /\ E!Min({sinceCreated + 1, Cooldown + 1}) \in 0..(Cooldown + 1)
        /\ E!Min({quiet + 1, Cooldown + 1}) \in 0..(Cooldown + 1)
        /\ E!Min({sinceCreated + 1, Cooldown + 1}) <= E!Min({quiet + 1, Cooldown + 1})
    BY <2>1, GroundAssumption, CapsKeepOrder
  <2> QED BY <1>4, <2>2 DEF E!Wait, EndpointInv, E!TypeOK, Rotating, E!Range
<1>5. CASE UNCHANGED endpointVars
  BY <1>5 DEF endpointVars, EndpointInv, E!TypeOK, Rotating, E!Range
<1> QED BY <1>1, <1>2, <1>3, <1>4, <1>5 DEF E!Next

\* The arc of those that failed ends before the last endpoint.
LEMMA EndpointTurns == EndpointInv => E!EveryTargetGetsATurn
<1> SUFFICES ASSUME EndpointInv, last \in failed PROVE E!Range(dns) \subseteq failed
  BY DEF E!EveryTargetGetsATurn
<1>1. Rotating
  BY DEF EndpointInv
<1>2. index \in Nat /\ Len(dns) \in Nat
  BY GroundAssumption, OfferShape DEF EndpointInv, E!TypeOK
<1>3. index \in 0..(Len(dns) - 1) /\ dns[index + 1] \in failed
  BY <1>1, <1>2 DEF Rotating
<1>4. \A a \in 0..(Len(dns) - 1) : a # index => ~InArc(a, index, index)
  BY <1>3 DEF InArc
<1> QED BY <1>1, <1>3, <1>4 DEF Rotating
-----------------------------------------------------------------------------
(* The relay.                                                              *)

FlowType ==
    [id : Ids, annotated : BOOLEAN, name : R!FlowNames, extra : BOOLEAN,
     hosts : [0..(NumAlt + 1) -> Seq(Hosts)]]

\* A flow of which all that must be read has been.
Whole(f) ==
    /\ f.hosts[0] # <<>> /\ R!IsInjective(f.hosts[0])
    /\ ~(R!IsGated(f) /\ R!HasAlt(f))

\* A flow of which no option has been read.
Plain(f) == \A d \in 1..(NumAlt + 1) : f.hosts[d] = <<>>

ParserInv ==
    /\ parser \in [at : {"flow", "type", "destination", "options", "rest", "done"},
                   info : FlowType, flows : Seq(FlowType), lines : Nat]
    /\ parser.at \in {"type", "destination"} => Plain(parser.info)
    /\ parser.at \in {"options", "rest"} => Whole(parser.info)
    /\ \A i \in 1..Len(parser.flows) : Whole(parser.flows[i])

\* The two halves agree with the flow, and the element with its validator.
IsSetUp(f) ==
    /\ \A d \in 0..(NumAlt + 1) :
          /\ f.hosts[d] # <<>> => conns[f.id][d] # <<>>
          /\ R!IsInjective(f.hosts[d]) => Len(conns[f.id][d]) = Len(f.hosts[d])
    /\ R!FlowAccepted(f)
    /\ valid[f.id] = R!Validity(f) /\ destination[f.id] \in valid[f.id]

RelayInv ==
    /\ ParserInv
    /\ state \in {"new", "initialized", "finalized", "failed"}
    /\ conns \in [Ids -> [0..(NumAlt + 1) -> Seq(Hosts \cup {"override", "redirected"})]]
    /\ valid \in [Ids -> SUBSET (0..NumAlt)]
    /\ destination \in [Ids -> 0..NumAlt]
    /\ writers \subseteq claimed /\ claimed \subseteq Ids
    /\ state = "new" => destination = [i \in Ids |-> 0]
    /\ R!Up => \A i \in 1..Len(parser.flows) : IsSetUp(parser.flows[i])

LEMMA DestinationsAreNat ==
    ASSUME NEW d \in 0..(NumAlt + 1)
    PROVE  /\ NumAlt \in Nat /\ 0 \in 0..NumAlt /\ 0 \in 0..(NumAlt + 1)
           /\ NumAlt + 1 \in 1..(NumAlt + 1) /\ NumAlt + 1 \notin 1..NumAlt
           /\ 0 \notin 1..(NumAlt + 1) /\ 1..NumAlt \subseteq 1..(NumAlt + 1)
           /\ 1..(NumAlt + 1) \subseteq 0..(NumAlt + 1) /\ 0..NumAlt \subseteq 0..(NumAlt + 1)
           /\ 0..NumAlt = {0} \cup 1..NumAlt
           /\ d = 0 \/ d \in 1..(NumAlt + 1)
BY GroundAssumption

LEMMA HostsAreSeq ==
    ASSUME NEW h \in R!HostLists
    PROVE  h \in Seq(Hosts) /\ h # <<>>
<1>1. PICK m \in 0..2 : h \in [1..m -> Hosts]
  BY DEF R!HostLists, R!SeqOf
<1> QED BY <1>1 DEF R!HostLists

LEMMA SameCardinality == \A X : R!Cardinality(X) = Cardinality(X)
BY DEF R!Cardinality, Cardinality

(***************************************************************************)
(* There are connections to any hosts, and as many as hosts if none is     *)
(* named twice, whether connections are shared or not.                     *)
(***************************************************************************)
LEMMA ConnectLeads ==
    ASSUME NEW h \in Seq(Hosts)
    PROVE  /\ R!Connect(h) \in Seq(Hosts \cup {"override", "redirected"})
           /\ h # <<>> => R!Connect(h) # <<>>
           /\ R!IsInjective(h) => Len(R!Connect(h)) = Len(h)
<1> DEFINE leads == Hosts \cup {"override", "redirected"}
<1> DEFINE T == R!Range(h)
<1>1. Len(h) \in Nat /\ DOMAIN h = 1..Len(h) /\ T = {h[i] : i \in 1..Len(h)} /\ T \subseteq Hosts
  BY DEF R!Range
<1>2. IsFiniteSet(1..Len(h)) /\ Cardinality(1..Len(h)) = Len(h)
  <2> DEFINE n == Len(h)
  <2>1. 1 \in Int /\ n \in Int /\ n \in Nat
    BY <1>1
  <2> HIDE DEF n
  <2>2. IsFiniteSet(1..n) /\ Cardinality(1..n) = IF 1 > n THEN 0 ELSE n - 1 + 1
    BY <2>1, FS_Interval, Zenon
  <2>3. Cardinality(1..n) = n
    BY <2>1, <2>2
  <2> QED BY <2>2, <2>3 DEF n
<1>3. h \in Surjection(1..Len(h), T)
  BY <1>1 DEF Surjection
<1>4. /\ IsFiniteSet(T) /\ Cardinality(T) <= Len(h)
      /\ Cardinality(T) = Len(h) <=> h \in Injection(1..Len(h), T)
  BY <1>2, <1>3, FS_Surjection
<1>5. Cardinality(T) \in Nat /\ (Cardinality(T) = 0 <=> T = {})
  BY <1>4, FS_CardinalityType, FS_EmptySet
<1>6. \A x \in Hosts : R!Leads(x) \in leads
  BY DEF R!Leads
<1>7. CASE aggregate
  <2>1. PICK g \in [1..Cardinality(T) -> T] : IsInjective(g)
    <3>1. PICK b \in Bijection(1..Cardinality(T), T) : TRUE
      BY <1>4, FS_CardinalityType DEF ExistsBijection
    <3> QED BY <3>1 DEF Bijection, Injection
  <2>2. R!SetToSeq(T) \in [1..Cardinality(T) -> T]
    BY <2>1, SameCardinality DEF R!SetToSeq, R!IsInjective, IsInjective
  <2>3. R!Connect(h) = [i \in 1..Cardinality(T) |-> R!Leads(R!SetToSeq(T)[i])]
    BY <1>7, SameCardinality DEF R!Connect
  <2>4. R!Connect(h) \in Seq(leads) /\ Len(R!Connect(h)) = Cardinality(T)
    <3>1. \A i \in 1..Cardinality(T) : R!Leads(R!SetToSeq(T)[i]) \in leads
      BY <1>1, <1>6, <2>2
    <3> QED BY <1>5, <2>3, <3>1
  <2>5. h # <<>> => R!Connect(h) # <<>>
    <3>1. h # <<>> => T # {}
      BY <1>1
    <3> QED BY <1>5, <2>4, <3>1
  <2>6. R!IsInjective(h) => Len(R!Connect(h)) = Len(h)
    BY <1>1, <1>3, <1>4, <2>4 DEF R!IsInjective, IsInjective, Injection, Surjection
  <2> QED BY <2>4, <2>5, <2>6
<1>8. CASE ~aggregate
  <2>1. R!Connect(h) = [i \in 1..Len(h) |-> R!Leads(h[i])]
    BY <1>1, <1>8 DEF R!Connect
  <2>2. \A i \in 1..Len(h) : R!Leads(h[i]) \in leads
    BY <1>1, <1>6
  <2>3. R!Connect(h) \in Seq(leads) /\ Len(R!Connect(h)) = Len(h)
    BY <1>1, <2>1, <2>2
  <2> QED BY <1>1, <2>3
<1> QED BY <1>7, <1>8

LEMMA RelayStart == R!Init => RelayInv
<1> SUFFICES ASSUME R!Init PROVE RelayInv
  OBVIOUS
<1>1. NumAlt \in Nat /\ 0 \in 0..NumAlt /\ {0} \subseteq 0..NumAlt
  BY GroundAssumption
<1>2. (CHOOSE i \in Ids : TRUE) \in Ids
  BY GroundAssumption
<1>3. R!Blank(CHOOSE i \in Ids : TRUE) \in FlowType
  BY <1>2 DEF R!Blank, FlowType, R!FlowNames, R!Disabled
<1>4. ParserInv
  BY <1>3 DEF R!Init, ParserInv
<1> QED BY <1>1, <1>4 DEF R!Init, RelayInv, R!Up, R!Disabled

(* Reading the file sets nothing up. *)

LEMMA StillReading ==
    ASSUME RelayInv, state = "new", state' \in {"new", "failed"}, ParserInv',
           UNCHANGED R!relay
    PROVE  RelayInv'
BY DEF RelayInv, R!Up, R!relay

LEMMA BadLineInv == RelayInv /\ state = "new" /\ R!BadLine => RelayInv'
BY StillReading DEF R!BadLine, R!file, RelayInv, ParserInv

LEMMA GoOnInv ==
    ASSUME RelayInv, state = "new",
           NEW at \in {"destination", "options", "rest"}, NEW flow \in FlowType,
           R!GoOn(at, flow),
           at = "destination" => Plain(flow), at # "destination" => Whole(flow)
    PROVE  RelayInv'
<1>1. parser' = [parser EXCEPT !.at = at, !.info = flow, !.lines = @ + 1]
  BY DEF R!GoOn
<1>2. /\ parser' \in [at : {"flow", "type", "destination", "options", "rest", "done"},
                     info : FlowType, flows : Seq(FlowType), lines : Nat]
      /\ parser'.at = at /\ parser'.info = flow /\ parser'.flows = parser.flows
  <2>1. parser \in [at : {"flow", "type", "destination", "options", "rest", "done"},
                    info : FlowType, flows : Seq(FlowType), lines : Nat]
    BY DEF RelayInv, ParserInv
  <2>2. parser.lines + 1 \in Nat
    BY <2>1
  <2> QED BY <1>1, <2>1, <2>2
<1>3. ParserInv'
  BY <1>2 DEF RelayInv, ParserInv, Whole, Plain, R!IsGated, R!HasAlt
<1> QED BY <1>3, StillReading DEF R!GoOn

\* The flow being read is stored.
LEMMA StoredInv ==
    ASSUME ParserInv, parser.at \in {"flow", "options", "rest"},
           NEW flows, flows = IF parser.at = "flow" THEN parser.flows
                              ELSE Append(parser.flows, parser.info)
    PROVE  flows \in Seq(FlowType) /\ \A i \in 1..Len(flows) : Whole(flows[i])
<1>1. CASE parser.at = "flow"
  BY <1>1 DEF ParserInv
<1>2. CASE parser.at # "flow"
  <2>1. Whole(parser.info) /\ parser.info \in FlowType /\ parser.flows \in Seq(FlowType)
    BY <1>2 DEF ParserInv
  <2>2. /\ flows \in Seq(FlowType) /\ Len(flows) = Len(parser.flows) + 1
        /\ flows[Len(flows)] = parser.info
        /\ \A i \in 1..Len(parser.flows) : flows[i] = parser.flows[i]
    BY <1>2, <2>1
  <2>3. \A i \in 1..Len(flows) : i \in 1..Len(parser.flows) \/ i = Len(flows)
    BY <2>1, <2>2
  <2> QED BY <2>1, <2>2, <2>3 DEF ParserInv
<1> QED BY <1>1, <1>2

LEMMA ParseHeaderInv ==
    ASSUME RelayInv, NEW id \in Ids, R!ParseHeader(id)
    PROVE  RelayInv'
<1> DEFINE flows == IF parser.at = "flow" THEN parser.flows ELSE Append(parser.flows, parser.info)
<1>1. /\ state = "new" /\ parser.at \in {"flow", "options", "rest"}
      /\ parser' = [parser EXCEPT !.at = "type", !.info = R!Blank(id), !.lines = @ + 1,
                                  !.flows = flows]
  BY DEF R!ParseHeader, R!Reading, R!info
<1>2. R!Blank(id) \in FlowType /\ Plain(R!Blank(id))
  <2>1. \A d \in 1..(NumAlt + 1) : d \in 0..(NumAlt + 1)
    BY GroundAssumption
  <2> QED BY <2>1 DEF R!Blank, FlowType, R!FlowNames, Plain, R!Disabled
<1>3. flows \in Seq(FlowType) /\ \A i \in 1..Len(flows) : Whole(flows[i])
  BY <1>1, StoredInv DEF RelayInv
<1> HIDE DEF flows
<1>4. /\ parser' \in [at : {"flow", "type", "destination", "options", "rest", "done"},
                     info : FlowType, flows : Seq(FlowType), lines : Nat]
      /\ parser'.at = "type" /\ parser'.info = R!Blank(id) /\ parser'.flows = flows
  <2>1. parser \in [at : {"flow", "type", "destination", "options", "rest", "done"},
                    info : FlowType, flows : Seq(FlowType), lines : Nat]
    BY DEF RelayInv, ParserInv
  <2>2. parser.lines + 1 \in Nat
    BY <2>1
  <2> QED BY <1>1, <1>2, <1>3, <2>1, <2>2
<1>5. ParserInv'
  BY <1>2, <1>3, <1>4 DEF ParserInv, Plain
<1> QED BY <1>1, <1>5, StillReading DEF R!ParseHeader

LEMMA EndOfFileInv == RelayInv /\ R!EndOfFile => RelayInv'
<1> SUFFICES ASSUME RelayInv, R!EndOfFile PROVE RelayInv'
  OBVIOUS
<1>1. state = "new" /\ parser.at # "done"
  BY DEF R!EndOfFile
<1>2. CASE parser.at \in {"type", "destination"}
  BY <1>1, <1>2, BadLineInv DEF R!EndOfFile
<1>3. CASE parser.at \notin {"type", "destination"}
  <2> DEFINE flows == IF parser.at = "flow" THEN parser.flows
                      ELSE Append(parser.flows, parser.info)
  <2>1. parser' = [parser EXCEPT !.at = "done", !.flows = flows]
    BY <1>3 DEF R!EndOfFile, R!info
  <2>2. flows \in Seq(FlowType) /\ \A i \in 1..Len(flows) : Whole(flows[i])
    BY <1>1, <1>3, StoredInv DEF RelayInv, ParserInv
  <2> HIDE DEF flows
  <2>3. ParserInv'
    BY <2>1, <2>2 DEF RelayInv, ParserInv
  <2> QED BY <1>1, <1>3, <2>3, StillReading DEF R!EndOfFile
<1> QED BY <1>2, <1>3

LEMMA ParseTypeInv ==
    ASSUME RelayInv, NEW annotated \in BOOLEAN, R!ParseType(annotated)
    PROVE  RelayInv'
<1> DEFINE flow == [parser.info EXCEPT !.annotated = annotated]
<1>1. state = "new" /\ parser.at = "type" /\ R!GoOn("destination", flow)
  BY DEF R!ParseType, R!Reading, R!info
<1>2. flow \in FlowType /\ Plain(flow)
  BY <1>1 DEF RelayInv, ParserInv, FlowType, Plain
<1> HIDE DEF flow
<1> QED BY <1>1, <1>2, GoOnInv

LEMMA ParseDestinationInv ==
    ASSUME RelayInv, NEW h \in R!HostLists, R!ParseDestination(h)
    PROVE  RelayInv'
<1> DEFINE flow == [parser.info EXCEPT !.hosts[0] = h]
<1>1. state = "new" /\ parser.at = "destination"
  BY DEF R!ParseDestination, R!Reading
<1>2. CASE R!NoRepeats(h)
  <2>1. R!GoOn("options", flow)
    BY <1>2 DEF R!ParseDestination, R!info
  <2>2. parser.info \in FlowType /\ Plain(parser.info)
    BY <1>1 DEF RelayInv, ParserInv
  <2>3. 0 \in 0..(NumAlt + 1) /\ 0 \notin 1..(NumAlt + 1)
    BY GroundAssumption
  <2>4. flow \in FlowType /\ flow.hosts = [parser.info.hosts EXCEPT ![0] = h]
    BY <2>2, <2>3, HostsAreSeq DEF FlowType
  <2>5. flow.hosts[0] = h /\ \A d \in 1..(NumAlt + 1) : flow.hosts[d] = <<>>
    <3>1. \A d \in 1..(NumAlt + 1) : d \in 0..(NumAlt + 1) /\ d # 0
      BY GroundAssumption
    <3> QED BY <2>2, <2>3, <2>4, <3>1 DEF FlowType, Plain
  <2> HIDE DEF flow
  <2>6. Whole(flow)
    <3>1. NumAlt + 1 \in 1..(NumAlt + 1)
      BY GroundAssumption
    <3> QED BY <1>2, <2>5, <3>1, HostsAreSeq DEF Whole, R!NoRepeats, R!IsGated, R!Disabled
  <2> QED BY <1>1, <2>1, <2>4, <2>6, GoOnInv
<1>3. CASE ~R!NoRepeats(h)
  BY <1>1, <1>3, BadLineInv DEF R!ParseDestination
<1> QED BY <1>2, <1>3

(***************************************************************************)
(* Hosts added to a destination other than the first leave the flow whole, *)
(* if they are not for both of what excludes each other.                   *)
(***************************************************************************)
LEMMA HostsAdded ==
    ASSUME NEW f \in FlowType, Whole(f), NEW h \in Seq(Hosts), NEW d \in 1..(NumAlt + 1),
           d = NumAlt + 1 => \A e \in 1..NumAlt : f.hosts[e] = <<>>,
           d # NumAlt + 1 => f.hosts[NumAlt + 1] = <<>>
    PROVE  /\ [f EXCEPT !.hosts[d] = @ \o h] \in FlowType
           /\ Whole([f EXCEPT !.hosts[d] = @ \o h])
<1> DEFINE flow == [f EXCEPT !.hosts[d] = @ \o h]
<1>1. d \in 0..(NumAlt + 1) /\ d # 0 /\ 0 \in 0..(NumAlt + 1) /\ NumAlt + 1 \in 0..(NumAlt + 1)
  BY GroundAssumption
<1>2. \A e \in 1..NumAlt : e \in 0..(NumAlt + 1) /\ e # NumAlt + 1
  BY GroundAssumption
<1>3. f.hosts \in [0..(NumAlt + 1) -> Seq(Hosts)]
  BY DEF FlowType
<1>4. f.hosts[d] \o h \in Seq(Hosts)
  BY <1>1, <1>3, SMTT(30)
<1>5. /\ flow \in FlowType
      /\ \A e \in 0..(NumAlt + 1) : flow.hosts[e] = IF e = d THEN f.hosts[d] \o h ELSE f.hosts[e]
  BY <1>1, <1>3, <1>4 DEF FlowType
<1> HIDE DEF flow
<1>6. flow.hosts[0] = f.hosts[0]
  BY <1>1, <1>5
<1>7. CASE d = NumAlt + 1
  <2>1. \A e \in 1..NumAlt : flow.hosts[e] = <<>>
    BY <1>2, <1>5, <1>7
  <2> QED BY <1>5, <1>6, <2>1 DEF Whole, R!HasAlt, flow
<1>8. CASE d # NumAlt + 1
  <2>1. flow.hosts[NumAlt + 1] = <<>>
    BY <1>1, <1>5, <1>8
  <2> QED BY <1>5, <1>6, <2>1 DEF Whole, R!IsGated, R!Disabled, flow
<1> QED BY <1>7, <1>8

LEMMA ParseHostsInv ==
    ASSUME RelayInv, NEW h \in R!HostLists,
           R!ParseDisabled(h) \/ \E d \in R!Destinations : R!ParseAlternative(d, h)
    PROVE  RelayInv'
<1>1. state = "new" /\ parser.at = "options"
  BY DEF R!ParseDisabled, R!ParseAlternative, R!Reading
<1>2. CASE R!BadLine
  BY <1>1, <1>2, BadLineInv
<1>3. CASE ~R!BadLine
  <2>1. parser.info \in FlowType /\ Whole(parser.info)
    BY <1>1 DEF RelayInv, ParserInv
  <2>2. PICK d \in 1..(NumAlt + 1) :
           /\ R!GoOn("options", [parser.info EXCEPT !.hosts[d] = @ \o h])
           /\ d = NumAlt + 1 => \A e \in 1..NumAlt : parser.info.hosts[e] = <<>>
           /\ d # NumAlt + 1 => parser.info.hosts[NumAlt + 1] = <<>>
    <3>1. NumAlt + 1 \in 1..(NumAlt + 1) /\ 1..NumAlt \subseteq 1..(NumAlt + 1)
          /\ NumAlt + 1 \notin 1..NumAlt
      BY GroundAssumption
    <3>2. CASE R!ParseDisabled(h)
      BY <1>3, <3>1, <3>2 DEF R!ParseDisabled, R!info, R!Disabled
    <3>3. CASE \E d \in R!Destinations : R!ParseAlternative(d, h)
      <4>1. PICK d \in R!Destinations : R!ParseAlternative(d, h)
        BY <3>3
      <4> QED BY <1>3, <3>1, <4>1 DEF R!ParseAlternative, R!info, R!Disabled
    <3> QED BY <3>2, <3>3
  <2>3. /\ [parser.info EXCEPT !.hosts[d] = @ \o h] \in FlowType
        /\ Whole([parser.info EXCEPT !.hosts[d] = @ \o h])
    BY <2>1, <2>2, HostsAreSeq, HostsAdded
  <2> QED BY <1>1, <2>2, <2>3, GoOnInv
<1> QED BY <1>2, <1>3

LEMMA ParseOptionInv ==
    ASSUME RelayInv,
           \/ \E name \in R!FlowNames : R!ParseName(name)
           \/ \E positive \in BOOLEAN : R!ParseBandwidth(positive)
           \/ R!ParseAnnotation \/ R!ParseRest
    PROVE  RelayInv'
<1>1. state = "new" /\ parser.at \in {"options", "rest"}
  BY DEF R!ParseName, R!ParseBandwidth, R!ParseAnnotation, R!ParseRest, R!Reading
<1>2. parser.info \in FlowType /\ Whole(parser.info)
  BY <1>1 DEF RelayInv, ParserInv
<1>3. CASE R!BadLine
  BY <1>1, <1>3, BadLineInv
<1>4. CASE R!GoOn("options", parser.info)
  BY <1>1, <1>2, <1>4, GoOnInv
<1>5. ASSUME NEW name \in R!FlowNames, R!ParseName(name) PROVE RelayInv'
  <2> DEFINE flow == [parser.info EXCEPT !.name = name]
  <2>1. R!GoOn("options", flow)
    BY <1>5 DEF R!ParseName, R!info
  <2>2. flow \in FlowType /\ flow.hosts = parser.info.hosts
    BY <1>2 DEF FlowType
  <2>3. Whole(flow)
    BY <1>2, <2>2 DEF Whole, R!IsGated, R!HasAlt
  <2> HIDE DEF flow
  <2> QED BY <1>1, <2>1, <2>2, <2>3, GoOnInv
<1>6. CASE R!ParseRest
  <2> DEFINE flow == [parser.info EXCEPT !.extra = TRUE]
  <2>1. R!GoOn("rest", flow)
    BY <1>6 DEF R!ParseRest, R!info
  <2>2. flow \in FlowType /\ flow.hosts = parser.info.hosts
    BY <1>2 DEF FlowType
  <2>3. Whole(flow)
    BY <1>2, <2>2 DEF Whole, R!IsGated, R!HasAlt
  <2> HIDE DEF flow
  <2> QED BY <1>1, <2>1, <2>2, <2>3, GoOnInv
<1> QED BY <1>3, <1>4, <1>5, <1>6 DEF R!ParseBandwidth, R!ParseAnnotation, R!info

(* The two halves are set up from the same flows. *)

LEMMA SetUpTogether ==
    ASSUME RelayInv, R!InitRelay, state' = "initialized", NEW i \in 1..Len(parser.flows)
    PROVE  IsSetUp(parser.flows[i])'
<1> DEFINE f == parser.flows[i]
<1> DEFINE used == R!Known
<1> DEFINE at(id) == CHOOSE g \in R!Flows : g.id = id
<1>1. /\ state = "new" /\ R!RuntimeAccepts
      /\ parser' = parser /\ aggregate' = aggregate /\ masterOverride' = masterOverride
      /\ redirects' = redirects /\ destination' = destination
      /\ conns' = [id \in Ids |-> IF id \in used
                     THEN [d \in 0..R!Disabled |-> R!Connect(at(id).hosts[d])]
                     ELSE conns[id]]
      /\ valid' = [id \in Ids |-> IF id \in used THEN R!Validity(at(id)) ELSE valid[id]]
  BY DEF R!InitRelay, R!file
<1>2. /\ parser.flows \in Seq(FlowType) /\ DOMAIN parser.flows = 1..Len(parser.flows)
      /\ R!Flows = {parser.flows[j] : j \in 1..Len(parser.flows)}
  BY DEF RelayInv, ParserInv, R!Flows, R!Range
<1>3. f \in R!Flows /\ f \in FlowType /\ f.id \in Ids /\ f.id \in used
  <2>1. f \in R!Flows /\ f \in FlowType
    BY <1>2
  <2> QED BY <2>1 DEF FlowType, R!Known
<1>4. \A g \in R!Flows : g.id = f.id => g = f
  BY <1>1, <1>2 DEF R!RuntimeAccepts
<1>5. at(f.id) = f
  BY <1>3, <1>4
<1>6. conns'[f.id] = [d \in 0..(NumAlt + 1) |-> R!Connect(f.hosts[d])]
  <2> HIDE DEF at
  <2> QED BY <1>1, <1>3, <1>5 DEF R!Disabled
<1>7. valid'[f.id] = R!Validity(f)
  BY <1>1, <1>3, <1>5
<1>8. destination[f.id] = 0 /\ 0 \in R!Validity(f)
  BY <1>1, <1>3 DEF RelayInv, R!Validity
<1>9. R!FlowAccepted(f)
  BY <1>1, <1>3 DEF R!RuntimeAccepts
<1>10. \A d \in 0..(NumAlt + 1) :
          /\ f.hosts[d] # <<>> => conns'[f.id][d] # <<>>
          /\ R!IsInjective(f.hosts[d]) => Len(conns'[f.id][d]) = Len(f.hosts[d])
  <2>1. \A d \in 0..(NumAlt + 1) : f.hosts[d] \in Seq(Hosts) /\ conns'[f.id][d] = R!Connect(f.hosts[d])
    <3>1. f.hosts \in [0..(NumAlt + 1) -> Seq(Hosts)]
      BY <1>3 DEF FlowType
    <3> QED BY <1>6, <3>1
  <2> HIDE DEF f
  <2> QED BY <2>1, ConnectLeads
<1> QED BY <1>1, <1>7, <1>8, <1>9, <1>10, ZenonT(40)
        DEF IsSetUp, R!FlowAccepted, R!Validity, R!IsInjective, R!IsGated, R!HasAlt, R!Disabled

LEMMA InitRelayInv == RelayInv /\ R!InitRelay => RelayInv'
<1> SUFFICES ASSUME RelayInv, R!InitRelay PROVE RelayInv'
  OBVIOUS
<1>1. /\ state = "new" /\ parser' = parser /\ destination' = destination
      /\ claimed' = claimed /\ writers' = writers
  BY DEF R!InitRelay, R!file
<1>2. ParserInv'
  BY <1>1 DEF RelayInv, ParserInv, Whole, Plain, R!IsGated, R!HasAlt
<1>3. CASE state' = "initialized"
  <2>2. \A i \in 1..Len(parser'.flows) : IsSetUp(parser.flows[i])'
    BY <1>1, <1>3, SetUpTogether
  <2>3. ASSUME NEW f \in R!Flows
        PROVE  /\ [d \in 0..R!Disabled |-> R!Connect(f.hosts[d])]
                     \in [0..(NumAlt + 1) -> Seq(Hosts \cup {"override", "redirected"})]
               /\ R!Validity(f) \in SUBSET (0..NumAlt)
    <3>1. f \in FlowType
      BY DEF RelayInv, ParserInv, R!Flows, R!Range
    <3>2. \A d \in 0..(NumAlt + 1) : f.hosts[d] \in Seq(Hosts)
      BY <3>1 DEF FlowType
    <3>3. \A d \in 0..(NumAlt + 1) : R!Connect(f.hosts[d]) \in Seq(Hosts \cup {"override", "redirected"})
      BY <3>2, ConnectLeads
    <3>4. 0 \in 0..NumAlt /\ 1..NumAlt \subseteq 0..NumAlt
      BY GroundAssumption
    <3> QED BY <3>3, <3>4 DEF R!Disabled, R!Validity
  <2>4. \A id \in Ids : id \in R!Known => (CHOOSE g \in R!Flows : g.id = id) \in R!Flows
    BY DEF R!Known
  <2> DEFINE At(id) == CHOOSE g \in R!Flows : g.id = id
  <2> DEFINE C(f) == [d \in 0..R!Disabled |-> R!Connect(f.hosts[d])]
  <2>5. /\ conns' = [id \in Ids |-> IF id \in R!Known THEN C(At(id)) ELSE conns[id]]
        /\ valid' = [id \in Ids |-> IF id \in R!Known THEN R!Validity(At(id)) ELSE valid[id]]
    BY <1>3 DEF R!InitRelay
  <2>6. \A id \in Ids : id \in R!Known =>
           /\ C(At(id)) \in [0..(NumAlt + 1) -> Seq(Hosts \cup {"override", "redirected"})]
           /\ R!Validity(At(id)) \in SUBSET (0..NumAlt)
    BY <2>3, <2>4
  <2> HIDE DEF At, C
  <2>7. /\ conns' \in [Ids -> [0..(NumAlt + 1) -> Seq(Hosts \cup {"override", "redirected"})]]
        /\ valid' \in [Ids -> SUBSET (0..NumAlt)]
    BY <2>5, <2>6 DEF RelayInv
  <2> QED BY <1>1, <1>2, <1>3, <2>2, <2>7 DEF RelayInv
<1>4. CASE state' # "initialized"
  <2>1. state' = "failed" /\ conns' = conns /\ valid' = valid
    BY <1>4 DEF R!InitRelay
  <2> QED BY <1>1, <1>2, <2>1 DEF RelayInv, R!Up
<1> QED BY <1>3, <1>4

LEMMA SetDestinationInv ==
    ASSUME RelayInv, NEW id \in Ids, NEW d \in R!Destinations, R!SetDestination(id, d)
    PROVE  RelayInv'
<1>1. /\ R!Up /\ d \in valid[id] /\ destination' = [destination EXCEPT ![id] = d]
      /\ parser' = parser /\ aggregate' = aggregate /\ masterOverride' = masterOverride
      /\ redirects' = redirects /\ state' = state /\ conns' = conns /\ valid' = valid
      /\ claimed' = claimed /\ writers' = writers
  BY DEF R!SetDestination, R!Up, R!file
<1>2. ParserInv'
  BY <1>1 DEF RelayInv, ParserInv, Whole, Plain, R!IsGated, R!HasAlt
<1>3. ASSUME NEW i \in 1..Len(parser.flows) PROVE IsSetUp(parser.flows[i])'
  <2>1. IsSetUp(parser.flows[i]) /\ parser.flows[i].id \in Ids
    <3>1. parser.flows[i] \in FlowType
      BY DEF RelayInv, ParserInv
    <3> QED BY <1>1, <3>1 DEF RelayInv, FlowType
  <2>2. destination'[parser.flows[i].id] \in valid[parser.flows[i].id]
    BY <1>1, <2>1 DEF RelayInv, IsSetUp
  <2> QED BY <1>1, <2>1, <2>2 DEF IsSetUp, R!FlowAccepted, R!Validity, R!IsInjective, R!IsGated,
             R!HasAlt
<1>4. destination' \in [Ids -> 0..NumAlt] /\ state' # "new"
  BY <1>1 DEF RelayInv, R!Destinations, R!Up
<1> QED BY <1>1, <1>2, <1>3, <1>4 DEF RelayInv, R!Up

\* What is set up stays so whoever claims the flows.
LEMMA SetUpStays ==
    ASSUME RelayInv, UNCHANGED R!file, UNCHANGED <<conns, valid, destination>>,
           writers' \subseteq claimed', claimed' \subseteq Ids,
           state' = state \/ (R!Up /\ state' = "finalized")
    PROVE  RelayInv'
<1>1. ParserInv'
  BY DEF R!file, RelayInv, ParserInv, Whole, Plain, R!IsGated, R!HasAlt
<1>2. \A i \in 1..Len(parser.flows) : IsSetUp(parser.flows[i]) => IsSetUp(parser.flows[i])'
  BY DEF R!file, IsSetUp, R!FlowAccepted, R!Validity, R!IsInjective, R!IsGated, R!HasAlt
<1>3. R!Up' => R!Up
  BY DEF R!Up
<1> QED BY <1>1, <1>2, <1>3 DEF R!file, RelayInv, R!Up

LEMMA RelayNext == RelayInv /\ [R!Next]_relayVars => RelayInv'
<1> SUFFICES ASSUME RelayInv, [R!Next]_relayVars PROVE RelayInv'
  OBVIOUS
<1>1. ASSUME NEW id \in Ids, R!ParseHeader(id) PROVE RelayInv'
  BY <1>1, ParseHeaderInv
<1>2. ASSUME NEW b \in BOOLEAN, R!ParseType(b) \/ R!ParseBandwidth(b) PROVE RelayInv'
  BY <1>2, ParseTypeInv, ParseOptionInv
<1>3. ASSUME NEW h \in R!HostLists, R!ParseDestination(h) \/ R!ParseDisabled(h) PROVE RelayInv'
  BY <1>3, ParseDestinationInv, ParseHostsInv
<1>4. ASSUME NEW d \in R!Destinations, NEW h \in R!HostLists, R!ParseAlternative(d, h)
      PROVE  RelayInv'
  BY <1>4, ParseHostsInv
<1>5. CASE (\E name \in R!FlowNames : R!ParseName(name)) \/ R!ParseAnnotation \/ R!ParseRest
  BY <1>5, ParseOptionInv
<1>6. CASE R!ParseUnexpected
  BY <1>6, BadLineInv DEF R!ParseUnexpected, R!Reading
<1>7. CASE R!EndOfFile
  BY <1>7, EndOfFileInv
<1>8. CASE R!InitRelay
  BY <1>8, InitRelayInv
<1>9. CASE R!OverrideAddresses
  <2>1. ParserInv'
    BY <1>9 DEF R!OverrideAddresses, RelayInv, ParserInv, Whole, Plain, R!IsGated, R!HasAlt
  <2> QED BY <1>9, <2>1, StillReading DEF R!OverrideAddresses
<1>10. ASSUME NEW h \in Hosts, R!RedirectService(h) PROVE RelayInv'
  <2>1. ParserInv'
    BY <1>10 DEF R!RedirectService, RelayInv, ParserInv, Whole, Plain, R!IsGated, R!HasAlt
  <2> QED BY <1>10, <2>1, StillReading DEF R!RedirectService
<1>11. ASSUME NEW others \in SUBSET Ids, R!Finalize(others) PROVE RelayInv'
  <2>1. R!Up /\ state' \in {state, "finalized"} /\ UNCHANGED <<R!file, R!relay>>
    BY <1>11 DEF R!Finalize, R!Up
  <2> QED BY <2>1, SetUpStays DEF R!relay, RelayInv
<1>12. ASSUME NEW id \in Ids, NEW taken \in BOOLEAN, R!Claim(id, taken) PROVE RelayInv'
  <2>1. writers' \subseteq claimed' /\ claimed' \subseteq Ids
    BY <1>12 DEF R!Claim, RelayInv
  <2> QED BY <1>12, <2>1, SetUpStays DEF R!Claim
<1>13. ASSUME NEW id \in Ids, NEW d \in R!Destinations, R!SetDestination(id, d) PROVE RelayInv'
  BY <1>13, SetDestinationInv
<1>14. CASE UNCHANGED relayVars
  BY <1>14, SetUpStays DEF relayVars, R!file, RelayInv
<1> QED BY <1>1, <1>2, <1>3, <1>4, <1>5, <1>6, <1>7, <1>8, <1>9, <1>10, <1>11, <1>12, <1>13, <1>14
        DEF R!Next

\* The connections a flow has are those of the hosts its file names.
LEMMA RelayServes == RelayInv => R!DestinationIsServed /\ R!NetworkUseIsSteady
<1> SUFFICES ASSUME RelayInv, R!Up, NEW f \in R!Flows
             PROVE  /\ conns[f.id][destination[f.id]] # <<>>
                    /\ ~(R!IsGated(f) /\ R!HasAlt(f))
                    /\ \A d \in 1..R!Disabled :
                          f.hosts[d] # <<>> /\ R!IsInjective(f.hosts[d]) =>
                              Len(conns[f.id][d]) = Len(conns[f.id][0])
  BY DEF R!DestinationIsServed, R!NetworkUseIsSteady
<1>1. f \in FlowType /\ Whole(f) /\ IsSetUp(f)
  BY DEF RelayInv, ParserInv, R!Flows, R!Range
<1>2. \A d \in 0..(NumAlt + 1) :
          /\ f.hosts[d] # <<>> => conns[f.id][d] # <<>>
          /\ R!IsInjective(f.hosts[d]) => Len(conns[f.id][d]) = Len(f.hosts[d])
  BY <1>1 DEF IsSetUp
<1>3. conns[f.id][destination[f.id]] # <<>>
  <2>1. destination[f.id] \in R!Validity(f)
    BY <1>1 DEF IsSetUp
  <2>2. 0 \in 0..(NumAlt + 1) /\ 1..NumAlt \subseteq 0..(NumAlt + 1)
    BY GroundAssumption
  <2>3. destination[f.id] \in 0..(NumAlt + 1) /\ f.hosts[destination[f.id]] # <<>>
    BY <1>1, <2>1, <2>2 DEF R!Validity, Whole
  <2> QED BY <1>2, <2>3
<1>4. ASSUME NEW d \in 1..R!Disabled, f.hosts[d] # <<>>, R!IsInjective(f.hosts[d])
      PROVE  Len(conns[f.id][d]) = Len(conns[f.id][0])
  <2>1. d \in 0..(NumAlt + 1) /\ 0 \in 0..(NumAlt + 1)
    BY GroundAssumption DEF R!Disabled
  <2>2. Len(f.hosts[d]) = Len(f.hosts[0]) /\ R!IsInjective(f.hosts[0])
    BY <1>1, <1>4 DEF IsSetUp, R!FlowAccepted, Whole
  <2> QED BY <1>2, <1>4, <2>1, <2>2
<1> QED BY <1>1, <1>3, <1>4 DEF Whole

-----------------------------------------------------------------------------
\* A line is read only while the bound is not reached.
LinesAreBounded == parser.lines \in 0..MaxLines

LEMMA LinesNext == LinesAreBounded /\ RelayInv /\ [R!Next]_relayVars => LinesAreBounded'
<1> SUFFICES ASSUME parser.lines \in 0..MaxLines, RelayInv, [R!Next]_relayVars
             PROVE  parser'.lines \in 0..MaxLines
  BY DEF LinesAreBounded
<1>0. /\ MaxLines \in Nat
      /\ parser \in [at : {"flow", "type", "destination", "options", "rest", "done"},
                     info : FlowType, flows : Seq(FlowType), lines : Nat]
  BY GroundAssumption DEF RelayInv, ParserInv
<1>1. ASSUME R!Reading, NEW at, NEW flow, R!GoOn(at, flow) PROVE parser'.lines \in 0..MaxLines
  BY <1>0, <1>1 DEF R!Reading, R!GoOn
<1>2. ASSUME R!BadLine PROVE parser'.lines \in 0..MaxLines
  BY <1>2 DEF R!BadLine, R!file
<1>3. ASSUME NEW id \in Ids, R!ParseHeader(id) PROVE parser'.lines \in 0..MaxLines
  BY <1>0, <1>3 DEF R!ParseHeader, R!Reading
<1>4. ASSUME NEW b \in BOOLEAN, R!ParseType(b) \/ R!ParseBandwidth(b)
      PROVE parser'.lines \in 0..MaxLines
  BY <1>1, <1>2, <1>4 DEF R!ParseType, R!ParseBandwidth
<1>5. ASSUME NEW h \in R!HostLists, R!ParseDestination(h) \/ R!ParseDisabled(h)
      PROVE  parser'.lines \in 0..MaxLines
  <2>1. \/ R!Reading /\ \E at, flow : R!GoOn(at, flow)
        \/ R!BadLine
    BY <1>5, Zenon DEF R!ParseDestination, R!ParseDisabled
  <2> QED BY <1>1, <1>2, <2>1
<1>6. ASSUME NEW d \in R!Destinations, NEW h \in R!HostLists, R!ParseAlternative(d, h)
      PROVE  parser'.lines \in 0..MaxLines
  <2>1. \/ R!Reading /\ \E at, flow : R!GoOn(at, flow)
        \/ R!BadLine
    BY <1>6, Zenon DEF R!ParseAlternative
  <2> QED BY <1>1, <1>2, <2>1
<1>7. ASSUME NEW name \in R!FlowNames, R!ParseName(name) PROVE parser'.lines \in 0..MaxLines
  BY <1>1, <1>7 DEF R!ParseName
<1>8. ASSUME R!ParseAnnotation \/ R!ParseRest \/ R!ParseUnexpected
      PROVE  parser'.lines \in 0..MaxLines
  BY <1>1, <1>2, <1>8 DEF R!ParseAnnotation, R!ParseRest, R!ParseUnexpected
<1>9. ASSUME R!EndOfFile PROVE parser'.lines \in 0..MaxLines
  <2>1. CASE R!BadLine
    BY <1>2, <2>1
  <2>2. CASE ~R!BadLine
    BY <1>0, <1>9, <2>2 DEF R!EndOfFile
  <2> QED BY <2>1, <2>2
<1>10. parser' = parser => parser'.lines \in 0..MaxLines
  OBVIOUS
<1>11. ASSUME R!InitRelay \/ R!OverrideAddresses \/ \E others \in SUBSET Ids : R!Finalize(others)
       PROVE  parser'.lines \in 0..MaxLines
  BY <1>10, <1>11 DEF R!InitRelay, R!OverrideAddresses, R!Finalize, R!file
<1>12. ASSUME NEW h \in Hosts, R!RedirectService(h) PROVE parser'.lines \in 0..MaxLines
  BY <1>10, <1>12 DEF R!RedirectService
<1>13. ASSUME NEW id \in Ids, NEW taken \in BOOLEAN, R!Claim(id, taken)
       PROVE parser'.lines \in 0..MaxLines
  BY <1>10, <1>13 DEF R!Claim, R!file
<1>14. ASSUME NEW id \in Ids, NEW d \in R!Destinations, R!SetDestination(id, d)
       PROVE  parser'.lines \in 0..MaxLines
  BY <1>10, <1>14 DEF R!SetDestination, R!file
<1>15. CASE UNCHANGED relayVars
  BY <1>10, <1>15 DEF relayVars
<1> QED BY <1>3, <1>4, <1>5, <1>6, <1>7, <1>8, <1>9, <1>11, <1>12, <1>13, <1>14, <1>15 DEF R!Next

LEMMA RelayTypes == RelayInv /\ LinesAreBounded => R!TypeOK
<1> SUFFICES ASSUME RelayInv, parser.lines \in 0..MaxLines PROVE R!TypeOK
  BY DEF LinesAreBounded
<1>1. parser.at \in {"flow", "type", "destination", "options", "rest", "done"}
  BY DEF RelayInv, ParserInv
<1> QED BY <1>1 DEF RelayInv, R!TypeOK, R!Disabled, R!Destinations

-----------------------------------------------------------------------------
(* The table of names.                                                     *)

Filling(K, V) == [K -> V \cup {N!Missing}]

\* What reading n entries has made of a map after each of them.
Fills(g, map, f, key, value, n) ==
    /\ g[0] = map
    /\ \A m \in 1..n : g[m] = N!Inserted(g[m - 1], f[m][key], f[m][value])
    /\ N!Filled(map, f, key, value, n) = g[n]

LEMMA InsertedType ==
    ASSUME NEW K, NEW V, NEW map \in Filling(K, V), NEW k \in K, NEW v \in V
    PROVE  N!Inserted(map, k, v) \in Filling(K, V)
BY DEF N!Inserted, Filling

LEMMA FilledSteps ==
    ASSUME NEW K, NEW V, NEW map \in Filling(K, V), NEW n \in Nat, NEW f, NEW key, NEW value,
           \A m \in 1..n : f[m][key] \in K /\ f[m][value] \in V
    PROVE  \E g \in [0..n -> Filling(K, V)] : Fills(g, map, f, key, value, n)
<1> DEFINE Type == Filling(K, V)
           Ins(t, m) == N!Inserted(t, f[m][key], f[m][value])
           step == [m \in 1..n |-> [t \in Type |-> Ins(t, m)]]
           Body(g, m) == IF m = 0 THEN map ELSE N!Inserted(g[m - 1], f[m][key], f[m][value])
           after == CHOOSE g : g = [m \in 0..n |-> Body(g, m)]
<1>1. step \in [1..n -> [Type -> Type]]
  <2>1. \A m \in 1..n : \A t \in Type : Ins(t, m) \in Type
    BY InsertedType
  <2> HIDE DEF Ins, Type
  <2> QED BY <2>1
<1>2. PICK g \in [0..n -> Type] : Follows(g, n, map, step)
  <2> HIDE DEF step, Type
  <2> QED BY <1>1, Recursion DEF Type
<1>3. ASSUME NEW m \in 0..n PROVE g[m] = Body(g, m)
  <2>1. CASE m = 0
    BY <1>2, <2>1 DEF Follows
  <2>2. CASE m \in 1..n
    <3>1. m - 1 \in 0..n /\ m # 0
      BY <2>2
    <3>2. g[m - 1] \in Type
      BY <3>1
    <3>3. step[m][g[m - 1]] = Ins(g[m - 1], m)
      <4> HIDE DEF Type, Ins
      <4> QED BY <2>2, <3>2
    <3>4. Ins(g[m - 1], m) = Body(g, m)
      BY <3>1, Zenon
    <3> HIDE DEF step, Body, Ins
    <3> QED BY <1>2, <2>2, <3>3, <3>4, Zenon DEF Follows
  <2> QED BY <2>1, <2>2
<1>4. g = [m \in 0..n |-> Body(g, m)]
  <2> HIDE DEF Body
  <2> QED BY <1>3
<1>5. after = [m \in 0..n |-> Body(after, m)]
  <2> HIDE DEF Body
  <2>1. \E h : h = [m \in 0..n |-> Body(h, m)]
    BY <1>4, Zenon
  <2> QED BY <2>1, Zenon
<1>6. N!Filled(map, f, key, value, n) = after[n]
  BY Zenon DEF N!Filled
<1>7. g[n] = after[n]
  <2> DEFINE Holds == {m \in 0..n : g[m] = after[m]}
  <2>1. \A m \in 0..n : after[m] = Body(after, m)
    <3> HIDE DEF Body, after
    <3> QED BY <1>5
  <2> HIDE DEF after
  <2>2. 0 \in Holds
    <3>1. Body(g, 0) = map /\ Body(after, 0) = map
      OBVIOUS
    <3> HIDE DEF Body
    <3> QED BY <1>3, <2>1, <3>1
  <2>3. ASSUME NEW m \in 1..n, m - 1 \in Holds PROVE m \in Holds
    <3>1. g[m - 1] = after[m - 1] /\ m # 0 /\ m \in 0..n
      BY <2>3
    <3>2. Body(g, m) = Body(after, m)
      BY <3>1, Zenon
    <3> HIDE DEF Body
    <3> QED BY <1>3, <2>1, <3>1, <3>2
  <2>4. 0..n \subseteq Holds
    <3> HIDE DEF Holds
    <3> QED BY <2>2, <2>3, UpTo
  <2> QED BY <2>4
<1>8. ASSUME NEW m \in 1..n PROVE g[m] = N!Inserted(g[m - 1], f[m][key], f[m][value])
  BY <1>3, <1>8
<1>9. g[0] = map
  BY <1>3
<1> HIDE DEF after, Body
<1> QED BY <1>6, <1>7, <1>8, <1>9 DEF Fills

\* The two maps of a table: an answer can be asked back.
AskedBack(mi, ms) ==
    /\ \A s \in Names : mi[s] # N!Missing => ms[mi[s]] # N!Missing
    /\ \A i \in Ints : ms[i] # N!Missing => mi[ms[i]] # N!Missing

IntsOf == Filling(Names, Ints)
StringsOf == Filling(Ints, Names)

LEMMA AddedAsksBack ==
    ASSUME NEW mi \in IntsOf, NEW ms \in StringsOf, AskedBack(mi, ms), NEW s \in Names,
           NEW i \in Ints
    PROVE  AskedBack(N!Inserted(mi, s, i), N!Inserted(ms, i, s))
<1> DEFINE ni == N!Inserted(mi, s, i)
           ns == N!Inserted(ms, i, s)
<1>1. s # N!Missing /\ i # N!Missing
  BY TablesAssumption
<1>2. /\ ni[s] # N!Missing /\ ns[i] # N!Missing
      /\ \A x \in Names : mi[x] # N!Missing => ni[x] = mi[x]
      /\ \A x \in Ints : ms[x] # N!Missing => ns[x] = ms[x]
      /\ \A x \in Names : ni[x] = mi[x] \/ (ni[x] = i /\ x = s)
      /\ \A x \in Ints : ns[x] = ms[x] \/ (ns[x] = s /\ x = i)
  BY <1>1 DEF N!Inserted, IntsOf, StringsOf, Filling
<1>3. ASSUME NEW x \in Names, ni[x] # N!Missing PROVE ns[ni[x]] # N!Missing
  <2>1. CASE ni[x] = mi[x]
    <3>1. mi[x] \in Ints /\ ms[mi[x]] # N!Missing
      BY <1>3, <2>1 DEF AskedBack, IntsOf, Filling
    <3> HIDE DEF ni, ns
    <3> QED BY <1>2, <2>1, <3>1
  <2>2. CASE ni[x] = i
    BY <1>2, <2>2
  <2> QED BY <1>2, <2>1, <2>2
<1>4. ASSUME NEW x \in Ints, ns[x] # N!Missing PROVE ni[ns[x]] # N!Missing
  <2>1. CASE ns[x] = ms[x]
    <3>1. ms[x] \in Names /\ mi[ms[x]] # N!Missing
      BY <1>4, <2>1 DEF AskedBack, StringsOf, Filling
    <3> HIDE DEF ni, ns
    <3> QED BY <1>2, <2>1, <3>1
  <2>2. CASE ns[x] = s
    BY <1>2, <2>2
  <2> QED BY <1>2, <2>1, <2>2
<1> QED BY <1>3, <1>4 DEF AskedBack

\* The integer that n entries of f give the name s first, on top of map.
FirstGiven(map, f, n) ==
    [s \in Names |->
        IF map[s] # N!Missing \/ \A m \in 1..n : f[m][1] # s THEN map[s]
        ELSE f[CHOOSE m \in 1..n : f[m][1] = s /\ \A l \in 1..(m - 1) : f[l][1] # s][2]]

LEMMA ReadFacts ==
    ASSUME NEW mi \in IntsOf, NEW ms \in StringsOf, AskedBack(mi, ms),
           NEW f \in Seq(Names \X Ints), NEW n \in 0..Len(f)
    PROVE  /\ N!Filled(mi, f, 1, 2, n) \in IntsOf
           /\ N!Filled(ms, f, 2, 1, n) \in StringsOf
           /\ AskedBack(N!Filled(mi, f, 1, 2, n), N!Filled(ms, f, 2, 1, n))
           /\ N!Filled(mi, f, 1, 2, n) = FirstGiven(mi, f, n)
<1>1. n \in Nat /\ \A m \in 1..n : f[m][1] \in Names /\ f[m][2] \in Ints
  OBVIOUS
<1>2. PICK g \in [0..n -> IntsOf] : Fills(g, mi, f, 1, 2, n)
  BY <1>1, FilledSteps DEF IntsOf
<1>3. PICK h \in [0..n -> StringsOf] : Fills(h, ms, f, 2, 1, n)
  BY <1>1, FilledSteps DEF StringsOf
<1> DEFINE First(s, m) == m \in 1..n /\ f[m][1] = s /\ \A l \in 1..(m - 1) : f[l][1] # s
           Right(m) == \A s \in Names :
               \/ g[m][s] = mi[s] /\ (mi[s] # N!Missing \/ \A l \in 1..m : f[l][1] # s)
               \/ mi[s] = N!Missing /\ \E l \in 1..m : First(s, l) /\ g[m][s] = f[l][2]
           Holds == {m \in 0..n : AskedBack(g[m], h[m]) /\ Right(m)}
<1>4. 0 \in Holds
  <2>1. g[0] = mi /\ h[0] = ms /\ 0 \in 0..n
    BY <1>1, <1>2, <1>3 DEF Fills
  <2> HIDE DEF First
  <2> QED BY <2>1
<1>5. ASSUME NEW m \in 1..n, m - 1 \in Holds PROVE m \in Holds
  <2> DEFINE s == f[m][1]
             i == f[m][2]
             was == g[m - 1]
  <2>1. s \in Names /\ i \in Ints /\ m - 1 \in 0..n /\ m \in 0..n
    BY <1>1
  <2>2. g[m] = N!Inserted(was, s, i) /\ h[m] = N!Inserted(h[m - 1], i, s)
    BY <1>2, <1>3 DEF Fills
  <2>3. was \in IntsOf /\ h[m - 1] \in StringsOf /\ AskedBack(was, h[m - 1]) /\ Right(m - 1)
    <3> HIDE DEF Right
    <3> QED BY <1>5, <2>1
  <2>4. AskedBack(g[m], h[m])
    <3> HIDE DEF s, i, was
    <3> QED BY <2>1, <2>2, <2>3, AddedAsksBack
  <2>5. \A x \in Names : g[m][x] = IF x = s /\ was[s] = N!Missing THEN i ELSE was[x]
    <3> HIDE DEF s, i, was
    <3> QED BY <2>1, <2>2, <2>3 DEF N!Inserted, IntsOf, Filling
  <2>6. ASSUME NEW x \in Names
        PROVE  \/ g[m][x] = mi[x] /\ (mi[x] # N!Missing \/ \A l \in 1..m : f[l][1] # x)
               \/ mi[x] = N!Missing /\ \E l \in 1..m : First(x, l) /\ g[m][x] = f[l][2]
    <3>1. \A l \in 1..m : l \in 1..(m - 1) \/ l = m
      OBVIOUS
    <3>2. \/ was[x] = mi[x] /\ (mi[x] # N!Missing \/ \A l \in 1..(m - 1) : f[l][1] # x)
          \/ mi[x] = N!Missing /\ \E l \in 1..(m - 1) : First(x, l) /\ was[x] = f[l][2]
      <4> HIDE DEF First
      <4> QED BY <2>3
    <3>3. CASE x = s /\ was[s] = N!Missing
      <4>1. g[m][x] = i
        BY <2>5, <3>3
      <4>2. \A l \in 1..(m - 1) : ~(First(x, l) /\ was[x] = f[l][2])
        <5>1. \A l \in 1..(m - 1) : l \in 1..n /\ f[l][2] \in Ints /\ f[l][2] # N!Missing
          BY <1>1, TablesAssumption
        <5> QED BY <3>3, <5>1
      <4>3. was[x] = mi[x] /\ (mi[x] # N!Missing \/ \A l \in 1..(m - 1) : f[l][1] # x)
        <5> HIDE DEF First, was
        <5> QED BY <3>2, <4>2
      <4>4. mi[x] = N!Missing /\ \A l \in 1..(m - 1) : f[l][1] # x
        BY <3>3, <4>3
      <4>5. First(x, m) /\ m \in 1..m
        BY <3>3, <4>4
      <4> QED BY <4>1, <4>4, <4>5
    <3>4. CASE ~(x = s /\ was[s] = N!Missing)
      <4>1. g[m][x] = was[x]
        BY <2>5, <3>4
      <4>2. CASE was[x] = mi[x] /\ (mi[x] # N!Missing \/ \A l \in 1..(m - 1) : f[l][1] # x)
        <5>1. CASE mi[x] # N!Missing
          BY <4>1, <4>2, <5>1
        <5>2. CASE mi[x] = N!Missing
          <6>1. x # s
            BY <3>4, <4>2, <5>2
          <6>2. \A l \in 1..m : f[l][1] # x
            BY <3>1, <4>2, <5>2, <6>1
          <6> QED BY <4>1, <4>2, <6>2
        <5> QED BY <5>1, <5>2
      <4>3. CASE mi[x] = N!Missing /\ \E l \in 1..(m - 1) : First(x, l) /\ was[x] = f[l][2]
        <5>1. PICK l \in 1..(m - 1) : First(x, l) /\ was[x] = f[l][2]
          BY <4>3
        <5>2. l \in 1..m
          OBVIOUS
        <5> HIDE DEF First, was
        <5> QED BY <4>1, <4>3, <5>1, <5>2
      <4> HIDE DEF First, was
      <4> QED BY <3>2, <4>2, <4>3
    <3> QED BY <3>3, <3>4
  <2> HIDE DEF First
  <2> QED BY <2>1, <2>4, <2>6
<1>6. n \in Holds
  <2>1. 0..n \subseteq Holds
    <3> HIDE DEF Holds
    <3> QED BY <1>1, <1>4, <1>5, UpTo
  <2> QED BY <1>1, <2>1
<1>7. /\ N!Filled(mi, f, 1, 2, n) = g[n] /\ N!Filled(ms, f, 2, 1, n) = h[n]
      /\ g[n] \in IntsOf /\ h[n] \in StringsOf
  BY <1>1, <1>2, <1>3 DEF Fills
<1>8. ASSUME NEW s \in Names
      PROVE  g[n][s] = IF mi[s] # N!Missing \/ \A m \in 1..n : f[m][1] # s THEN mi[s]
                       ELSE f[CHOOSE m \in 1..n : f[m][1] = s /\ \A l \in 1..(m - 1) : f[l][1] # s][2]
  <2>1. \/ g[n][s] = mi[s] /\ (mi[s] # N!Missing \/ \A l \in 1..n : f[l][1] # s)
        \/ mi[s] = N!Missing /\ \E l \in 1..n : First(s, l) /\ g[n][s] = f[l][2]
    <3> HIDE DEF First
    <3> QED BY <1>6
  <2>2. CASE mi[s] = N!Missing /\ \E l \in 1..n : First(s, l) /\ g[n][s] = f[l][2]
    <3>1. PICK l \in 1..n : First(s, l) /\ g[n][s] = f[l][2]
      BY <2>2
    <3> DEFINE c == CHOOSE m \in 1..n : f[m][1] = s /\ \A k \in 1..(m - 1) : f[k][1] # s
    <3>2. c \in 1..n /\ f[c][1] = s /\ \A k \in 1..(c - 1) : f[k][1] # s
      BY <3>1
    <3>3. c = l
      <4> HIDE DEF c
      <4>1. ~(c < l) /\ ~(l < c)
        BY <3>1, <3>2
      <4> QED BY <3>2, <4>1
    <3> HIDE DEF c
    <3>4. g[n][s] = f[c][2]
      BY <3>1, <3>3
    <3>5. ~(mi[s] # N!Missing \/ \A m \in 1..n : f[m][1] # s)
      BY <2>2, <3>1
    <3> QED BY <3>4, <3>5, Zenon DEF c
  <2> QED BY <2>1, <2>2
<1>9. g[n] = FirstGiven(mi, f, n)
  <2>1. g[n] = [s \in Names |-> g[n][s]]
    BY <1>7 DEF IntsOf, Filling
  <2> QED BY <1>8, <2>1, Zenon DEF FirstGiven
<1> QED BY <1>6, <1>7, <1>9

SymbolInv == /\ N!TypeOK
             /\ \A t \in Tables : AskedBack(toInt[t], toString[t]) /\ toInt[t] = first[t]

LEMMA SymbolsResolve == SymbolInv => N!TypeOK /\ N!NamesResolve
BY DEF SymbolInv, AskedBack, N!NamesResolve

LEMMA SymbolsStart == N!Init => SymbolInv
BY DEF N!Init, N!NoInts, N!NoStrings, SymbolInv, N!TypeOK, AskedBack

\* A step that changes one table: what is to be shown of it.
LEMMA OneTable ==
    ASSUME SymbolInv, NEW t \in Tables, NEW mi \in IntsOf, NEW ms \in StringsOf, NEW fi,
           toInt' = [toInt EXCEPT ![t] = mi], toString' = [toString EXCEPT ![t] = ms],
           first' = [first EXCEPT ![t] = fi], AskedBack(mi, ms), mi = fi
    PROVE  SymbolInv'
<1>1. /\ toInt' \in [Tables -> IntsOf] /\ toString' \in [Tables -> StringsOf]
      /\ first' \in [Tables -> IntsOf]
  BY DEF SymbolInv, N!TypeOK, IntsOf, StringsOf, Filling
<1>2. N!TypeOK'
  BY <1>1 DEF N!TypeOK, IntsOf, StringsOf, Filling
<1>3. ASSUME NEW x \in Tables PROVE AskedBack(toInt'[x], toString'[x]) /\ toInt'[x] = first'[x]
  <2>1. x = t \/ (x # t /\ AskedBack(toInt[x], toString[x]) /\ toInt[x] = first[x])
    BY DEF SymbolInv
  <2>2. x # t => toInt'[x] = toInt[x] /\ toString'[x] = toString[x] /\ first'[x] = first[x]
    OBVIOUS
  <2>3. x = t => toInt'[x] = mi /\ toString'[x] = ms /\ first'[x] = fi
    BY DEF SymbolInv, N!TypeOK
  <2> QED BY <2>1, <2>2, <2>3, Zenon
<1>4. \A x \in Tables : AskedBack(toInt[x], toString[x])' /\ (toInt[x] = first[x])'
  BY <1>3 DEF AskedBack
<1> QED BY <1>2, <1>4 DEF SymbolInv

LEMMA SymbolsNext == SymbolInv /\ [N!Next]_symbolVars => SymbolInv'
<1> SUFFICES ASSUME SymbolInv, [N!Next]_symbolVars PROVE SymbolInv'
  OBVIOUS
<1>0. /\ toInt \in [Tables -> IntsOf] /\ toString \in [Tables -> StringsOf]
      /\ first \in [Tables -> IntsOf]
      /\ \A t \in Tables : AskedBack(toInt[t], toString[t]) /\ toInt[t] = first[t]
  BY DEF SymbolInv, N!TypeOK, IntsOf, StringsOf, Filling
<1>1. ASSUME NEW t \in Tables, NEW s \in Names, NEW i \in Ints, N!add(t, s, i) PROVE SymbolInv'
  <2> DEFINE mi == N!Inserted(toInt[t], s, i)
             ms == N!Inserted(toString[t], i, s)
             fi == [first[t] EXCEPT ![s] = IF @ = N!Missing THEN i ELSE @]
  <2>1. toInt[t] \in IntsOf /\ toString[t] \in StringsOf /\ AskedBack(toInt[t], toString[t])
    BY <1>0
  <2>2. AskedBack(mi, ms)
    BY <2>1, AddedAsksBack
  <2>3. mi \in IntsOf /\ ms \in StringsOf
    BY <2>1, InsertedType DEF IntsOf, StringsOf
  <2>4. toInt' = [toInt EXCEPT ![t] = mi] /\ toString' = [toString EXCEPT ![t] = ms]
    BY <1>0, <1>1 DEF N!add
  <2>5. first' = [first EXCEPT ![t] = fi]
    BY <1>0, <1>1 DEF N!add
  <2>6. mi = fi
    BY <1>0 DEF N!Inserted, IntsOf, Filling
  <2> HIDE DEF mi, ms, fi
  <2> QED BY <2>2, <2>3, <2>4, <2>5, <2>6, OneTable
<1>2. ASSUME NEW t \in Tables, NEW f \in Files, NEW n \in 0..Len(f), N!read(t, f, n)
      PROVE SymbolInv'
  <2> DEFINE mi == N!Filled(toInt[t], f, 1, 2, n)
             ms == N!Filled(toString[t], f, 2, 1, n)
             fi == FirstGiven(first[t], f, n)
  <2>1. /\ toInt[t] \in IntsOf /\ toString[t] \in StringsOf /\ AskedBack(toInt[t], toString[t])
        /\ f \in Seq(Names \X Ints)
    BY <1>0, TablesAssumption
  <2>2. AskedBack(mi, ms) /\ mi \in IntsOf /\ ms \in StringsOf /\ mi = FirstGiven(toInt[t], f, n)
    BY <2>1, ReadFacts
  <2>3. toInt' = [toInt EXCEPT ![t] = mi] /\ toString' = [toString EXCEPT ![t] = ms]
    BY <1>0, <1>2, Zenon DEF N!read
  <2>4. first' = [first EXCEPT ![t] = fi]
    BY <1>0, <1>2, Zenon DEF N!read, FirstGiven
  <2>5. mi = fi
    BY <1>0, <2>2
  <2> HIDE DEF mi, ms, fi
  <2> QED BY <2>2, <2>3, <2>4, <2>5, OneTable
<1>3. ASSUME NEW t \in Tables, N!clear_reads(t) PROVE SymbolInv'
  <2>1. N!NoInts \in IntsOf /\ N!NoStrings \in StringsOf /\ AskedBack(N!NoInts, N!NoStrings)
    BY DEF N!NoInts, N!NoStrings, IntsOf, StringsOf, Filling, AskedBack
  <2> QED BY <1>3, <2>1, OneTable DEF N!clear_reads
<1>4. ASSUME NEW t \in Tables, NEW u \in Tables, N!copy_reads(t, u) PROVE SymbolInv'
  BY <1>0, <1>4, OneTable DEF N!copy_reads
<1>5. CASE UNCHANGED symbolVars
  <2>1. toInt' = toInt /\ toString' = toString /\ first' = first
    BY <1>5 DEF symbolVars
  <2> QED BY <2>1 DEF SymbolInv, N!TypeOK, AskedBack
<1> QED BY <1>1, <1>2, <1>3, <1>4, <1>5 DEF N!Next

-----------------------------------------------------------------------------
(* The map.                                                                *)

\* A search for k sees only slots before this probe, with neither it nor an empty one.
PassesTo(k, probe) ==
    \A q \in H!Probes : q < probe =>
        \A s \in H!Loaded(k, q) : s \in H!Slot /\ keys[s] \notin {k, H!Empty}

(***************************************************************************)
(* A key is in one slot at most, a search for it stops there and nowhere   *)
(* before, without leaving m_keys, and what the slot holds is what was     *)
(* inserted last.                                                          *)
(***************************************************************************)
OneSlot == \A s, r \in H!Slot : keys[s] \in Keys /\ keys[s] = keys[r] => s = r

Reached == \A s \in H!Slot : keys[s] \in Keys =>
    \E probe \in H!Probes :
        /\ s \in H!Loaded(keys[s], probe) /\ H!Loaded(keys[s], probe) \subseteq H!Slot
        /\ PassesTo(keys[s], probe)

HoldsLast == \A k \in Keys :
    \/ inserted[k] = H!Never /\ \A s \in H!Slot : keys[s] # k
    \/ \E s \in H!Slot : keys[s] = k /\ values[s] = inserted[k] /\ inserted[k] # H!Never

MapOrder ==
    /\ OneSlot
    /\ Reached
    /\ HoldsLast
    /\ size = Cardinality({k \in Keys : inserted[k] # H!Never})

MapInv == H!TypeOK /\ (strayed \/ MapOrder)

LEMMA MapTypes ==
    /\ H!Empty \notin Keys /\ H!Never \notin Values /\ H!Never \notin Keys /\ IsFiniteSet(Keys)
    /\ Slots \in Nat \ {0} /\ Capacity \in Nat /\ Wide \in Nat \ {0}
    /\ Keys \subseteq Nat /\ Values \subseteq Nat
    /\ \A k \in Keys : Home[k] \in 0..(Slots - 1)
BY TablesAssumption DEF H!Empty, H!Never

LEMMA LoadedType ==
    ASSUME NEW k \in Keys, NEW probe \in H!Probes, NEW w \in H!Loaded(k, probe) PROVE w \in Nat
<1>1. Slots \in Nat \ {0} /\ Bucket \in Nat \ {0} /\ Lanes \in Nat \ {0} /\ Home[k] \in Nat
  BY TablesAssumption
<1>2. probe \in Int
  BY DEF H!Probes
<1>3. probe * Bucket \in Int
  BY <1>1, <1>2
<1>4. Home[k] + probe * Bucket \in Int
  BY <1>1, <1>3
<1>5. H!At(k, probe) \in 0..(Slots - 1)
  BY <1>1, <1>4, Remainder, Zenon DEF H!At
<1> HIDE DEF H!At
<1> QED BY <1>1, <1>5 DEF H!Loaded

LEMMA InSlot == \A w \in Nat : (w \in H!Slot <=> w < Slots) /\ (w \in H!Slot => H!Word(w) = keys[w])
BY MapTypes DEF H!Slot, H!Word

LEMMA LeastIsOne == ASSUME NEW T \in SUBSET Nat, T # {}
                    PROVE  H!Min(T) \in T /\ \A q \in T : H!Min(T) <= q
<1>1. \E p \in T : \A q \in T : p <= q
  BY HasLeast
<1> QED BY <1>1, Zenon DEF H!Min

\* The probe that ends a search.
LEMMA EndOfSearch ==
    ASSUME NEW k \in Keys, NEW probe \in H!Probes, PassesTo(k, probe), probe \in H!Ends(k)
    PROVE  H!Min(H!Ends(k)) = probe
<1>1. H!Ends(k) \in SUBSET Nat /\ H!Ends(k) # {}
  BY DEF H!Ends, H!Probes
<1>2. ASSUME NEW q \in H!Ends(k), q < probe PROVE FALSE
  <2>1. PICK w \in H!Loaded(k, q) : H!Word(w) \in {k, H!Empty}
    BY Zenon DEF H!Ends
  <2>2. q \in H!Probes
    BY DEF H!Ends
  <2>3. w \in H!Slot /\ keys[w] \notin {k, H!Empty}
    BY <1>2, <2>2 DEF PassesTo
  <2>4. H!Word(w) = keys[w]
    BY <2>2, <2>3, LoadedType, InSlot
  <2> QED BY <2>1, <2>3, <2>4
<1>3. H!Min(H!Ends(k)) \in H!Ends(k) /\ H!Min(H!Ends(k)) <= probe
  BY <1>1, LeastIsOne
<1> HIDE DEF H!Min, H!Ends
<1> QED BY <1>1, <1>2, <1>3

LEMMA SearchEnds ==
    ASSUME NEW k \in Keys, H!Ends(k) # {}, ~H!Strays(k)
    PROVE  /\ H!Min(H!Ends(k)) \in H!Ends(k) /\ H!Min(H!Ends(k)) \in H!Probes
           /\ H!Loaded(k, H!Min(H!Ends(k))) \subseteq H!Slot
           /\ PassesTo(k, H!Min(H!Ends(k)))
<1> DEFINE stop == H!Min(H!Ends(k))
<1>1. H!Ends(k) \in SUBSET Nat
  BY DEF H!Ends, H!Probes
<1>2. stop \in H!Ends(k) /\ \A q \in H!Ends(k) : stop <= q
  BY <1>1, LeastIsOne
<1>3. stop \in H!Probes /\ H!Probes \subseteq Nat
  BY <1>2 DEF H!Ends, H!Probes
<1> HIDE DEF stop
<1>4. ASSUME NEW q \in H!Probes, q <= stop, NEW w \in H!Loaded(k, q) PROVE w \in H!Slot
  <2>1. \A p \in H!Ends(k) : q <= p
    BY <1>1, <1>2, <1>3, <1>4
  <2>2. ~(w >= Slots)
    BY <1>4, <2>1, Zenon DEF H!Strays
  <2> QED BY <2>2, LoadedType, InSlot, MapTypes
<1>5. ASSUME NEW q \in H!Probes, q < stop, NEW s \in H!Loaded(k, q)
      PROVE  s \in H!Slot /\ keys[s] \notin {k, H!Empty}
  <2>1. q \notin H!Ends(k) /\ q <= stop
    BY <1>1, <1>2, <1>3, <1>5
  <2>2. s \in H!Slot /\ H!Word(s) = keys[s]
    BY <1>4, <1>5, <2>1, LoadedType, InSlot
  <2>3. H!Word(s) \notin {k, H!Empty}
    BY <1>5, <2>1, Zenon DEF H!Ends
  <2> QED BY <2>2, <2>3
<1>6. H!Loaded(k, stop) \subseteq H!Slot
  <2>1. stop <= stop
    BY <1>3
  <2> QED BY <1>3, <1>4, <2>1, Zenon
<1>7. PassesTo(k, stop)
  BY <1>5, Zenon DEF PassesTo
<1> QED BY <1>2, <1>3, <1>6, <1>7, Zenon DEF stop

\* What a search finds.
LEMMA FindsTheSlot ==
    ASSUME OneSlot, Reached, NEW k \in Keys, NEW s \in H!Slot, keys[s] = k
    PROVE  H!Found(k) = {s} /\ H!Ends(k) # {}
<1>1. PICK probe \in H!Probes :
          s \in H!Loaded(k, probe) /\ H!Loaded(k, probe) \subseteq H!Slot /\ PassesTo(k, probe)
  BY DEF Reached
<1>2. \A r \in H!Loaded(k, probe) : r \in H!Slot /\ H!Word(r) = keys[r]
  BY <1>1, LoadedType, InSlot
<1>3. probe \in H!Ends(k)
  BY <1>1, <1>2, Zenon DEF H!Ends
<1>4. H!Found(k) = {r \in H!Loaded(k, probe) : H!Word(r) = k}
  BY <1>1, <1>3, EndOfSearch, Zenon DEF H!Found
<1>5. \A r \in H!Slot : keys[r] = k => r = s
  BY DEF OneSlot
<1> HIDE DEF H!Loaded, H!Word
<1> QED BY <1>1, <1>2, <1>3, <1>4, <1>5

LEMMA FindsNothing ==
    ASSUME NEW k \in Keys, ~H!Strays(k), \A s \in H!Slot : keys[s] # k PROVE H!Found(k) = {}
<1>1. CASE H!Ends(k) = {}
  BY <1>1, Zenon DEF H!Found
<1>2. CASE H!Ends(k) # {}
  <2>1. \A r \in H!Loaded(k, H!Min(H!Ends(k))) : r \in H!Slot /\ r \in Nat
    BY <1>2, SearchEnds, LoadedType, Zenon
  <2>2. \A r \in H!Loaded(k, H!Min(H!Ends(k))) : H!Word(r) # k
    BY <2>1, InSlot, Zenon
  <2> QED BY <1>2, <2>2, Zenon DEF H!Found
<1> QED BY <1>1, <1>2

LEMMA MapFinds == MapInv => H!TypeOK /\ H!FindsWhatWasInserted
<1> SUFFICES ASSUME MapInv PROVE H!TypeOK /\ H!FindsWhatWasInserted
  OBVIOUS
<1>0. H!TypeOK
  BY DEF MapInv
<1>1. ASSUME ~strayed, NEW k \in Keys, inserted[k] # H!Never \/ ~H!Strays(k)
      PROVE {values[s] : s \in H!Found(k)} = {inserted[k]} \ {H!Never}
  <2>0. MapOrder
    BY <1>1, Zenon DEF MapInv
  <2>1. CASE inserted[k] = H!Never /\ \A s \in H!Slot : keys[s] # k
    <3>1. H!Found(k) = {}
      BY <1>1, <2>1, FindsNothing
    <3> QED BY <2>1, <3>1
  <2>2. CASE \E s \in H!Slot :
               keys[s] = k /\ values[s] = inserted[k] /\ inserted[k] # H!Never
    <3>1. PICK s \in H!Slot : keys[s] = k /\ values[s] = inserted[k]
      BY <2>2
    <3>2. H!Found(k) = {s}
      BY <2>0, <3>1, FindsTheSlot, Zenon DEF MapOrder
    <3> QED BY <2>2, <3>1, <3>2
  <2> QED BY <2>0, <2>1, <2>2 DEF MapOrder, HoldsLast
<1>2. ~strayed => size = Cardinality({k \in Keys : inserted[k] # H!Never})
  BY Zenon DEF MapInv, MapOrder
<1>3. \A T : H!Cardinality(T) = Cardinality(T)
  BY Zenon DEF H!Cardinality, Cardinality
<1> QED BY <1>0, <1>1, <1>2, <1>3, Zenon DEF H!FindsWhatWasInserted

\* A map without keys.
LEMMA EmptyInOrder ==
    ASSUME \A s \in H!Slot : keys[s] = H!Empty, \A k \in Keys : inserted[k] = H!Never, size = 0
    PROVE  MapOrder
<1>1. \A s \in H!Slot : keys[s] \notin Keys
  BY MapTypes
<1>2. size = Cardinality({k \in Keys : inserted[k] # H!Never})
  <2>1. {k \in Keys : inserted[k] # H!Never} = {}
    OBVIOUS
  <2> QED BY <2>1, FS_EmptySet
<1>3. HoldsLast
  BY <1>1 DEF HoldsLast
<1> QED BY <1>1, <1>2, <1>3 DEF MapOrder, OneSlot, Reached

LEMMA MapStart == H!Init => MapInv
<1> SUFFICES ASSUME H!Init PROVE MapInv
  OBVIOUS
<1>1. \A s \in H!Slot : keys[s] = H!Empty
  BY DEF H!Init, H!NoKeys
<1>2. (\A k \in Keys : inserted[k] = H!Never) /\ size = 0
  BY DEF H!Init, H!Nothing
<1>3. strayed \in BOOLEAN
  BY Zenon DEF H!Init
<1>4. /\ keys \in [H!Slot -> Keys \cup {H!Empty}] /\ values \in [H!Slot -> Keys \cup Values]
      /\ size \in Nat /\ inserted \in [Keys -> Values \cup {H!Never}]
  BY DEF H!Init, H!NoKeys, H!Nothing
<1> QED BY <1>1, <1>2, <1>3, <1>4, EmptyInOrder, Zenon DEF MapInv, H!TypeOK

\* An insertion keeps the types, wherever its words are.
LEMMA SizeType ==
    ASSUME NEW v \in Values, NEW w, size \in Nat PROVE H!SizeAfter(v, w) \in Nat
<1>1. v \in Nat /\ Wide \in Nat \ {0}
  BY MapTypes
<1>2. size % Wide \in Nat /\ size \div Wide \in Nat
  BY <1>1
<1>3. (size \div Wide) * Wide \in Nat /\ v * Wide \in Nat
  BY <1>1, <1>2
<1>4. (size \div Wide) * Wide + v \in Nat /\ v * Wide + (size % Wide) \in Nat
  BY <1>1, <1>2, <1>3
<1> QED BY <1>4, Zenon DEF H!SizeAfter

LEMMA InsertTypes ==
    ASSUME H!TypeOK, NEW k \in Keys, NEW v \in Values, NEW w, H!Store(k, v, w),
           size' = H!SizeAfter(v, w) \/ size' = H!SizeAfter(v, w) + 1
    PROVE  H!TypeOK'
<1>1. size' \in Nat
  <2>1. H!SizeAfter(v, w) \in Nat
    BY SizeType DEF H!TypeOK
  <2> HIDE DEF H!SizeAfter
  <2> QED BY <2>1
<1>2. /\ keys' = IF w < Slots THEN [keys EXCEPT ![w] = k] ELSE keys
      /\ values' = IF w < Slots THEN [values EXCEPT ![w] = v] ELSE [values EXCEPT ![w - Slots] = k]
      /\ inserted' = [inserted EXCEPT ![k] = v]
  BY Zenon DEF H!Store
<1>3. /\ keys \in [H!Slot -> Keys \cup {H!Empty}] /\ values \in [H!Slot -> Keys \cup Values]
      /\ inserted \in [Keys -> Values \cup {H!Never}]
  BY Zenon DEF H!TypeOK
<1>4. keys' \in [H!Slot -> Keys \cup {H!Empty}]
  BY <1>2, <1>3
<1>5. values' \in [H!Slot -> Keys \cup Values]
  BY <1>2, <1>3
<1>6. inserted' \in [Keys -> Values \cup {H!Never}]
  BY <1>2, <1>3
<1>7. strayed' \in BOOLEAN
  BY Zenon DEF H!Store
<1> QED BY <1>1, <1>4, <1>5, <1>6, <1>7, Zenon DEF H!TypeOK

\* What an insertion that does not stray does to a map in order.
LEMMA InsertInOrder ==
    ASSUME H!TypeOK, MapOrder, NEW k \in Keys, NEW v \in Values, H!Insert(k, v), ~H!Strays(k)
    PROVE  MapOrder'
<1> DEFINE there == {j \in Keys : inserted[j] # H!Never}
<1>0. /\ keys \in [H!Slot -> Keys \cup {H!Empty}] /\ values \in [H!Slot -> Keys \cup Values]
      /\ inserted \in [Keys -> Values \cup {H!Never}] /\ size \in Nat
      /\ H!Empty \notin Keys /\ H!Never \notin Values
  BY MapTypes DEF H!TypeOK
<1> DEFINE probe == H!Min(H!Ends(k))
           empty == {s \in H!Loaded(k, probe) : H!Word(s) = H!Empty}
<1>1. H!Ends(k) # {}
  BY Zenon DEF H!Insert
<1>2. /\ probe \in H!Ends(k) /\ probe \in H!Probes /\ PassesTo(k, probe)
      /\ H!Loaded(k, probe) \subseteq H!Slot
  BY <1>1, SearchEnds, Zenon
<1>3. \/ /\ H!Found(k) # {}
         /\ H!Store(k, v, H!Min(H!Found(k)))
         /\ size' = H!SizeAfter(v, H!Min(H!Found(k)))
      \/ /\ H!Found(k) = {}
         /\ H!Store(k, v, H!Min(empty))
         /\ size' = H!SizeAfter(v, H!Min(empty)) + 1
  BY Zenon DEF H!Insert
<1>4. ASSUME NEW s \in H!Slot, H!Store(k, v, s)
      PROVE  /\ keys' = [keys EXCEPT ![s] = k] /\ values' = [values EXCEPT ![s] = v]
             /\ inserted' = [inserted EXCEPT ![k] = v] /\ H!SizeAfter(v, s) = size
  <2>1. s < Slots /\ s # Slots /\ s # Slots + 1
    BY MapTypes DEF H!Slot
  <2>2. H!SizeAfter(v, s) = size
    BY <2>1, Zenon DEF H!SizeAfter
  <2> QED BY <1>4, <2>1, <2>2, Zenon DEF H!Store
<1>5. CASE \E s \in H!Slot : keys[s] = k
  <2>1. PICK s \in H!Slot : keys[s] = k
    BY <1>5
  <2>2. H!Found(k) = {s}
    BY <2>1, FindsTheSlot, Zenon DEF MapOrder
  <2>3. H!Min({s}) = s
    <3>1. s \in Nat
      BY MapTypes DEF H!Slot
    <3>2. H!Min({s}) \in {s}
      BY <3>1, LeastIsOne
    <3> QED BY <3>2
  <2>4. H!Store(k, v, s) /\ size' = H!SizeAfter(v, s)
    BY <1>3, <2>2, <2>3, Zenon
  <2>5. /\ keys' = [keys EXCEPT ![s] = k] /\ values' = [values EXCEPT ![s] = v]
        /\ inserted' = [inserted EXCEPT ![k] = v] /\ size' = size
    BY <1>4, <2>4, Zenon
  <2>6. keys' = keys
    BY <1>0, <2>1, <2>5
  <2>7. OneSlot' /\ Reached'
    BY <2>6 DEF MapOrder, OneSlot, Reached, PassesTo, H!Loaded, H!At
  <2>8. HoldsLast'
    <3>1. ASSUME NEW j \in Keys
          PROVE  \/ inserted'[j] = H!Never /\ \A r \in H!Slot : keys'[r] # j
                 \/ \E r \in H!Slot : /\ keys'[r] = j /\ values'[r] = inserted'[j]
                                      /\ inserted'[j] # H!Never
      <4>1. CASE j = k
        BY <1>0, <2>1, <2>5, <2>6, <4>1
      <4>2. CASE j # k
        <5>1. inserted'[j] = inserted[j]
          BY <1>0, <2>5, <4>2
        <5>2. \A r \in H!Slot : keys[r] = j => values'[r] = values[r]
          BY <1>0, <2>1, <2>5, <4>2
        <5> QED BY <2>6, <5>1, <5>2 DEF MapOrder, HoldsLast
      <4> QED BY <4>1, <4>2
    <3> QED BY <3>1, Zenon DEF HoldsLast
  <2>9. size' = Cardinality({j \in Keys : inserted'[j] # H!Never})
    <3>1. inserted[k] # H!Never
      BY <1>0, <2>1 DEF MapOrder, HoldsLast
    <3>2. {j \in Keys : inserted'[j] # H!Never} = there
      BY <1>0, <2>5, <3>1
    <3> QED BY <2>5, <3>2 DEF MapOrder
  <2> QED BY <2>7, <2>8, <2>9, Zenon DEF MapOrder
<1>6. CASE \A s \in H!Slot : keys[s] # k
  <2> DEFINE s == H!Min(empty)
  <2>1. H!Found(k) = {}
    BY <1>6, FindsNothing, Zenon
  <2>2. s \in H!Slot /\ s \in H!Loaded(k, probe) /\ keys[s] = H!Empty
    <3>1. \A r \in H!Loaded(k, probe) : r \in H!Slot /\ r \in Nat /\ H!Word(r) = keys[r]
      BY <1>2, LoadedType, InSlot, Zenon
    <3>2. empty # {}
      <4>1. \E r \in H!Loaded(k, probe) : H!Word(r) \in {k, H!Empty}
        BY <1>2, Zenon DEF H!Ends
      <4> HIDE DEF probe
      <4> QED BY <1>6, <3>1, <4>1
    <3>3. empty \in SUBSET Nat
      BY <3>1, Zenon
    <3>4. s \in empty
      <4> HIDE DEF empty
      <4> QED BY <3>2, <3>3, LeastIsOne
    <3> HIDE DEF probe, s
    <3> QED BY <3>1, <3>4
  <2>3. H!Store(k, v, s) /\ size' = H!SizeAfter(v, s) + 1
    BY <1>3, <2>1, Zenon
  <2> HIDE DEF s, probe, empty
  <2>4. /\ keys' = [keys EXCEPT ![s] = k] /\ values' = [values EXCEPT ![s] = v]
        /\ inserted' = [inserted EXCEPT ![k] = v] /\ size' = size + 1
    BY <1>4, <2>2, <2>3, Zenon
  <2>5. keys'[s] = k /\ \A r \in H!Slot : r # s => keys'[r] = keys[r] /\ values'[r] = values[r]
    BY <1>0, <2>2, <2>4
  <2>6. OneSlot'
    <3>1. ASSUME NEW x \in H!Slot, NEW y \in H!Slot, keys'[x] \in Keys, keys'[x] = keys'[y]
          PROVE  x = y
      <4>1. (x = s /\ y = s) \/ (x # s /\ y # s)
        BY <1>6, <2>5, <3>1
      <4> QED BY <2>5, <3>1, <4>1 DEF MapOrder, OneSlot
    <3> QED BY <3>1, Zenon DEF OneSlot
  <2>7. Reached'
    <3>1. ASSUME NEW r \in H!Slot, NEW j \in Keys, keys'[r] = j
          PROVE  \E q \in H!Probes : /\ r \in H!Loaded(j, q) /\ H!Loaded(j, q) \subseteq H!Slot
                                     /\ PassesTo(j, q)'
      <4>1. ASSUME NEW q \in H!Probes, PassesTo(j, q), NEW p \in H!Probes, p < q,
                   NEW x \in H!Loaded(j, p)
            PROVE  x \in H!Slot /\ keys'[x] \notin {j, H!Empty}
        <5>1. x \in H!Slot /\ keys[x] \notin {j, H!Empty}
          BY <4>1, Zenon DEF PassesTo
        <5>2. x # s
          BY <2>2, <5>1
        <5> QED BY <2>5, <5>1, <5>2
      <4>2. \A q \in H!Probes : PassesTo(j, q) => PassesTo(j, q)'
        BY <4>1, Zenon DEF PassesTo, H!Loaded, H!At
      <4>3. \E q \in H!Probes : /\ r \in H!Loaded(j, q) /\ H!Loaded(j, q) \subseteq H!Slot
                                /\ PassesTo(j, q)
        <5>1. CASE r = s
          BY <1>2, <2>2, <2>5, <3>1, <5>1 DEF probe
        <5>2. CASE r # s
          <6>1. keys[r] = j
            BY <2>5, <3>1, <5>2
          <6> QED BY <6>1, Zenon DEF MapOrder, Reached
        <5> QED BY <5>1, <5>2
      <4> QED BY <4>2, <4>3
    <3> QED BY <3>1, Zenon DEF Reached, H!Loaded, H!At
  <2>8. HoldsLast'
    <3>1. ASSUME NEW j \in Keys
          PROVE  \/ inserted'[j] = H!Never /\ \A r \in H!Slot : keys'[r] # j
                 \/ \E r \in H!Slot : /\ keys'[r] = j /\ values'[r] = inserted'[j]
                                      /\ inserted'[j] # H!Never
      <4>1. CASE j = k
        BY <1>0, <2>2, <2>4, <4>1
      <4>2. CASE j # k
        <5>1. inserted'[j] = inserted[j]
          BY <1>0, <2>4, <4>2
        <5>2. CASE inserted[j] = H!Never /\ \A r \in H!Slot : keys[r] # j
          BY <2>5, <4>2, <5>1, <5>2
        <5>3. CASE \E r \in H!Slot :
                     keys[r] = j /\ values[r] = inserted[j] /\ inserted[j] # H!Never
          <6>1. PICK r \in H!Slot :
                    keys[r] = j /\ values[r] = inserted[j] /\ inserted[j] # H!Never
            BY <5>3
          <6>2. r # s
            BY <1>0, <2>2, <6>1
          <6> QED BY <2>5, <5>1, <6>1, <6>2
        <5> QED BY <5>2, <5>3 DEF MapOrder, HoldsLast
      <4> QED BY <4>1, <4>2
    <3> QED BY <3>1, Zenon DEF HoldsLast
  <2>9. size' = Cardinality({j \in Keys : inserted'[j] # H!Never})
    <3>1. inserted[k] = H!Never
      BY <1>6 DEF MapOrder, HoldsLast
    <3>2. {j \in Keys : inserted'[j] # H!Never} = there \cup {k} /\ k \notin there
      BY <1>0, <2>4, <3>1
    <3>3. IsFiniteSet(there)
      BY MapTypes, FS_Subset
    <3>4. Cardinality(there \cup {k}) = Cardinality(there) + 1
      <4> HIDE DEF there
      <4> QED BY <3>2, <3>3, FS_AddElement
    <3> HIDE DEF there
    <3>5. size = Cardinality(there)
      BY DEF MapOrder, there
    <3> QED BY <2>4, <3>2, <3>4, <3>5
  <2> QED BY <2>6, <2>7, <2>8, <2>9, Zenon DEF MapOrder
<1> QED BY <1>5, <1>6

LEMMA MapNext == MapInv /\ [H!Next]_mapVars => MapInv'
<1> SUFFICES ASSUME MapInv, [H!Next]_mapVars PROVE MapInv'
  OBVIOUS
<1>0. H!TypeOK /\ (strayed \/ MapOrder)
  BY Zenon DEF MapInv
<1>1. ASSUME NEW k \in Keys, NEW v \in Values, H!Insert(k, v) PROVE MapInv'
  <2>1. PICK w : /\ H!Store(k, v, w)
                 /\ size' = H!SizeAfter(v, w) \/ size' = H!SizeAfter(v, w) + 1
    BY <1>1, Zenon DEF H!Insert
  <2>2. H!TypeOK'
    BY <1>0, <2>1, InsertTypes, Zenon
  <2>3. strayed' \/ (MapOrder /\ ~H!Strays(k))
    BY <1>0, <2>1, Zenon DEF H!Store
  <2>4. strayed' \/ MapOrder'
    BY <1>0, <1>1, <2>3, InsertInOrder, Zenon
  <2> QED BY <2>2, <2>4, Zenon DEF MapInv
<1>2. CASE H!Clear
  <2>1. /\ \A s \in H!Slot : keys'[s] = H!Empty
        /\ \A k \in Keys : inserted'[k] = H!Never
    BY <1>2 DEF H!Clear, H!NoKeys, H!Nothing
  <2>2. size' = 0 /\ values' = values
    BY <1>2 DEF H!Clear
  <2>3. strayed' \in BOOLEAN
    BY <1>2, Zenon DEF H!Clear
  <2>4. /\ keys' \in [H!Slot -> Keys \cup {H!Empty}]
        /\ inserted' \in [Keys -> Values \cup {H!Never}]
    BY <1>2 DEF H!Clear, H!NoKeys, H!Nothing
  <2>5. values' \in [H!Slot -> Keys \cup Values] /\ size' \in Nat
    BY <1>0, <2>2 DEF H!TypeOK
  <2>6. H!TypeOK'
    BY <2>3, <2>4, <2>5, Zenon DEF H!TypeOK
  <2>7. MapOrder'
    <3>1. \A s \in H!Slot : keys'[s] \notin Keys
      BY <2>1, MapTypes
    <3>2. size' = Cardinality({k \in Keys : inserted'[k] # H!Never})
      <4>1. {k \in Keys : inserted'[k] # H!Never} = {}
        BY <2>1
      <4> QED BY <2>2, <4>1, FS_EmptySet
    <3>3. HoldsLast'
      BY <2>1, <3>1 DEF HoldsLast
    <3>4. OneSlot' /\ Reached'
      BY <3>1, Zenon DEF OneSlot, Reached
    <3> QED BY <3>2, <3>3, <3>4, Zenon DEF MapOrder
  <2> QED BY <2>6, <2>7, Zenon DEF MapInv
<1>3. CASE UNCHANGED mapVars
  <2>1. /\ keys' = keys /\ values' = values /\ size' = size /\ inserted' = inserted
        /\ strayed' = strayed
    BY <1>3, Zenon DEF mapVars
  <2>2. H!TypeOK'
    BY <1>0, <2>1, Zenon DEF H!TypeOK
  <2>3. MapOrder => MapOrder'
    <3>1. (OneSlot => OneSlot') /\ (HoldsLast => HoldsLast')
      BY <2>1 DEF OneSlot, HoldsLast
    <3>2. Reached => Reached'
      BY <2>1 DEF Reached, PassesTo, H!Loaded, H!At
    <3>3. size' = size /\ inserted' = inserted
      BY <2>1
    <3> QED BY <3>1, <3>2, <3>3 DEF MapOrder
  <2> QED BY <1>0, <2>1, <2>2, <2>3, Zenon DEF MapInv
<1> QED BY <1>1, <1>2, <1>3, Zenon DEF H!Next

-----------------------------------------------------------------------------
(* The sort.                                                               *)

\* A multiple of a positive number is at least as far from zero.
LEMMA Multiple ==
    ASSUME NEW b \in Nat \ {0}, NEW t \in Int, t >= 1 PROVE b * t \in Int /\ b * t >= b
<1> DEFINE Holds == {i \in Nat : b * (i + 1) >= b}
<1>1. t - 1 \in Nat /\ t - 1 + 1 = t
  OBVIOUS
<1>2. 0..(t - 1) \subseteq Holds
  <2>1. 0 \in Holds
    OBVIOUS
  <2>2. ASSUME NEW i \in 1..(t - 1), i - 1 \in Holds PROVE i \in Holds
    <3>1. b * ((i - 1) + 1) >= b
      BY <2>2
    <3>2. (i - 1) + 1 = i /\ b * (i + 1) = b * i + b
      OBVIOUS
    <3>3. b * i >= b /\ b * i \in Int
      BY <3>1, <3>2
    <3>4. b * (i + 1) >= b
      BY <3>2, <3>3
    <3> QED BY <3>4
  <2> HIDE DEF Holds
  <2> QED BY <1>1, <2>1, <2>2, UpTo
<1>3. t - 1 \in Holds
  <2> HIDE DEF Holds
  <2> QED BY <1>1, <1>2
<1>4. b * ((t - 1) + 1) >= b
  BY <1>3
<1>5. b * t \in Int
  OBVIOUS
<1> QED BY <1>1, <1>4, <1>5

LEMMA Division ==
    ASSUME NEW b \in Nat \ {0}, NEW a \in Int
    PROVE  a \div b \in Int /\ a % b \in 0..(b - 1) /\ a = b * (a \div b) + (a % b)
OBVIOUS

LEMMA DivisionIsUnique ==
    ASSUME NEW b \in Nat \ {0}, NEW a \in Int, NEW q \in Int, NEW r \in 0..(b - 1), a = b * q + r
    PROVE  a \div b = q /\ a % b = r
<1> DEFINE p == a \div b
           s == a % b
<1>1. p \in Int /\ s \in 0..(b - 1) /\ a = b * p + s
  BY Division
<1> HIDE DEF p, s
<1>2. b * (p - q) = b * p - b * q /\ b * (q - p) = b * q - b * p /\ b * p \in Int /\ b * q \in Int
  BY <1>1
<1>3. ~(p - q >= 1)
  <2> SUFFICES ASSUME p - q >= 1 PROVE FALSE
    OBVIOUS
  <2>1. b * (p - q) >= b
    BY <1>1, Multiple
  <2> QED BY <1>1, <1>2, <2>1
<1>4. ~(q - p >= 1)
  <2> SUFFICES ASSUME q - p >= 1 PROVE FALSE
    OBVIOUS
  <2>1. b * (q - p) >= b
    BY <1>1, Multiple
  <2> QED BY <1>1, <1>2, <2>1
<1>5. p = q
  BY <1>1, <1>3, <1>4
<1>6. s = r
  BY <1>1, <1>2, <1>5
<1> QED BY <1>5, <1>6 DEF p, s

\* What the first passes have made of the order, and what the next one adds.
LEMMA NextDigit ==
    ASSUME NEW w \in Nat \ {0}, NEW b \in Nat \ {0}, NEW x \in Nat
    PROVE  /\ (x \div w) % b \in 0..(b - 1) /\ x % w \in 0..(w - 1)
           /\ b * w \in Nat \ {0}
           /\ x % (b * w) = w * ((x \div w) % b) + (x % w)
<1> DEFINE q == x \div w
           r == x % w
           t == q \div b
           d == q % b
<1>1. q \in Int /\ r \in 0..(w - 1) /\ x = w * q + r
  BY Division
<1>2. t \in Int /\ d \in 0..(b - 1) /\ q = b * t + d
  <2> HIDE DEF q
  <2> QED BY <1>1, Division
<1> HIDE DEF q, r, t, d
<1>3. b * w \in Nat \ {0}
  BY Multiple
<1>4. w * d \in Int /\ w * t \in Int /\ b * t \in Int /\ (b * w) * t \in Int
  BY <1>2, <1>3
<1>5. w * q = (b * w) * t + w * d
  <2>1. w * q = w * (b * t) + w * d
    BY <1>2, <1>4
  <2>2. w * (b * t) = (b * w) * t
    BY <1>2
  <2> QED BY <2>1, <2>2
<1>6. w * d + r \in 0..(b * w - 1)
  <2>1. w * d >= 0
    <3>1. CASE d = 0
      BY <3>1
    <3>2. CASE d >= 1
      BY <1>2, <3>2, Multiple
    <3> QED BY <1>2, <3>1, <3>2
  <2>2. w * (b - d) >= w
    <3>1. b - d \in Int /\ b - d >= 1
      BY <1>2
    <3> QED BY <3>1, Multiple
  <2>3. w * (b - d) = b * w - w * d
    BY <1>2
  <2> QED BY <1>1, <1>3, <1>4, <2>1, <2>2, <2>3
<1>7. x = (b * w) * t + (w * d + r)
  BY <1>1, <1>4, <1>5
<1>8. x % (b * w) = w * d + r
  <2> DEFINE m == b * w
             y == w * d + r
  <2>1. m \in Nat \ {0} /\ y \in 0..(m - 1) /\ x = m * t + y
    BY <1>3, <1>6, <1>7
  <2> HIDE DEF m, y
  <2>2. x % m = y
    BY <1>2, <2>1, DivisionIsUnique
  <2> QED BY <2>2 DEF m, y
<1> QED BY <1>1, <1>2, <1>3, <1>8 DEF q, r, t, d

LEMMA WeightFollows ==
    ASSUME NEW n \in Nat, NEW g \in [0..n -> Nat], g[0] = 1, \A i \in 1..n : g[i] = Base * g[i - 1]
    PROVE  O!Weight(n) = g[n]
<1> DEFINE Body(f, i) == IF i = 0 THEN 1 ELSE Base * f[i - 1]
           shifted == CHOOSE f : f = [i \in 0..n |-> Body(f, i)]
<1>1. g = [i \in 0..n |-> Body(g, i)]
  <2>1. ASSUME NEW i \in 0..n PROVE g[i] = Body(g, i)
    <3>1. i = 0 \/ i \in 1..n
      OBVIOUS
    <3> QED BY <3>1
  <2> HIDE DEF Body
  <2> QED BY <2>1
<1>2. shifted = [i \in 0..n |-> Body(shifted, i)]
  <2> HIDE DEF Body
  <2>1. \E f : f = [i \in 0..n |-> Body(f, i)]
    BY <1>1, Zenon
  <2> QED BY <2>1, Zenon
<1>3. O!Weight(n) = shifted[n]
  BY Zenon DEF O!Weight
<1> DEFINE Holds == {m \in 0..n : g[m] = shifted[m]}
<1>4. \A m \in 0..n : shifted[m] = Body(shifted, m)
  <2> HIDE DEF Body, shifted
  <2> QED BY <1>2
<1> HIDE DEF shifted
<1>5. 0 \in Holds
  BY <1>4
<1>6. ASSUME NEW m \in 1..n, m - 1 \in Holds PROVE m \in Holds
  <2>1. g[m - 1] = shifted[m - 1] /\ m # 0 /\ m \in 0..n
    BY <1>6
  <2>2. shifted[m] = Base * shifted[m - 1]
    BY <1>4, <2>1
  <2> QED BY <2>1, <2>2
<1>7. 0..n \subseteq Holds
  <2> HIDE DEF Holds
  <2> QED BY <1>5, <1>6, UpTo
<1> QED BY <1>3, <1>7

LEMMA WeightSteps ==
    \A n \in Nat : /\ O!Weight(n) \in Nat \ {0}
                   /\ O!Weight(0) = 1 /\ O!Weight(n + 1) = Base * O!Weight(n)
<1> SUFFICES ASSUME NEW n \in Nat
             PROVE  /\ O!Weight(n) \in Nat \ {0}
                    /\ O!Weight(0) = 1 /\ O!Weight(n + 1) = Base * O!Weight(n)
  OBVIOUS
<1> DEFINE Type == Nat \ {0}
           step == [i \in 1..(n + 1) |-> [x \in Type |-> Base * x]]
<1>0. Base \in Nat \ {0}
  BY TablesAssumption
<1>1. step \in [1..(n + 1) -> [Type -> Type]]
  <2>1. \A x \in Type : Base * x \in Type
    BY <1>0, Multiple
  <2> HIDE DEF Type
  <2> QED BY <2>1
<1>2. PICK g \in [0..(n + 1) -> Type] : Follows(g, n + 1, 1, step)
  <2>1. 1 \in Type /\ n + 1 \in Nat
    OBVIOUS
  <2> HIDE DEF step, Type
  <2> QED BY <1>1, <2>1, Recursion
<1>3. g[0] = 1 /\ \A i \in 1..(n + 1) : g[i] = Base * g[i - 1]
  <2>1. ASSUME NEW i \in 1..(n + 1) PROVE g[i] = Base * g[i - 1]
    <3>1. i - 1 \in 0..(n + 1)
      OBVIOUS
    <3>2. g[i - 1] \in Type
      BY <3>1
    <3>3. step[i][g[i - 1]] = Base * g[i - 1]
      BY <3>2
    <3> HIDE DEF step
    <3> QED BY <1>2, <3>3 DEF Follows
  <2> HIDE DEF step
  <2> QED BY <1>2, <2>1 DEF Follows
<1>4. \A i \in 0..(n + 1) : g[i] \in Nat \ {0}
  BY <1>2
<1>5. ASSUME NEW m \in 0..(n + 1) PROVE O!Weight(m) = g[m]
  <2> DEFINE h == [i \in 0..m |-> g[i]]
  <2>1. m \in Nat /\ \A i \in 0..m : i \in 0..(n + 1)
    OBVIOUS
  <2>2. h \in [0..m -> Nat] /\ h[0] = 1 /\ h[m] = g[m]
    BY <1>3, <1>4, <2>1
  <2>3. \A i \in 1..m : h[i] = Base * h[i - 1]
    BY <1>3
  <2> HIDE DEF h
  <2>4. O!Weight(m) = h[m]
    BY <2>1, <2>2, <2>3, WeightFollows
  <2> QED BY <2>2, <2>4
<1>6. 0 \in 0..(n + 1) /\ n \in 0..(n + 1) /\ n + 1 \in 1..(n + 1) /\ n + 1 \in 0..(n + 1)
  OBVIOUS
<1>7. g[n + 1] = Base * g[n]
  BY <1>3, <1>6
<1> QED BY <1>3, <1>4, <1>5, <1>6, <1>7

Kinds == {"unsigned", "signed", "float"}
Numbers == 0..(O!Top - 1)

LEMMA TopIsEven ==
    ASSUME digits \in Sizes
    PROVE  O!Top \in Nat \ {0} /\ O!Half \in Nat \ {0} /\ O!Top = 2 * O!Half
<1> DEFINE w == O!Weight(digits - 1)
           half == Base \div 2
<1>1. /\ digits - 1 \in Nat /\ digits - 1 + 1 = digits
      /\ Base \in Nat \ {0} /\ half \in Nat \ {0} /\ Base = 2 * half
  BY TablesAssumption
<1>2. w \in Nat \ {0} /\ O!Weight((digits - 1) + 1) = Base * w
  BY <1>1, WeightSteps
<1>3. O!Top = Base * w
  BY <1>1, <1>2 DEF O!Top
<1> HIDE DEF w, half
<1>4. Base * w = 2 * (half * w)
  BY <1>1, <1>2
<1>5. half * w \in Nat \ {0}
  BY <1>1, <1>2, Multiple
<1>6. O!Half = half * w
  <2> DEFINE m == half * w
  <2>1. m \in Nat \ {0} /\ O!Top = 2 * m
    BY <1>3, <1>4, <1>5
  <2> HIDE DEF m
  <2>2. O!Top \div 2 = m
    BY <2>1
  <2> QED BY <2>2 DEF m, O!Half
<1> QED BY <1>3, <1>4, <1>5, <1>6

\* How far the mapping moves a number, which is why the order stays.
Offset == IF kind = "unsigned" THEN 0 ELSE O!Half

LEMMA FlippedIs ==
    ASSUME digits \in Sizes, NEW x \in Numbers
    PROVE  O!Flipped(x) = IF x < O!Half THEN x + O!Half ELSE x - O!Half
<1>1. O!Top \in Nat \ {0} /\ O!Half \in Nat \ {0} /\ O!Top = 2 * O!Half /\ x \in 0..(O!Top - 1)
  BY TopIsEven DEF Numbers
<1> DEFINE t == O!Top
           h == O!Half
<1> HIDE DEF t, h
<1>2. t \in Nat \ {0} /\ h \in Nat \ {0} /\ t = 2 * h /\ x \in 0..(t - 1)
  BY <1>1 DEF t, h
<1>3. (x + h) % t = IF x < h THEN x + h ELSE x - h
  <2>1. CASE x < h
    <3>1. x + h \in 0..(t - 1) /\ x + h = t * 0 + (x + h) /\ 0 \in Int /\ x + h \in Int
      BY <1>2, <2>1
    <3>2. (x + h) % t = x + h
      BY <1>2, <3>1, DivisionIsUnique
    <3> QED BY <2>1, <3>2
  <2>2. CASE ~(x < h)
    <3>1. x - h \in 0..(t - 1) /\ x + h = t * 1 + (x - h) /\ 1 \in Int /\ x + h \in Int
      BY <1>2, <2>2
    <3>2. (x + h) % t = x - h
      BY <1>2, <3>1, DivisionIsUnique
    <3> QED BY <2>2, <3>2
  <2> QED BY <2>1, <2>2
<1> QED BY <1>3, Zenon DEF O!Flipped, t, h

LEMMA MappingKeepsOrder ==
    ASSUME digits \in Sizes, kind \in Kinds, NEW x \in Numbers
    PROVE  /\ O!Mapped(x) \in Numbers /\ O!Restored(O!Mapped(x)) = x
           /\ O!Number(x) \in Int /\ Offset \in Int /\ O!Mapped(x) = O!Number(x) + Offset
<1> DEFINE t == O!Top
           h == O!Half
           y == O!Mapped(x)
<1>1. t \in Nat \ {0} /\ h \in Nat \ {0} /\ t = 2 * h /\ x \in 0..(t - 1)
  BY TopIsEven DEF Numbers
<1>2. \A z \in 0..(t - 1) : O!Flipped(z) = IF z < h THEN z + h ELSE z - h
  BY FlippedIs DEF Numbers
<1>3. /\ y = IF kind = "unsigned" THEN x
             ELSE IF kind = "signed" \/ x < h THEN O!Flipped(x)
             ELSE t - 1 - x
      /\ \A z : O!Restored(z) = IF kind = "unsigned" THEN z
                                ELSE IF kind = "signed" \/ z >= h THEN O!Flipped(z)
                                ELSE t - 1 - z
  BY Zenon DEF O!Mapped, O!Restored
<1>4. O!Number(x) = IF kind = "unsigned" THEN x
                    ELSE IF kind = "signed" THEN (IF x < h THEN x ELSE x - t)
                    ELSE IF x < h THEN x ELSE h - x - 1
  BY DEF O!Number, Kinds
<1>5. Offset = IF kind = "unsigned" THEN 0 ELSE h
  BY DEF Offset
<1> DEFINE n == O!Number(x)
           o == Offset
           f == O!Flipped(x)
           g == O!Flipped(y)
           back == O!Restored(y)
<1>6. back = IF kind = "unsigned" THEN y
             ELSE IF kind = "signed" \/ y >= h THEN g
             ELSE t - 1 - y
  BY <1>3, Zenon
<1>7. y \in 0..(t - 1) => g = IF y < h THEN y + h ELSE y - h
  <2> HIDE DEF y, t, h
  <2> QED BY <1>2
<1>8. f = IF x < h THEN x + h ELSE x - h
  <2> HIDE DEF y, t, h
  <2> QED BY <1>1, <1>2
<1>9. y = IF kind = "unsigned" THEN x
          ELSE IF kind = "signed" \/ x < h THEN f
          ELSE t - 1 - x
  BY <1>3
<1>10. n = (IF kind = "unsigned" THEN x
            ELSE IF kind = "signed" THEN (IF x < h THEN x ELSE x - t)
            ELSE IF x < h THEN x ELSE h - x - 1)
       /\ o = IF kind = "unsigned" THEN 0 ELSE h
  BY <1>4, <1>5
<1>11. y \in 0..(t - 1) /\ back = x /\ n \in Int /\ o \in Int /\ y = n + o
  <2> HIDE DEF t, h, y, n, o, f, g, back
  <2>1. CASE kind = "unsigned"
    BY <1>1, <1>6, <1>9, <1>10, <2>1
  <2>2. CASE kind = "signed"
    BY <1>1, <1>6, <1>7, <1>8, <1>9, <1>10, <2>2
  <2>3. CASE kind = "float"
    BY <1>1, <1>6, <1>7, <1>8, <1>9, <1>10, <2>3
  <2> QED BY <2>1, <2>2, <2>3 DEF Kinds
<1> QED BY <1>11 DEF Numbers

-----------------------------------------------------------------------------
(* Where a pass puts an element.                                           *)

\* Before or at: by the digits d, then by the position.
Before(d, j, i) == d[j] < d[i] \/ (d[j] = d[i] /\ j <= i)

Rank(d, i) == Cardinality({j \in DOMAIN d : Before(d, j, i)})

\* Ranks tell positions apart, and are in the order of the digits.
LEMMA RanksDiffer ==
    ASSUME NEW n \in Nat, NEW d \in [1..n -> Nat], NEW i \in 1..n, NEW j \in 1..n, i # j,
           Before(d, j, i)
    PROVE  Rank(d, j) < Rank(d, i)
<1> DEFINE I == {l \in 1..n : Before(d, l, i)}
           J == {l \in 1..n : Before(d, l, j)}
<1>1. IsFiniteSet(I) /\ IsFiniteSet(J)
  <2>1. IsFiniteSet(1..n)
    BY FS_Interval
  <2> QED BY <2>1, FS_Subset
<1>2. J \in SUBSET I
  BY DEF Before
<1>3. i \in I /\ i \notin J
  BY DEF Before
<1>4. Rank(d, i) = Cardinality(I) /\ Rank(d, j) = Cardinality(J)
  BY DEF Rank
<1> HIDE DEF I, J
<1>5. Cardinality(J) <= Cardinality(I) /\ Cardinality(I) # Cardinality(J)
  BY <1>1, <1>2, <1>3, FS_Subset
<1>6. Cardinality(I) \in Nat /\ Cardinality(J) \in Nat
  BY <1>1, FS_CardinalityType
<1> QED BY <1>4, <1>5, <1>6

LEMMA EitherIsBefore ==
    ASSUME NEW n \in Nat, NEW d \in [1..n -> Nat], NEW i \in 1..n, NEW j \in 1..n
    PROVE  Before(d, i, j) \/ Before(d, j, i)
<1>1. d[i] \in Nat /\ d[j] \in Nat /\ i \in Int /\ j \in Int
  OBVIOUS
<1> QED BY <1>1 DEF Before

LEMMA RankType ==
    ASSUME NEW n \in Nat, NEW d \in [1..n -> Nat], NEW i \in 1..n PROVE Rank(d, i) \in 1..n
<1> DEFINE I == {l \in 1..n : Before(d, l, i)}
<1>1. IsFiniteSet(1..n) /\ Cardinality(1..n) = n
  BY FS_Interval
<1>2. IsFiniteSet(I) /\ Cardinality(I) <= n
  BY <1>1, FS_Subset
<1>3. I # {}
  BY DEF Before
<1>4. Rank(d, i) = Cardinality(I)
  BY DEF Rank
<1> HIDE DEF I
<1>5. Cardinality(I) \in Nat /\ Cardinality(I) # 0
  BY <1>2, <1>3, FS_CardinalityType, FS_EmptySet
<1> QED BY <1>2, <1>4, <1>5

\* Each place is taken by one position.
LEMMA RanksAreOnto ==
    ASSUME NEW n \in Nat, NEW d \in [1..n -> Nat]
    PROVE  \A p \in 1..n : \E i \in 1..n : Rank(d, i) = p
<1> DEFINE f == [i \in 1..n |-> Rank(d, i)]
<1>1. \A i, j \in 1..n : i # j => f[i] # f[j]
  <2> SUFFICES ASSUME NEW i \in 1..n, NEW j \in 1..n, i # j PROVE Rank(d, i) # Rank(d, j)
    OBVIOUS
  <2>1. Before(d, i, j) \/ Before(d, j, i)
    BY EitherIsBefore
  <2>2. Rank(d, i) \in Int /\ Rank(d, j) \in Int
    BY RankType
  <2>3. Rank(d, i) < Rank(d, j) \/ Rank(d, j) < Rank(d, i)
    BY <2>1, RanksDiffer
  <2> QED BY <2>2, <2>3
<1>2. f \in [1..n -> 1..n]
  BY RankType
<1> HIDE DEF f
<1>3. f \in Injection(1..n, 1..n)
  BY <1>1, <1>2 DEF Injection, IsInjective
<1>4. f \in Surjection(1..n, 1..n)
  BY <1>3, FS_Interval, FS_Injection
<1> QED BY <1>4 DEF Surjection, f

LEMMA OccurrencesCount == \A T : O!Cardinality(T) = Cardinality(T)
BY Zenon DEF O!Cardinality, Cardinality

LEMMA DigitIsNat == \A x \in Nat : iByte \in Nat => O!Digit(x) \in Nat
<1> SUFFICES ASSUME NEW x \in Nat, iByte \in Nat PROVE O!Digit(x) \in Nat
  OBVIOUS
<1> DEFINE w == O!Weight(iByte)
<1>1. w \in Nat \ {0} /\ Base \in Nat \ {0}
  BY WeightSteps, TablesAssumption
<1>2. O!Digit(x) = (x \div w) % Base
  BY DEF O!Digit
<1> HIDE DEF w
<1>3. (x \div w) % Base \in 0..(Base - 1)
  BY <1>1, NextDigit
<1> QED BY <1>1, <1>2, <1>3

DigitsOf(a) == [i \in DOMAIN a |-> O!Digit(a[i])]

\* byteCounts says where an element goes.
LEMMA PlaceIsRank ==
    ASSUME iByte \in Nat, NEW n \in Nat, NEW a \in [1..n -> Nat], NEW i \in 1..n
    PROVE  O!Place(a, i) = Rank(DigitsOf(a), i) /\ DigitsOf(a) \in [1..n -> Nat]
<1> DEFINE d == DigitsOf(a)
           lower == {j \in 1..n : d[j] < d[i]}
           same == {j \in 1..i : d[j] = d[i]}
           before == {j \in 1..n : Before(d, j, i)}
<1>1. d \in [1..n -> Nat] /\ \A j \in 1..n : d[j] = O!Digit(a[j])
  BY DigitIsNat DEF DigitsOf
<1>2. \A j \in 1..i : j \in 1..n
  OBVIOUS
<1>3. /\ lower = {j \in DOMAIN a : O!Digit(a[j]) < O!Digit(a[i])}
      /\ same = {j \in 1..i : O!Digit(a[j]) = O!Digit(a[i])}
  <2> HIDE DEF d
  <2> QED BY <1>1, <1>2
<1> HIDE DEF d
<1>4. O!Place(a, i) = Cardinality(lower) + Cardinality(same)
  <2> HIDE DEF lower, same
  <2> QED BY <1>3, OccurrencesCount, Zenon DEF O!Place
<1>5. lower \cup same = before /\ lower \cap same = {}
  <2>1. \A j \in 1..n : j \in 1..i <=> j <= i
    OBVIOUS
  <2> QED BY <1>1, <1>2, <2>1 DEF Before
<1>6. IsFiniteSet(lower) /\ IsFiniteSet(same)
  <2>1. IsFiniteSet(1..n) /\ IsFiniteSet(1..i)
    BY FS_Interval
  <2>2. lower \in SUBSET (1..n) /\ same \in SUBSET (1..i)
    OBVIOUS
  <2> HIDE DEF lower, same
  <2> QED BY <2>1, <2>2, FS_Subset
<1>7. Rank(d, i) = Cardinality(before)
  BY <1>1 DEF Rank
<1>8. Cardinality(before) = Cardinality(lower) + Cardinality(same)
  <2> HIDE DEF lower, same, before
  <2>1. Cardinality(before) = Cardinality(lower) + Cardinality(same) - Cardinality({})
    BY <1>5, <1>6, FS_Union
  <2> QED BY <1>6, <2>1, FS_CardinalityType, FS_EmptySet
<1> HIDE DEF lower, same, before
<1> QED BY <1>1, <1>4, <1>7, <1>8 DEF d

\* A pass moves the elements about, by their digits and else as they were.
LEMMA PassMoves ==
    ASSUME iByte \in Nat, NEW n \in Nat, NEW a \in [1..n -> Nat]
    PROVE  \E c \in Bijection(1..n, 1..n) :
               /\ O!Placed(a) = [p \in 1..n |-> a[c[p]]]
               /\ \A p, q \in 1..n : p < q => Before(DigitsOf(a), c[p], c[q])
<1> DEFINE d == DigitsOf(a)
           c == [p \in 1..n |-> CHOOSE i \in DOMAIN a : O!Place(a, i) = p]
<1>0. DOMAIN a = 1..n
  OBVIOUS
<1>1. \A i \in 1..n : O!Place(a, i) = Rank(d, i) /\ d \in [1..n -> Nat]
  BY PlaceIsRank
<1>2. ASSUME NEW p \in 1..n PROVE c[p] \in 1..n /\ Rank(d, c[p]) = p
  <2>1. d \in [1..n -> Nat]
    BY <1>1
  <2> HIDE DEF d
  <2>2. \E i \in 1..n : Rank(d, i) = p
    BY <2>1, RanksAreOnto
  <2>3. \E i \in DOMAIN a : O!Place(a, i) = p
    BY <1>0, <1>1, <2>2, Zenon
  <2>4. c[p] = CHOOSE i \in DOMAIN a : O!Place(a, i) = p
    OBVIOUS
  <2>5. c[p] \in DOMAIN a /\ O!Place(a, c[p]) = p
    BY <2>3, <2>4, Zenon
  <2> HIDE DEF c
  <2> QED BY <1>0, <1>1, <2>5, Zenon
<1>3. O!Placed(a) = [p \in 1..n |-> a[c[p]]]
  <2>1. O!Placed(a) = [p \in DOMAIN a |-> a[CHOOSE i \in DOMAIN a : O!Place(a, i) = p]]
    BY Zenon DEF O!Placed
  <2> QED BY <1>0, <2>1
<1> HIDE DEF c, d
<1>4. c \in Bijection(1..n, 1..n)
  <2>0. c \in [1..n -> 1..n]
    <3>1. c = [p \in 1..n |-> c[p]]
      BY DEF c
    <3> QED BY <1>2, <3>1
  <2>1. c \in Injection(1..n, 1..n)
    <3>1. DOMAIN c = 1..n
      BY <2>0
    <3>2. \A p, q \in 1..n : c[p] = c[q] => p = q
      BY <1>2, Zenon
    <3> QED BY <2>0, <3>1, <3>2, Zenon DEF Injection, IsInjective
  <2>2. c \in Surjection(1..n, 1..n)
    BY <2>1, FS_Interval, FS_Injection
  <2> QED BY <2>1, <2>2 DEF Bijection
<1>5. ASSUME NEW p \in 1..n, NEW q \in 1..n, p < q PROVE Before(d, c[p], c[q])
  <2>1. /\ c[p] \in 1..n /\ c[q] \in 1..n /\ d \in [1..n -> Nat]
        /\ Rank(d, c[p]) = p /\ Rank(d, c[q]) = q
    BY <1>1, <1>2
  <2>2. Before(d, c[p], c[q]) \/ Before(d, c[q], c[p])
    BY <2>1, EitherIsBefore
  <2>3. c[p] # c[q]
    BY <1>5, <2>1
  <2>4. Before(d, c[q], c[p]) => q < p
    BY <2>1, <2>3, RanksDiffer
  <2> QED BY <1>5, <2>2, <2>4
<1> QED BY <1>3, <1>4, <1>5 DEF d

-----------------------------------------------------------------------------
\* What the elements are at one time, and how they stand.
Arranged(s) ==
    \E c \in Bijection(1..Len(input), 1..Len(input)) :
        s = [i \in 1..Len(input) |-> O!Mapped(input[c[i]])]

InOrder(s, passes) == \A i, j \in 1..Len(input) :
    i <= j => s[i] % O!Weight(passes) <= s[j] % O!Weight(passes)

LEMMA PassSorts ==
    ASSUME kind \in Kinds, digits \in Sizes, iByte \in Nat, input \in Seq(Numbers),
           NEW s, Arranged(s), InOrder(s, iByte)
    PROVE  Arranged(O!Placed(s)) /\ InOrder(O!Placed(s), iByte + 1)
<1> DEFINE n == Len(input)
           d == DigitsOf(s)
<1>1. n \in Nat /\ \A i \in 1..n : input[i] \in Numbers
  OBVIOUS
<1>2. PICK b \in Bijection(1..n, 1..n) : s = [i \in 1..n |-> O!Mapped(input[b[i]])]
  BY DEF Arranged
<1> HIDE DEF n, d
<1>3. b \in [1..n -> 1..n]
  BY <1>2 DEF Bijection, Injection
<1>4. s \in [1..n -> Nat]
  <2>1. \A i \in 1..n : O!Mapped(input[b[i]]) \in Nat
    <3>1. \A x \in Numbers : O!Mapped(x) \in Nat
      <4>1. \A x \in Numbers : O!Mapped(x) \in Numbers
        BY MappingKeepsOrder
      <4> QED BY <4>1, TopIsEven DEF Numbers
    <3> QED BY <1>1, <1>3, <3>1, Zenon
  <2> QED BY <1>2, <2>1
<1>5. PICK c \in Bijection(1..n, 1..n) :
          /\ O!Placed(s) = [p \in 1..n |-> s[c[p]]]
          /\ \A p, q \in 1..n : p < q => Before(d, c[p], c[q])
  BY <1>1, <1>4, PassMoves DEF d
<1>6. c \in [1..n -> 1..n]
  BY <1>5 DEF Bijection, Injection
<1>7. Arranged(O!Placed(s))
  <2> DEFINE e == [i \in 1..n |-> b[c[i]]]
  <2>1. e \in Bijection(1..n, 1..n)
    <3>1. e \in [1..n -> 1..n]
      BY <1>3, <1>6
    <3>2. \A i, j \in 1..n : e[i] = e[j] => i = j
      BY <1>2, <1>3, <1>5, <1>6 DEF Bijection, Injection, IsInjective
    <3>3. e \in Injection(1..n, 1..n)
      <4> HIDE DEF e
      <4> QED BY <3>1, <3>2 DEF Injection, IsInjective
    <3> HIDE DEF e
    <3>4. e \in Surjection(1..n, 1..n)
      BY <1>1, <3>3, FS_Interval, FS_Injection
    <3> QED BY <3>3, <3>4 DEF Bijection
  <2>2. O!Placed(s) = [i \in 1..n |-> O!Mapped(input[e[i]])]
    BY <1>2, <1>5, <1>6
  <2> HIDE DEF e
  <2> QED BY <2>1, <2>2 DEF Arranged, n
<1>8. ASSUME NEW p \in 1..n, NEW q \in 1..n, p < q
      PROVE  s[c[p]] % O!Weight(iByte + 1) <= s[c[q]] % O!Weight(iByte + 1)
  <2> DEFINE w == O!Weight(iByte)
             x == s[c[p]]
             y == s[c[q]]
             dx == (x \div w) % Base
             dy == (y \div w) % Base
             rx == x % w
             ry == y % w
  <2>1. w \in Nat \ {0} /\ Base \in Nat \ {0} /\ O!Weight(iByte + 1) = Base * w
    BY WeightSteps, TablesAssumption
  <2>2. x \in Nat /\ y \in Nat /\ c[p] \in 1..n /\ c[q] \in 1..n
    BY <1>4, <1>6
  <2>3. d[c[p]] = dx /\ d[c[q]] = dy
    <3>1. DOMAIN s = 1..n
      BY <1>4
    <3> QED BY <2>2, <3>1 DEF d, DigitsOf, O!Digit
  <2>4. dx < dy \/ (dx = dy /\ c[p] <= c[q])
    <3> HIDE DEF dx, dy
    <3> QED BY <1>5, <1>8, <2>3 DEF Before
  <2>5. c[p] <= c[q] => rx <= ry
    BY <2>2 DEF InOrder, n
  <2> HIDE DEF w, x, y
  <2>6. /\ dx \in 0..(Base - 1) /\ rx \in 0..(w - 1) /\ x % (Base * w) = w * dx + rx
        /\ dy \in 0..(Base - 1) /\ ry \in 0..(w - 1) /\ y % (Base * w) = w * dy + ry
    BY <2>1, <2>2, NextDigit
  <2> HIDE DEF dx, dy, rx, ry
  <2>7. w * dx + rx <= w * dy + ry
    <3>0. w * dx \in Int /\ w * dy \in Int
      BY <2>1, <2>6
    <3>1. CASE dx < dy
      <4>1. w * (dy - dx) >= w
        <5>1. dy - dx \in Int /\ dy - dx >= 1
          BY <2>6, <3>1
        <5> QED BY <2>1, <5>1, Multiple
      <4>2. w * (dy - dx) = w * dy - w * dx
        BY <2>1, <2>6
      <4> QED BY <2>1, <2>6, <3>0, <4>1, <4>2
    <3>2. CASE dx = dy /\ c[p] <= c[q]
      BY <2>5, <2>6, <3>0, <3>2
    <3> QED BY <2>4, <3>1, <3>2
  <2>8. x % O!Weight(iByte + 1) <= y % O!Weight(iByte + 1)
    BY <2>1, <2>6, <2>7
  <2> QED BY <2>8 DEF x, y
<1>9. InOrder(O!Placed(s), iByte + 1)
  <2> DEFINE m == O!Weight(iByte + 1)
             z == O!Placed(s)
  <2>1. \A p \in 1..n : z[p] = s[c[p]]
    BY <1>5
  <2>2. m \in Nat \ {0} /\ \A p \in 1..n : s[c[p]] \in Nat
    <3>1. iByte + 1 \in Nat
      OBVIOUS
    <3>2. m \in Nat \ {0}
      BY <3>1, WeightSteps
    <3>3. \A p \in 1..n : s[c[p]] \in Nat
      BY <1>4, <1>6
    <3> QED BY <3>2, <3>3
  <2> HIDE DEF m, z
  <2>3. \A p \in 1..n : z[p] % m \in Int
    BY <2>1, <2>2
  <2>4. \A p, q \in 1..n : p < q => z[p] % m <= z[q] % m
    BY <1>8, <2>1 DEF m
  <2>5. ASSUME NEW p \in 1..n, NEW q \in 1..n, p <= q PROVE z[p] % m <= z[q] % m
    BY <1>1, <2>3, <2>4, <2>5
  <2> QED BY <2>5 DEF InOrder, n, m, z
<1> QED BY <1>7, <1>9

Current == IF iByte % 2 = 0 THEN array ELSE scratch

\* What is sorted is the input, each number once.
Sorted ==
    \E c \in Bijection(1..Len(input), 1..Len(input)) :
        /\ array = [i \in 1..Len(input) |-> input[c[i]]]
        /\ \A i, j \in 1..Len(input) : i <= j => O!Number(array[i]) <= O!Number(array[j])

SortTypes ==
    /\ kind \in Kinds /\ digits \in Sizes /\ iByte \in 0..digits
    /\ phase \in {"mapping", "sorting", "restoring", "sorted"}
    /\ input \in Seq(Numbers) /\ Len(input) <= MaxLength
    /\ array \in Seq(Numbers) /\ Len(array) = Len(input)
    /\ scratch \in Seq(Numbers) /\ Len(scratch) <= MaxLength

(***************************************************************************)
(* Each pass leaves the elements in the order of the digits it and those   *)
(* before it looked at.                                                    *)
(***************************************************************************)
SortInv ==
    /\ SortTypes
    /\ phase = "mapping" => array = input /\ iByte = 0
    /\ phase = "sorting" => Arranged(Current) /\ InOrder(Current, iByte)
    /\ phase = "restoring" => Arranged(array) /\ InOrder(array, digits)
    /\ phase = "sorted" => Sorted

LEMMA SortStart == O!Init => SortInv
<1> SUFFICES ASSUME O!Init PROVE SortInv
  OBVIOUS
<1>1. /\ kind \in Kinds /\ digits \in Sizes /\ iByte = 0 /\ phase = "mapping"
      /\ array = input /\ scratch = <<>>
  BY DEF O!Init, Kinds
<1>2. digits \in Nat /\ MaxLength \in Nat
  BY <1>1, TablesAssumption
<1>3. input \in Seq(Numbers) /\ Len(input) <= MaxLength
  <2>1. PICK m \in 0..MaxLength : input \in [1..m -> 0..(O!Top - 1)]
    BY DEF O!Init, O!SeqOf
  <2>2. input \in [1..m -> Numbers]
    BY <2>1 DEF Numbers
  <2>3. input \in Seq(Numbers) /\ Len(input) = m
    BY <2>2
  <2> QED BY <1>2, <2>3
<1> QED BY <1>1, <1>2, <1>3 DEF SortInv, SortTypes

LEMMA SortTypeOK == SortInv => O!TypeOK
<1> SUFFICES ASSUME SortInv PROVE O!TypeOK
  OBVIOUS
<1>1. \A s \in {input, array, scratch} : Len(s) <= MaxLength /\ s \in Seq(Numbers)
  BY DEF SortInv, SortTypes
<1>2. ASSUME NEW s \in Seq(Numbers) PROVE O!Range(s) \subseteq 0..(O!Top - 1)
  <2>1. \A i \in DOMAIN s : s[i] \in Numbers
    OBVIOUS
  <2> QED BY <2>1, Zenon DEF O!Range, Numbers
<1> QED BY <1>1, <1>2, Zenon DEF SortInv, SortTypes, O!TypeOK

\* A bijection takes the places of a number to its places.
LEMMA SortAnswers == SortInv => O!SortsTheArray
<1> SUFFICES ASSUME SortInv, phase = "sorted" PROVE O!SortsTheArray
  BY DEF O!SortsTheArray
<1> DEFINE n == Len(input)
<1>1. input \in Seq(Numbers) /\ n \in Nat /\ Len(array) = n /\ array \in Seq(Numbers)
  BY DEF SortInv, SortTypes
<1>2. PICK c \in Bijection(1..n, 1..n) :
          /\ array = [i \in 1..n |-> input[c[i]]]
          /\ \A i, j \in 1..n : i <= j => O!Number(array[i]) <= O!Number(array[j])
  BY DEF SortInv, Sorted
<1>3. DOMAIN array = 1..n /\ DOMAIN input = 1..n
  BY <1>1
<1> HIDE DEF n
<1>4. ASSUME NEW x PROVE O!Occurrences(array, x) = O!Occurrences(input, x)
  <2> DEFINE from == {i \in 1..n : array[i] = x}
             to == {i \in 1..n : input[i] = x}
             move == [i \in from |-> c[i]]
  <2>1. /\ c \in [1..n -> 1..n] /\ \A i, j \in 1..n : c[i] = c[j] => i = j
        /\ \A j \in 1..n : \E i \in 1..n : c[i] = j
    BY <1>2 DEF Bijection, Injection, IsInjective, Surjection
  <2>2. \A i \in 1..n : array[i] = input[c[i]]
    BY <1>2
  <2>3. move \in [from -> to]
    BY <2>1, <2>2
  <2>4. \A i, j \in from : move[i] = move[j] => i = j
    BY <2>1
  <2>5. \A j \in to : \E i \in from : move[i] = j
    BY <2>1, <2>2
  <2>6. IsFiniteSet(from)
    <3>1. IsFiniteSet(1..n)
      BY <1>1, FS_Interval DEF n
    <3> QED BY <3>1, FS_Subset
  <2>7. O!Occurrences(array, x) = Cardinality(from) /\ O!Occurrences(input, x) = Cardinality(to)
    BY <1>3, OccurrencesCount, Zenon DEF O!Occurrences
  <2> HIDE DEF from, to, move
  <2>8. move \in Bijection(from, to)
    BY <2>3, <2>4, <2>5 DEF Bijection, Injection, IsInjective, Surjection
  <2> QED BY <2>6, <2>7, <2>8, FS_Bijection DEF ExistsBijection
<1>5. \A i \in 1..(Len(array) - 1) : O!Number(array[i]) <= O!Number(array[i + 1])
  <2>1. \A i \in 1..(n - 1) : i \in 1..n /\ i + 1 \in 1..n /\ i <= i + 1
    BY <1>1 DEF n
  <2> QED BY <1>1, <1>2, <2>1, Zenon
<1> QED BY <1>4, <1>5, Zenon DEF O!SortsTheArray

LEMMA SortNext == SortInv /\ [O!Next]_sortVars => SortInv'
<1> SUFFICES ASSUME SortInv, [O!Next]_sortVars PROVE SortInv'
  OBVIOUS
<1> DEFINE n == Len(input)
<1>0. /\ SortTypes /\ n \in Nat /\ digits \in Nat \ {0} /\ iByte \in Nat
      /\ input \in [1..n -> Numbers] /\ array \in [1..n -> Numbers] /\ Numbers \subseteq Nat
  <2>1. SortTypes /\ n \in Nat
    BY DEF SortInv, SortTypes
  <2>2. digits \in Nat \ {0} /\ iByte \in Nat
    BY <2>1, TablesAssumption DEF SortTypes
  <2>3. Numbers \subseteq Nat
    BY <2>1, TopIsEven DEF Numbers, SortTypes
  <2> QED BY <2>1, <2>2, <2>3 DEF SortTypes
\* What does not change keeps the meaning of what rests on it.
<1>a. ASSUME UNCHANGED <<kind, digits, input>>
      PROVE  /\ Numbers' = Numbers /\ n' = n
             /\ \A s : Arranged(s)' <=> Arranged(s)
             /\ \A s, i : InOrder(s, i)' <=> InOrder(s, i)
             /\ \A x : O!Number(x)' = O!Number(x)
  <2>1. kind' = kind /\ digits' = digits /\ input' = input
    BY <1>a
  <2>2. O!Top' = O!Top /\ O!Half' = O!Half
    BY <2>1 DEF O!Top, O!Half
  <2>3. \A x : O!Mapped(x)' = O!Mapped(x)
    BY <2>1, <2>2, Zenon DEF O!Mapped, O!Flipped
  <2>4. \A x : O!Number(x)' = O!Number(x)
    BY <2>1, <2>2, Zenon DEF O!Number
  <2>5. Numbers' = Numbers /\ n' = n
    BY <2>1, <2>2 DEF Numbers
  <2>6. ASSUME NEW s PROVE Arranged(s)' <=> Arranged(s)
    BY <2>1, <2>3 DEF Arranged
  <2>7. ASSUME NEW s, NEW i PROVE InOrder(s, i)' <=> InOrder(s, i)
    BY <2>1 DEF InOrder
  <2> QED BY <2>4, <2>5, <2>6, <2>7
<1>b. ASSUME UNCHANGED <<kind, digits, input>>, NEW s, NEW i, Arranged(s), InOrder(s, i)
      PROVE  /\ (array' = s => Arranged(array)')
             /\ (array' = s /\ digits' = i => InOrder(array, digits)')
             /\ (Current' = s => Arranged(Current)')
             /\ (Current' = s /\ iByte' = i => InOrder(Current, iByte)')
  <2>1. Arranged(s)' /\ InOrder(s, i)'
    BY <1>a, <1>b
  <2> QED BY <2>1 DEF Arranged, InOrder
<1>c. ASSUME UNCHANGED <<kind, digits, input>>, array' = array, Sorted PROVE Sorted'
  BY <1>a, <1>c DEF Sorted
<1>1. CASE O!Map
  <2>1. /\ phase = "mapping" /\ phase' = "sorting" /\ UNCHANGED <<kind, digits, input>>
        /\ scratch' = scratch /\ iByte' = iByte /\ iByte = 0 /\ array = input
    BY <1>1 DEF O!Map, SortInv
  <2>2. array' = [i \in 1..n |-> O!Mapped(input[i])]
    <3>1. DOMAIN input = 1..n
      BY <1>0
    <3> QED BY <1>1, <2>1, <3>1, Zenon DEF O!Map
  <2>3. array' \in [1..n -> Numbers]
    <3>1. \A x \in Numbers : O!Mapped(x) \in Numbers
      BY <1>0, MappingKeepsOrder DEF SortTypes
    <3> QED BY <1>0, <2>2, <3>1
  <2>4. array' \in Seq(Numbers) /\ Len(array') = n
    BY <1>0, <2>3
  <2>5. SortTypes'
    BY <1>0, <1>a, <2>1, <2>4 DEF SortTypes
  <2>6. Arranged(array')
    <3> DEFINE c == [i \in 1..n |-> i]
    <3>1. c \in Bijection(1..n, 1..n)
      BY DEF Bijection, Injection, IsInjective, Surjection
    <3>2. array' = [i \in 1..n |-> O!Mapped(input[c[i]])]
      BY <2>2
    <3> HIDE DEF c
    <3> QED BY <3>1, <3>2 DEF Arranged
  <2>7. InOrder(array', 0)
    <3>1. \A x \in Nat : x % 1 = 0
      OBVIOUS
    <3>2. O!Weight(0) = 1
      BY WeightSteps
    <3>3. \A i \in 1..n : array'[i] % O!Weight(0) = 0
      BY <1>0, <2>3, <3>1, <3>2
    <3> QED BY <3>3 DEF InOrder
  <2>8. Current' = array' /\ iByte' = 0
    BY <2>1 DEF Current
  <2>9. Arranged(Current)' /\ InOrder(Current, iByte)'
    <3>1. PICK s : s = array'
      OBVIOUS
    <3>2. Arranged(s) /\ InOrder(s, 0)
      BY <2>6, <2>7, <3>1
    <3> QED BY <1>b, <2>1, <2>8, <3>1, <3>2
  <2> QED BY <2>1, <2>5, <2>8, <2>9 DEF SortInv
<1>2. CASE O!Pass
  <2>1. /\ phase = "sorting" /\ phase' = "sorting" /\ iByte < digits /\ iByte' = iByte + 1
        /\ UNCHANGED <<kind, digits, input>>
        /\ Arranged(Current) /\ InOrder(Current, iByte)
    BY <1>2 DEF O!Pass, SortInv
  <2> DEFINE s == Current
             z == O!Placed(s)
  <2>2. Arranged(z) /\ InOrder(z, iByte + 1)
    <3> HIDE DEF s
    <3> QED BY <1>0, <2>1, PassSorts DEF SortTypes, s
  <2>3. z \in [1..n -> Numbers]
    <3>1. PICK c \in Bijection(1..n, 1..n) : z = [i \in 1..n |-> O!Mapped(input[c[i]])]
      BY <2>2 DEF Arranged
    <3>2. c \in [1..n -> 1..n]
      BY DEF Bijection, Injection
    <3>3. \A x \in Numbers : O!Mapped(x) \in Numbers
      BY <1>0, MappingKeepsOrder DEF SortTypes
    <3>4. \A i \in 1..n : O!Mapped(input[c[i]]) \in Numbers
      BY <1>0, <3>2, <3>3
    <3> HIDE DEF z
    <3> QED BY <3>1, <3>4
  <2>4. z \in Seq(Numbers) /\ Len(z) = n
    <3> HIDE DEF z
    <3> QED BY <1>0, <2>3
  <2>5. \/ iByte % 2 = 0 /\ (iByte + 1) % 2 = 1 /\ scratch' = z /\ array' = array
        \/ iByte % 2 = 1 /\ (iByte + 1) % 2 = 0 /\ array' = z /\ scratch' = scratch
    <3>1. \/ iByte % 2 = 0 /\ (iByte + 1) % 2 = 1
          \/ iByte % 2 = 1 /\ (iByte + 1) % 2 = 0
      BY <1>0
    <3>2. CASE iByte % 2 = 0
      BY <1>2, <3>1, <3>2 DEF O!Pass, Current
    <3>3. CASE iByte % 2 = 1
      BY <1>2, <3>1, <3>3 DEF O!Pass, Current
    <3> QED BY <3>1, <3>2, <3>3
  <2> HIDE DEF z
  <2>6. SortTypes'
    <3>1. Numbers' = Numbers /\ n' = n
      BY <1>a, <2>1
    <3>2. iByte' \in 0..digits' /\ phase' = "sorting"
      BY <1>0, <2>1
    <3> QED BY <1>0, <2>1, <2>4, <2>5, <3>1, <3>2 DEF SortTypes
  <2>7. Current' = z
    BY <2>1, <2>5 DEF Current
  <2>8. Arranged(Current)' /\ InOrder(Current, iByte)'
    <3>1. PICK u, m : u = z /\ m = iByte + 1
      OBVIOUS
    <3>2. Arranged(u) /\ InOrder(u, m)
      BY <2>2, <3>1
    <3> QED BY <1>b, <2>1, <2>7, <3>1, <3>2
  <2> QED BY <2>1, <2>6, <2>7, <2>8 DEF SortInv
<1>3. CASE O!CopyBack
  <2>1. /\ phase = "sorting" /\ phase' = "restoring" /\ iByte = digits
        /\ UNCHANGED <<kind, digits, input>> /\ scratch' = scratch /\ iByte' = iByte
        /\ array' = IF digits % 2 = 1 THEN scratch ELSE array
        /\ Arranged(Current) /\ InOrder(Current, digits)
    BY <1>3 DEF O!CopyBack, SortInv
  <2>2. array' = Current
    <3>1. digits % 2 = 0 \/ digits % 2 = 1
      BY <1>0
    <3> QED BY <2>1, <3>1 DEF Current
  <2>3. array' \in Seq(Numbers) /\ Len(array') = n
    <3>1. PICK c \in Bijection(1..n, 1..n) : array' = [i \in 1..n |-> O!Mapped(input[c[i]])]
      BY <2>1, <2>2 DEF Arranged
    <3>2. array' \in Seq(Numbers)
      BY <1>0, <2>1 DEF SortTypes
    <3>3. DOMAIN array' = 1..n
      BY <3>1
    <3> QED BY <1>0, <3>2, <3>3
  <2>4. SortTypes'
    <3>1. Numbers' = Numbers /\ n' = n
      BY <1>a, <2>1
    <3> QED BY <1>0, <2>1, <2>3, <3>1 DEF SortTypes
  <2>5. Arranged(array)' /\ InOrder(array, digits)'
    <3>1. PICK s, m : s = array' /\ m = digits
      OBVIOUS
    <3>2. Arranged(s) /\ InOrder(s, m)
      BY <2>1, <2>2, <3>1
    <3> QED BY <1>b, <2>1, <3>1, <3>2
  <2> QED BY <2>1, <2>4, <2>5 DEF SortInv
<1>4. CASE O!Restore
  <2>1. /\ phase = "restoring" /\ phase' = "sorted" /\ UNCHANGED <<kind, digits, input>>
        /\ scratch' = scratch /\ iByte' = iByte
        /\ Arranged(array) /\ InOrder(array, digits)
    BY <1>4 DEF O!Restore, SortInv
  <2>2. PICK c \in Bijection(1..n, 1..n) : array = [i \in 1..n |-> O!Mapped(input[c[i]])]
    BY <2>1 DEF Arranged
  <2>3. c \in [1..n -> 1..n] /\ DOMAIN array = 1..n
    BY <1>0 DEF Bijection, Injection
  <2>4. \A i \in 1..n : input[c[i]] \in Numbers /\ array[i] = O!Mapped(input[c[i]])
    BY <1>0, <2>2, <2>3
  <2>5. \A x \in Numbers : /\ O!Mapped(x) \in Numbers /\ O!Restored(O!Mapped(x)) = x
                           /\ O!Number(x) \in Int /\ Offset \in Int
                           /\ O!Mapped(x) = O!Number(x) + Offset
    BY <1>0, MappingKeepsOrder DEF SortTypes
  <2>6. array' = [i \in 1..n |-> input[c[i]]]
    <3>1. array' = [i \in 1..n |-> O!Restored(array[i])]
      BY <1>4, <2>3, Zenon DEF O!Restore
    <3>2. \A i \in 1..n : O!Restored(array[i]) = input[c[i]]
      BY <2>4, <2>5, Zenon
    <3> QED BY <3>1, <3>2
  <2>7. ASSUME NEW i \in 1..n, NEW j \in 1..n, i <= j
        PROVE  O!Number(array'[i]) <= O!Number(array'[j])
    <3> DEFINE x == input[c[i]]
               y == input[c[j]]
    <3>1. array[i] % O!Top <= array[j] % O!Top
      BY <2>1, <2>7 DEF InOrder, O!Top
    <3>2. O!Top \in Nat \ {0} /\ \A k \in 0..(O!Top - 1) : k % O!Top = k
      <4>1. O!Top \in Nat \ {0}
        BY <1>0, TopIsEven DEF SortTypes
      <4>2. ASSUME NEW k \in 0..(O!Top - 1) PROVE k % O!Top = k
        <5>1. k \in Nat /\ k < O!Top
          BY <4>1
        <5> QED BY <4>1, <5>1, RotationSteps
      <4> QED BY <4>1, <4>2
    <3>3. array[i] <= array[j]
      <4>1. array[i] \in 0..(O!Top - 1) /\ array[j] \in 0..(O!Top - 1)
        BY <1>0 DEF Numbers
      <4> QED BY <3>1, <3>2, <4>1
    <3>4. /\ x \in Numbers /\ y \in Numbers /\ array[i] = O!Mapped(x) /\ array[j] = O!Mapped(y)
          /\ array'[i] = x /\ array'[j] = y
      BY <2>4, <2>6
    <3> HIDE DEF x, y
    <3>5. O!Mapped(x) = O!Number(x) + Offset /\ O!Mapped(y) = O!Number(y) + Offset
      BY <2>5, <3>4
    <3>6. O!Number(x) \in Int /\ O!Number(y) \in Int /\ Offset \in Int
      BY <2>5, <3>4
    <3>7. O!Number(x) <= O!Number(y)
      BY <3>3, <3>4, <3>5, <3>6
    <3> QED BY <3>4, <3>7
  <2>8. array' \in Seq(Numbers) /\ Len(array') = n
    <3>1. array' \in [1..n -> Numbers]
      BY <2>4, <2>6
    <3> QED BY <1>0, <3>1
  <2>9. Sorted'
    <3>1. Len(input') = n /\ input' = input
      BY <2>1
    <3>2. PICK s : s = array'
      OBVIOUS
    <3>3. \A i, j \in 1..n : i <= j => O!Number(s[i])' <= O!Number(s[j])'
      BY <1>a, <2>1, <2>7, <3>2
    <3>4. \A x : x = array' => \A i : O!Number(x[i])' = (O!Number(array[i]))'
      BY DEF O!Number
    <3>5. \A i, j \in 1..n : i <= j => (O!Number(array[i]))' <= (O!Number(array[j]))'
      BY <3>2, <3>3, <3>4
    <3> HIDE DEF n
    <3> QED BY <2>6, <3>1, <3>5 DEF Sorted
  <2>10. SortTypes'
    <3>1. Numbers' = Numbers /\ n' = n
      BY <1>a, <2>1
    <3> QED BY <1>0, <2>1, <2>8, <3>1 DEF SortTypes
  <2> QED BY <2>1, <2>9, <2>10 DEF SortInv
<1>5. CASE UNCHANGED sortVars
  <2>1. /\ UNCHANGED <<kind, digits, input>> /\ array' = array /\ scratch' = scratch
        /\ iByte' = iByte /\ phase' = phase
    BY <1>5 DEF sortVars
  <2>2. Numbers' = Numbers /\ Current' = Current
    BY <1>a, <2>1 DEF Current
  <2>3. SortTypes'
    BY <1>0, <2>1, <2>2 DEF SortTypes
  <2>4. Sorted => Sorted'
    BY <1>c, <2>1
  <2>5. phase = "sorting" => Arranged(Current)' /\ InOrder(Current, iByte)'
    <3>1. PICK s, m : s = Current /\ m = iByte
      OBVIOUS
    <3> QED BY <1>b, <2>1, <2>2, <3>1 DEF SortInv
  <2>6. phase = "restoring" => Arranged(array)' /\ InOrder(array, digits)'
    <3>1. PICK s, m : s = array /\ m = digits
      OBVIOUS
    <3> QED BY <1>b, <2>1, <3>1 DEF SortInv
  <2> QED BY <2>1, <2>3, <2>4, <2>5, <2>6 DEF SortInv
<1> QED BY <1>1, <1>2, <1>3, <1>4, <1>5 DEF O!Next

-----------------------------------------------------------------------------
(***************************************************************************)
(* In a behavior of the parts, each of them behaves as it does alone.      *)
(***************************************************************************)
LEMMA EachPart ==
    PartsSpec => /\ Init /\ [][Next]_pollerVars
                 /\ E!Init /\ [][E!Next]_endpointVars
                 /\ S!Init /\ [][S!Next]_monitorVars
                 /\ R!Init /\ [][R!Next]_relayVars
                 /\ N!Init /\ [][N!Next]_symbolVars
                 /\ H!Init /\ [][H!Next]_mapVars
                 /\ O!Init /\ [][O!Next]_sortVars
<1> DEFINE all == <<part, pollerVars, endpointVars, monitorVars, relayVars, symbolVars,
                    mapVars, sortVars>>
<1>1. PartsInit => Init /\ E!Init /\ S!Init /\ R!Init /\ N!Init /\ H!Init /\ O!Init
  BY DEF PartsInit
<1>2. [PartsNext]_all => /\ [Next]_pollerVars /\ [E!Next]_endpointVars
                         /\ [S!Next]_monitorVars /\ [R!Next]_relayVars
                         /\ [N!Next]_symbolVars /\ [H!Next]_mapVars /\ [O!Next]_sortVars
  BY DEF PartsNext
<1> QED BY <1>1, <1>2, PTL DEF PartsSpec

(***************************************************************************)
(* With any number of targets and any times: every target gets its turn    *)
(* while failures keep coming, and each long outage has one signal.        *)
(***************************************************************************)
THEOREM CallsGoWhereTheyShould == PartsSpec => []ContactIsUsed
<1>1. EndpointInv /\ MonitorInv => ContactIsUsed
  BY EndpointTurns DEF MonitorInv, ContactIsUsed
<1> QED BY EachPart, EndpointInit, EndpointNext, MonitorInit, MonitorNext, <1>1, PTL

(***************************************************************************)
(* Whatever file the relay reads and whichever alternatives it is switched *)
(* to, each flow has connections where it is sent, as many either way.     *)
(***************************************************************************)
THEOREM FlowsGoSomewhere == PartsSpec => []FlowsAreServed
<1>1. RelayInv => FlowsAreServed
  BY RelayServes DEF FlowsAreServed
<1> QED BY EachPart, RelayStart, RelayNext, <1>1, PTL

(***************************************************************************)
(* For tables, files, hashes and numbers of any size: what add, read,      *)
(* clear and copy leave in a table can be asked back; as long as no        *)
(* insertion read past the keys of the map, a key is found with what was   *)
(* inserted last, however keys collide; and an array ends up with what it  *)
(* held in the order of the numbers, of any base and any length.           *)
(***************************************************************************)
THEOREM TablesAreRight == PartsSpec => []TablesAnswer
<1>1. SymbolInv /\ MapInv /\ SortInv => TablesAnswer
  BY SymbolsResolve, MapFinds, SortAnswers DEF TablesAnswer
<1> QED BY EachPart, SymbolsStart, SymbolsNext, MapStart, MapNext, SortStart, SortNext, <1>1, PTL

(***************************************************************************)
(* The variables of every part keep their types: the delays of the poller  *)
(* within the time that is followed, whatever is drawn, doubled or set.    *)
(***************************************************************************)
THEOREM TypesAreKept == PartsSpec => []TypesOK
<1>1. PartsInit => LinesAreBounded
  BY GroundAssumption DEF PartsInit, R!Init, LinesAreBounded
<1>2. LinesAreBounded /\ RelayInv /\ [R!Next]_relayVars => LinesAreBounded'
  BY LinesNext
<1>3. /\ PollerTypes => TypeOK
      /\ EndpointInv => E!TypeOK
      /\ MonitorInv => S!TypeOK
      /\ RelayInv /\ LinesAreBounded => R!TypeOK
      /\ SymbolInv => N!TypeOK
      /\ MapInv => H!TypeOK
      /\ SortInv => O!TypeOK
  BY RelayTypes, SymbolsResolve, MapFinds, SortTypeOK DEF PollerTypes, EndpointInv, MonitorInv
<1>4. (PollerTypes /\ EndpointInv /\ MonitorInv /\ RelayInv /\ LinesAreBounded /\ SymbolInv
       /\ MapInv /\ SortInv) => TypesOK
  BY <1>3, Zenon DEF TypesOK
<1>5. PartsSpec => PartsInit
  BY PTL DEF PartsSpec
<1>6. PartsSpec => []PollerTypes /\ []EndpointInv /\ []MonitorInv /\ []RelayInv
  BY EachPart, PollerStart, PollerNext, EndpointInit, EndpointNext, MonitorInit, MonitorNext,
     RelayStart, RelayNext, PTL
<1>7. PartsSpec => []SymbolInv /\ []MapInv /\ []SortInv
  BY EachPart, SymbolsStart, SymbolsNext, MapStart, MapNext, SortStart, SortNext, PTL
<1>8. PartsSpec => []LinesAreBounded
  BY EachPart, <1>1, <1>2, <1>5, <1>6, PTL
<1> QED BY <1>4, <1>6, <1>7, <1>8, PTL

=============================================================================
