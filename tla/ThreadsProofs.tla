---------------------------- MODULE ThreadsProofs ----------------------------
(***************************************************************************)
(* Proofs about what threads and processes share, for any number of        *)
(* threads, callbacks, commands and restarts: no wakeup is lost and the    *)
(* callbacks are a FIFO, no command is passed over, and a writer is in     *)
(* alone.  What is proved of the parts holds of MCThreads, which runs one  *)
(* of them at a time.                                                      *)
(***************************************************************************)
EXTENDS MCThreads, FiniteSetTheorems, WellFoundedInduction, TLAPS

(* The deferred callbacks.                                                 *)

(***************************************************************************)
(* The variables keep their types, and a callback is only running when it  *)
(* heads what on_ready took.                                               *)
(***************************************************************************)
Inv ==
    /\ TypeOK
    /\ main = "inCallback" => callbacks # <<>>
    /\ main = "select" => callbacks = <<>>

LEMMA InitInv == Init => Inv
<1> SUFFICES ASSUME Init PROVE Inv
  OBVIOUS
<1>1. ready \in BOOLEAN
  BY DEF Init
<1>2. <<>> \in Seq(Callback)
  OBVIOUS
<1>3. QED
  BY <1>1, <1>2 DEF Init, Inv, TypeOK

LEMMA NextInv == Inv /\ [Next]_vars => Inv'
<1> SUFFICES ASSUME Inv, [Next]_vars PROVE Inv'
  OBVIOUS
<1> USE DEF Inv, TypeOK
<1>1. CASE UNCHANGED vars
  BY <1>1 DEF vars
<1>2. ASSUME NEW t \in Thread \cup {Main}, NEW c \in Callback, Push(t, c) PROVE Inv'
  BY <1>2 DEF Push
<1>3. ASSUME NEW t \in Thread \cup {Main}, Signal(t) PROVE Inv'
  BY <1>3 DEF Signal
<1>4. CASE Take
  BY <1>4 DEF Take
<1>5. CASE Call
  BY <1>5 DEF Call
<1>6. CASE Return
  BY <1>6 DEF Return
<1>7. CASE Clear
  BY <1>7 DEF Clear
<1>8. QED
  BY <1>1, <1>2, <1>3, <1>4, <1>5, <1>6, <1>7 DEF Next

(***************************************************************************)
(* The variables of DeferredCallbackQueue keep their types.                *)
(***************************************************************************)
THEOREM TypeCorrect == Spec => []TypeOK
<1>1. Inv => TypeOK
  BY DEF Inv
<1>2. QED
  BY InitInv, NextInv, <1>1, PTL DEF Spec

-----------------------------------------------------------------------------
(***************************************************************************)
(* on_ready and enqueue never leave a queued callback without a wakeup:    *)
(* Clear resets the eventfd only over an empty queue, and a push is always *)
(* followed by its own signal.                                             *)
(***************************************************************************)
THEOREM WakeupsArrive == Spec => []NoLostWakeup
<1> USE DEF NoLostWakeup
<1>1. Init => NoLostWakeup
  BY DEF Init
<1>2. NoLostWakeup /\ [Next]_vars => NoLostWakeup'
  <2> SUFFICES ASSUME NoLostWakeup, [Next]_vars PROVE NoLostWakeup'
    OBVIOUS
  <2>1. CASE UNCHANGED vars
    BY <2>1 DEF vars
  <2>2. ASSUME NEW t \in Thread \cup {Main}, NEW c \in Callback, Push(t, c) PROVE NoLostWakeup'
    BY <2>2 DEF Push
  <2>3. ASSUME NEW t \in Thread \cup {Main}, Signal(t) PROVE NoLostWakeup'
    BY <2>3 DEF Signal
  <2>4. CASE Take
    BY <2>4 DEF Take
  <2>5. CASE Call
    BY <2>5 DEF Call
  <2>6. CASE Return
    BY <2>6 DEF Return
  <2>7. CASE Clear
    BY <2>7 DEF Clear
  <2>8. QED
    BY <2>1, <2>2, <2>3, <2>4, <2>5, <2>6, <2>7 DEF Next
<1>3. QED
  BY <1>1, <1>2, PTL DEF Spec

-----------------------------------------------------------------------------
(* What the threads see of it is CallbackFifo.                             *)

LEMMA PushOntoRest ==
    ASSUME NEW S, NEW s \in Seq(S), NEW t \in Seq(S), NEW c \in S
    PROVE  s \o Append(t, c) = Append(s \o t, c)
  OBVIOUS

LEMMA HeadAndTail ==
    ASSUME NEW S, NEW s \in Seq(S), NEW t \in Seq(S), s # <<>>
    PROVE  /\ s \o t # <<>>
           /\ Head(s \o t) = Head(s)
           /\ Tail(s \o t) = Tail(s) \o t
  OBVIOUS

(***************************************************************************)
(* enqueue appends to what waits, and returning from a callback takes the  *)
(* oldest; taking the vector, calling, signalling and clearing change      *)
(* nothing a user can see.                                                 *)
(***************************************************************************)
THEOREM IsAFifo == Spec => RunsInOrder
<1> DEFINE w == callbacks \o queue
<1>1. Init => Fifo!Init
  BY DEF Init, Fifo!Init
<1>2. Inv /\ [Next]_vars => [Fifo!Next]_<<w, executed>>
  <2> SUFFICES ASSUME Inv, [Next]_vars PROVE [Fifo!Next]_<<w, executed>>
    OBVIOUS
  <2> USE DEF Inv, TypeOK
  <2>1. CASE UNCHANGED vars
    BY <2>1 DEF vars
  <2>2. ASSUME NEW t \in Thread \cup {Main}, NEW c \in Callback, Push(t, c)
        PROVE  Fifo!Enqueue(c)
    BY <2>2, PushOntoRest DEF Push, Fifo!Enqueue
  <2>3. ASSUME NEW t \in Thread \cup {Main}, Signal(t) PROVE UNCHANGED <<w, executed>>
    BY <2>3 DEF Signal
  <2>4. CASE Take
    <3>1. callbacks = <<>> /\ callbacks' = queue /\ queue' = <<>> /\ executed' = executed
      BY <2>4 DEF Take
    <3>2. w' = w
      BY <3>1
    <3>3. QED
      BY <3>1, <3>2
  <2>5. CASE Call
    BY <2>5 DEF Call
  <2>6. CASE Return
    BY <2>6, HeadAndTail DEF Return, Fifo!Next, Fifo!Finish
  <2>7. CASE Clear
    BY <2>7 DEF Clear
  <2>8. QED
    BY <2>1, <2>2, <2>3, <2>4, <2>5, <2>6, <2>7 DEF Next, Fifo!Next
<1>3. QED
  BY <1>1, <1>2, InitInv, NextInv, PTL DEF Spec, RunsInOrder, Fifo!Spec

-----------------------------------------------------------------------------
(* The command link.                                                       *)

\* The order of the naturals is a well-founded relation.
LEMMA LessIsWellFounded ==
    \E R : IsWellFoundedOn(R, Nat) /\ \A i, j \in Nat : i < j => <<i, j>> \in R
<1> WITNESS OpToRel(<, Nat)
<1>1. \A i, j \in Nat : i < j => <<i, j>> \in OpToRel(<, Nat)
  BY DEF OpToRel
<1> QED BY <1>1, NatLessThanWellFounded

\* Numbers up to a bound have a largest one: the one furthest below the bound is least.
LEMMA HasMax ==
    ASSUME NEW n \in Nat, NEW S \in SUBSET (0..n), S # {}
    PROVE  \E x \in S : \A y \in S : x >= y
<1> DEFINE T == {n - x : x \in S}
<1>1. T \in SUBSET Nat /\ T # {}
  <2>1. \A x \in S : n - x \in Nat
    OBVIOUS
  <2>2. PICK x \in S : TRUE
    OBVIOUS
  <2>3. n - x \in T
    OBVIOUS
  <2> QED BY <2>1, <2>3
<1>2. PICK R : IsWellFoundedOn(R, Nat) /\ \A i, j \in Nat : i < j => <<i, j>> \in R
  BY LessIsWellFounded
<1>3. \E i \in T : \A j \in T : ~(<<j, i>> \in R)
  <2> HIDE DEF T
  <2>1. T \subseteq Nat
    BY <1>1
  <2>2. IsWellFoundedOn(R, Nat)
    BY <1>2
  <2>3. T # {}
    BY <1>1
  <2> QED BY <2>1, <2>2, <2>3, WFMin
<1>4. PICK x \in S : \A j \in T : ~(<<j, n - x>> \in R)
  BY <1>3
<1>5. \A y \in S : ~(<<n - y, n - x>> \in R)
  BY <1>4
<1>6. \A y \in S : n - y \in Nat /\ n - x \in Nat
  OBVIOUS
<1>7. \A y \in S : ~(n - y < n - x)
  BY <1>2, <1>5, <1>6
<1> QED BY <1>7

LEMMA LastIsInIt ==
    ASSUME NEW S \in SUBSET K!Command
    PROVE  K!Last(S) \in S \cup {0} /\ K!Last(S) \in K!Number
<1> DEFINE T == S \cup {0}
<1>1. T \in SUBSET (0..LastCommand) /\ T # {}
  BY BoundsAssumption DEF K!Command
<1>2. \E x \in T : \A y \in T : x >= y
  <2> HIDE DEF T
  <2> QED BY <1>1, HasMax, BoundsAssumption
<1>3. K!Last(S) \in T
  BY <1>2 DEF K!Last, K!Max
<1> QED BY <1>1, <1>3 DEF K!Number

(***************************************************************************)
(* The invariant.  Whatever is on its way, settled or failed, and what the *)
(* ground hands out, comes after settled commands only; the ground counts  *)
(* as done what is settled; and every number the client holds, however     *)
(* old, is one the vehicle settled that way or the sender failed.          *)
(***************************************************************************)
AfterSettled(n) == 1..(n - 1) \subseteq K!Settled

Orderly ==
    /\ \A n \in link \cup accepted \cup rejected \cup failed : AfterSettled(n)
    /\ AfterSettled(call.seq)
    /\ 1..done \subseteq K!Settled

NumbersAreTrue ==
    /\ {feedback.acc, pumped.acc, number.acc, call.req.acc} \subseteq accepted \cup {0}
    /\ {feedback.rej, pumped.rej, number.rej} \subseteq rejected \cup {0}
    /\ call.req.rej \in rejected \cup failed \cup {0}
    /\ sendFailed \in failed \cup {0}

LinkInv == K!TypeOK /\ Orderly /\ NumbersAreTrue

LEMMA LinkInitInv == K!Init => LinkInv
<1> SUFFICES ASSUME K!Init PROVE LinkInv
  OBVIOUS
<1> USE BoundsAssumption DEF K!Init, K!InitClient, K!None, K!NoCall
<1>1. K!TypeOK
  <2>1. 0 \in K!Number
    BY DEF K!Number
  <2>2. K!None \in K!Numbers
    BY <2>1 DEF K!Numbers
  <2>3. call \in [at : {"none", "flying", "served"}, req : K!Numbers, seq : K!Number]
    BY <2>1, <2>2
  <2>4. {feedback, pumped, number, asked} \subseteq K!Numbers
    BY <2>2
  <2>5. call.at = "none"
    OBVIOUS
  <2>6. restarts \in 0..MaxRestarts
    OBVIOUS
  <2>7. enabled \in BOOLEAN
    OBVIOUS
  <2> QED BY <2>1, <2>3, <2>4, <2>5, <2>6, <2>7 DEF K!TypeOK
<1>2. Orderly
  BY DEF Orderly, AfterSettled
<1>3. NumbersAreTrue
  BY DEF NumbersAreTrue
<1> QED BY <1>1, <1>2, <1>3 DEF LinkInv

\* The request a call is made with: of the rejected and the failed the later one.
LEMMA RequestIsTrue ==
    ASSUME LinkInv
    PROVE  /\ K!Request \in K!Numbers
           /\ K!Request.acc = number.acc
           /\ K!Request.rej \in rejected \cup failed \cup {0}
<1>1. number \in K!Numbers /\ sendFailed \in K!Number
  BY DEF LinkInv, K!TypeOK
<1>2. K!Larger(number.rej, sendFailed) \in {number.rej, sendFailed}
  BY DEF K!Larger
<1>3. K!Request = [acc |-> number.acc, rej |-> K!Larger(number.rej, sendFailed)]
  BY <1>1 DEF K!Request, K!Numbers
<1> QED BY <1>1, <1>2, <1>3 DEF LinkInv, NumbersAreTrue, K!Numbers

LEMMA NextNumber ==
    ASSUME NEW m \in K!Number, NEW n \in K!Number, m < n
    PROVE  m + 1 \in K!Number
  BY BoundsAssumption DEF K!Number

LEMMA LinkTypeNext == K!TypeOK /\ [K!Next]_linkVars => K!TypeOK'
<1> SUFFICES ASSUME K!TypeOK, [K!Next]_linkVars PROVE K!TypeOK'
  OBVIOUS
<1> USE BoundsAssumption DEF K!TypeOK, K!ground, K!client, K!vehicle
<1>1. 0 \in K!Number /\ K!None \in K!Numbers
  BY DEF K!Number, K!None, K!Numbers
<1>2. K!NoCall \in [at : {"none", "flying", "served"}, req : K!Numbers, seq : K!Number]
  BY <1>1 DEF K!NoCall
<1>3. CASE K!Pump
  BY <1>3 DEF K!Pump
<1>4. CASE K!Poll
  <2>1. K!Request \in K!Numbers
    <3>1. K!Larger(number.rej, sendFailed) \in K!Number
      BY DEF K!Larger, K!Numbers
    <3> QED BY <3>1 DEF K!Request, K!Numbers
  <2>2. call' \in [at : {"none", "flying", "served"}, req : K!Numbers, seq : K!Number]
    BY <1>1, <1>4, <2>1 DEF K!Poll
  <2> QED BY <1>4, <2>2 DEF K!Poll
<1>5. CASE K!OnPumpResponse
  <2>1. call.seq > 0 => call.seq \in K!Command
    BY DEF K!Number, K!Command
  <2>2. sendFailed' \in K!Number /\ {link', failed'} \subseteq SUBSET K!Command
    BY <1>5, <2>1 DEF K!OnPumpResponse, K!Send, K!Number, K!Command
  <2>3. call'.at = "none"
    BY <1>5 DEF K!OnPumpResponse, K!NoCall
  <2> QED BY <1>2, <1>5, <2>2, <2>3 DEF K!OnPumpResponse
<1>6. CASE K!CallFails
  <2>1. call'.at = "none"
    BY <1>6 DEF K!CallFails, K!NoCall
  <2> QED BY <1>2, <1>6, <2>1 DEF K!CallFails
<1>7. CASE K!Restart
  <2>1. call'.at = "none"
    BY <1>7 DEF K!Restart, K!NoCall
  <2>2. restarts' \in 0..MaxRestarts
    BY <1>7 DEF K!Restart
  <2> QED BY <1>1, <1>2, <1>7, <2>1, <2>2 DEF K!Restart
<1>8. CASE K!Queue
  BY <1>8 DEF K!Queue, K!Number
<1>9. CASE K!Serve
  <2>1. done' \in K!Number
    BY <1>9 DEF K!Serve, K!Larger, K!Numbers
  <2>2. call' = [at |-> "served", req |-> call.req,
                 seq |-> IF done' < queued THEN done' + 1 ELSE 0]
    BY <1>9 DEF K!Serve
  <2>3. (IF done' < queued THEN done' + 1 ELSE 0) \in K!Number
    <3>1. queued \in K!Number /\ 0 \in K!Number
      BY DEF K!Number
    <3>2. CASE done' < queued
      <4>1. done' + 1 \in K!Number
        BY <2>1, <3>1, <3>2, NextNumber
      <4> QED BY <3>2, <4>1
    <3>3. CASE ~(done' < queued)
      BY <3>1, <3>3
    <3> QED BY <3>2, <3>3
  <2>4. call' \in [at : {"none", "flying", "served"}, req : K!Numbers, seq : K!Number]
    BY <2>2, <2>3
  <2>5. enabled'
    BY <1>9 DEF K!Serve
  <2> QED BY <1>9, <2>1, <2>4, <2>5 DEF K!Serve
<1>10. ASSUME NEW n \in K!Command, K!Lose(n) PROVE K!TypeOK'
  BY <1>10 DEF K!Lose
<1>11. ASSUME NEW n \in K!Command, K!Settle(n) PROVE K!TypeOK'
  BY <1>11 DEF K!Settle
<1>12. CASE K!Share
  <2>1. feedback' \in K!Numbers
    BY <1>12, LastIsInIt DEF K!Share, K!Numbers
  <2> QED BY <1>12, <2>1 DEF K!Share
<1>13. CASE UNCHANGED linkVars
  BY <1>13 DEF linkVars
<1> QED BY <1>3, <1>4, <1>5, <1>6, <1>7, <1>8, <1>9, <1>10, <1>11, <1>12, <1>13 DEF K!Next

\* Whatever is settled stays settled, so that what came after it does.
LEMMA SettledGrows ==
    ASSUME LinkInv, accepted \subseteq accepted', rejected \subseteq rejected',
           failed \subseteq failed', NEW n, AfterSettled(n)
    PROVE  AfterSettled(n)'
  BY DEF AfterSettled, K!Settled

LEMMA LinkNextInv == LinkInv /\ [K!Next]_linkVars => LinkInv'
<1> SUFFICES ASSUME LinkInv, [K!Next]_linkVars PROVE LinkInv'
  OBVIOUS
<1>1. K!TypeOK /\ K!TypeOK'
  BY LinkTypeNext DEF LinkInv
<1> USE DEF K!ground, K!client, K!vehicle, Orderly, NumbersAreTrue, LinkInv
<1>2. CASE K!Pump
  BY <1>1, <1>2 DEF K!Pump, AfterSettled, K!Settled
<1>3. CASE K!Poll
  <2>1. call'.req = K!Request /\ call'.seq = 0
    BY <1>3 DEF K!Poll
  <2>2. Orderly'
    BY <1>3, <2>1 DEF K!Poll, AfterSettled, K!Settled
  <2>3. NumbersAreTrue'
    BY <1>3, <2>1, RequestIsTrue DEF K!Poll
  <2> QED BY <1>1, <2>2, <2>3
<1>4. CASE K!OnPumpResponse
  <2>1. /\ call'.req.acc = 0 /\ call'.req.rej = 0 /\ call'.seq = 0
        /\ UNCHANGED <<accepted, rejected, feedback, pumped, number, done>>
    BY <1>4 DEF K!OnPumpResponse, K!NoCall, K!None
  <2>2. /\ failed \subseteq failed'
        /\ link' \cup failed' \subseteq link \cup failed \cup {call.seq}
        /\ sendFailed' = sendFailed \/ sendFailed' \in failed'
    BY <1>4 DEF K!OnPumpResponse, K!Send
  <2>3. \A n \in link' \cup accepted' \cup rejected' \cup failed' : AfterSettled(n)
    BY <2>1, <2>2
  <2>4. Orderly'
    <3>1. \A n \in link' \cup accepted' \cup rejected' \cup failed' : AfterSettled(n)'
      BY <2>1, <2>2, <2>3 DEF AfterSettled, K!Settled
    <3>2. AfterSettled(call.seq)'
      BY <2>1 DEF AfterSettled
    <3> QED BY <2>1, <2>2, <3>1, <3>2 DEF K!Settled
  <2>5. NumbersAreTrue'
    BY <2>1, <2>2
  <2> QED BY <1>1, <2>4, <2>5
<1>5. CASE K!CallFails
  BY <1>1, <1>5 DEF K!CallFails, K!NoCall, K!None, AfterSettled, K!Settled
<1>6. CASE K!Restart
  BY <1>1, <1>6 DEF K!Restart, K!NoCall, K!None, AfterSettled, K!Settled
<1>7. CASE K!Queue
  BY <1>1, <1>7 DEF K!Queue, AfterSettled, K!Settled
<1>8. CASE K!Serve
  <2>1. /\ done \in Nat /\ call.req.acc \in Nat /\ call.req.rej \in Nat
        /\ done' = K!Larger(done, K!Larger(call.req.acc, call.req.rej))
        /\ UNCHANGED K!Settled
    BY <1>1, <1>8 DEF K!Serve, K!TypeOK, K!Number, K!Numbers, K!Settled
  <2>2. \A n \in accepted \cup rejected \cup failed \cup {0} : n \in Nat => 1..n \subseteq K!Settled
    BY DEF AfterSettled, K!Settled
  <2>3. 1..done' \subseteq K!Settled
    <3>1. done' \in {done, call.req.acc, call.req.rej}
      BY <2>1 DEF K!Larger
    <3> QED BY <2>1, <2>2, <3>1
  <2>4. call'.seq \in {0, done' + 1} /\ call'.req = call.req
    BY <1>1, <1>8 DEF K!Serve, K!TypeOK
  <2>5. AfterSettled(call.seq)'
    <3>1. done' \in Nat
      BY <2>1 DEF K!Larger
    <3> QED BY <2>1, <2>3, <2>4, <3>1 DEF AfterSettled
  <2> QED BY <1>1, <1>8, <2>1, <2>3, <2>4, <2>5 DEF K!Serve, AfterSettled, K!Settled
<1>9. ASSUME NEW n \in K!Command, K!Lose(n) PROVE LinkInv'
  BY <1>1, <1>9 DEF K!Lose, AfterSettled, K!Settled
<1>10. ASSUME NEW n \in K!Command, K!Settle(n) PROVE LinkInv'
  BY <1>1, <1>10 DEF K!Settle, AfterSettled, K!Settled
<1>11. CASE K!Share
  BY <1>1, <1>11, LastIsInIt DEF K!Share, K!TypeOK, AfterSettled, K!Settled
<1>12. CASE UNCHANGED linkVars
  BY <1>12 DEF linkVars, K!TypeOK, AfterSettled, K!Settled
<1> QED BY <1>2, <1>3, <1>4, <1>5, <1>6, <1>7, <1>8, <1>9, <1>10, <1>11, <1>12 DEF K!Next

(***************************************************************************)
(* CommandPump, CommandQueueClient and CommandSender: what is on its way   *)
(* or settled comes after settled commands, and requests report the truth, *)
(* across lost and late answers, resends and restarts.                     *)
(***************************************************************************)
LEMMA LinkIsOrderly == K!Spec => [](K!TypeOK /\ K!NonePassedOver /\ K!ReportsAreTrue)
<1>1. [K!Next]_(K!vars) => [K!Next]_linkVars
  BY DEF K!vars, K!ground, K!client, K!vehicle, linkVars
<1>2. LinkInv => K!TypeOK /\ K!NonePassedOver /\ K!ReportsAreTrue
  BY DEF LinkInv, Orderly, AfterSettled, NumbersAreTrue, K!NonePassedOver, K!ReportsAreTrue
<1>3. LinkInv /\ [K!Next]_(K!vars) => LinkInv'
  BY <1>1, LinkNextInv
<1> QED BY LinkInitInv, <1>2, <1>3, PTL DEF K!Spec

-----------------------------------------------------------------------------
(* The lock.                                                               *)

(***************************************************************************)
(* The invariant.  The word counts the readers that are in and says        *)
(* whether a writer is; a writer is in with no reader and with no other    *)
(* writer; and whoever is about to exchange the word has seen one that     *)
(* lets it in, which is what the exchange relies on.                       *)
(***************************************************************************)
ReadersAreCounted == word.readers = Cardinality(L!In("read"))
WriterIsTold == word.writer <=> L!In("write") # {}
WriterIsAlone ==
    /\ word.writer => word.readers = 0
    /\ \A t, u \in L!In("write") : t = u
SawItTakable == \A t \in LockThread : pc[t] = "taking" => L!Takable(mode[t], seen[t])

LockInv == L!TypeOK /\ ReadersAreCounted /\ WriterIsTold /\ WriterIsAlone /\ SawItTakable

\* The sets of those in, and their number.
LEMMA HoldersAreFinite ==
  ASSUME NEW m
  PROVE  IsFiniteSet(L!In(m)) /\ Cardinality(L!In(m)) \in Nat
<1>1. L!In(m) \in SUBSET LockThread
  BY DEF L!In
<1>2. IsFiniteSet(L!In(m))
  BY <1>1, FS_Subset, BoundsAssumption
<1> QED
  BY <1>2, FS_CardinalityType

\* The invariant implies what the callers of the lock rely on.
LEMMA LockInvExcludes == LockInv => L!MutualExclusion
<1> SUFFICES ASSUME LockInv, NEW t \in LockThread, NEW u \in LockThread,
                    pc[t] = "in", pc[u] = "in", mode[t] = "write"
             PROVE  t = u
  BY DEF L!MutualExclusion
<1>1. t \in L!In("write") /\ word.writer
  BY DEF L!In, LockInv, WriterIsTold
<1>2. L!In("read") = {}
  <2>1. Cardinality(L!In("read")) = 0
    BY <1>1 DEF LockInv, ReadersAreCounted, WriterIsAlone
  <2> QED
    BY <2>1, HoldersAreFinite, FS_EmptySet
<1>3. mode[u] = "write"
  BY <1>2 DEF L!In, LockInv, L!TypeOK
<1> QED
  BY <1>1, <1>3 DEF L!In, LockInv, WriterIsAlone

LEMMA LockInitInv == L!Init => LockInv
<1> SUFFICES ASSUME L!Init PROVE LockInv
  OBVIOUS
<1>1. L!TypeOK
  BY BoundsAssumption DEF L!Init, L!TypeOK, L!Free, L!Word
<1>2. L!In("read") = {} /\ L!In("write") = {}
  BY DEF L!Init, L!In
<1>3. ReadersAreCounted /\ WriterIsTold /\ WriterIsAlone
  BY <1>2, FS_EmptySet DEF L!Init, L!Free, ReadersAreCounted, WriterIsTold, WriterIsAlone
<1>4. SawItTakable
  BY DEF L!Init, SawItTakable
<1> QED
  BY <1>1, <1>3, <1>4 DEF LockInv

-----------------------------------------------------------------------------
(***************************************************************************)
(* The two ways the sets of those in change, once for every action.        *)
(***************************************************************************)

\* A thread takes the lock by a word that lets it in.
LEMMA EnteringCounts ==
  ASSUME LockInv, NEW t \in LockThread, NEW m \in {"write", "read"},
         pc[t] # "in", L!Takable(m, word),
         word' = L!Taken(m, word),
         pc' = [pc EXCEPT ![t] = "in"],
         mode' = [mode EXCEPT ![t] = m]
  PROVE  /\ word' \in L!Word
         /\ ReadersAreCounted' /\ WriterIsTold' /\ WriterIsAlone'
<1> USE BoundsAssumption
<1>1. word \in L!Word /\ pc \in [LockThread -> {"out", "loading", "taking", "raising", "in"}]
      /\ mode \in [LockThread -> {"write", "read"}]
  BY DEF LockInv, L!TypeOK
<1>2. ~word.writer /\ L!In("write") = {} /\ t \notin L!In("read") /\ t \notin L!In("write")
  BY DEF LockInv, WriterIsTold, L!Takable, L!Unheld, L!In
<1>3. word' \in L!Word
  <2>1. CASE m = "write"
    <3>1. word' = [readers |-> 0, writer |-> TRUE, spin |-> FALSE, prio |-> 0]
      BY <2>1 DEF L!Taken, L!Free
    <3>2. 0 \in 0..MaxReaders /\ 0 \in 0..MaxPrio
      OBVIOUS
    <3> QED
      BY <3>1, <3>2 DEF L!Word
  <2>2. CASE m = "read"
    <3>1. word.readers + 1 \in 0..MaxReaders /\ 0 \in 0..MaxPrio
      BY <1>1, <2>2 DEF L!Takable, L!Word
    <3> QED
      BY <1>1, <2>2, <3>1 DEF L!Taken, L!Word
  <2> QED
    BY <2>1, <2>2
<1>4. IsFiniteSet(L!In("read")) /\ Cardinality(L!In("read")) \in Nat
  BY HoldersAreFinite
<1>5. CASE m = "write"
  <2>1. word.readers = 0 /\ L!In("read") = {}
    <3>1. word.readers = 0
      BY <1>5 DEF L!Takable, L!Unheld
    <3> QED
      BY <3>1, <1>4, FS_EmptySet DEF LockInv, ReadersAreCounted
  <2>2. word'.writer /\ word'.readers = 0
    BY <1>5 DEF L!Taken, L!Free
  <2>3. L!In("write")' = {t} /\ L!In("read")' = {}
    BY <1>1, <1>2, <1>5, <2>1 DEF L!In
  <2> QED
    BY <1>3, <2>2, <2>3, FS_EmptySet DEF ReadersAreCounted, WriterIsTold, WriterIsAlone
<1>6. CASE m = "read"
  <2>1. word'.writer = word.writer /\ word'.readers = word.readers + 1
    BY <1>1, <1>6 DEF L!Taken, L!Word
  <2>2. L!In("write")' = {} /\ L!In("read")' = L!In("read") \cup {t}
    BY <1>1, <1>2, <1>6 DEF L!In
  <2>3. Cardinality(L!In("read") \cup {t}) = Cardinality(L!In("read")) + 1
    BY <1>2, <1>4, FS_AddElement
  <2> QED
    BY <1>2, <1>3, <2>1, <2>2, <2>3 DEF LockInv, ReadersAreCounted, WriterIsTold, WriterIsAlone
<1> QED
  BY <1>5, <1>6

\* Nobody enters or leaves, and the word keeps its holders.
LEMMA StayingCounts ==
  ASSUME LockInv, L!In("read")' = L!In("read"), L!In("write")' = L!In("write"),
         word'.readers = word.readers, word'.writer = word.writer
  PROVE  ReadersAreCounted' /\ WriterIsTold' /\ WriterIsAlone'
  BY DEF LockInv, ReadersAreCounted, WriterIsTold, WriterIsAlone

-----------------------------------------------------------------------------
(* Every action keeps the invariant.                                       *)

LEMMA BeginKeepsLock ==
  ASSUME LockInv, NEW t \in LockThread, NEW m \in {"write", "read"}, L!Begin(t, m)
  PROVE  LockInv'
<1>1. L!TypeOK'
  BY DEF LockInv, L!TypeOK, L!Begin
<1>2. L!In("read")' = L!In("read") /\ L!In("write")' = L!In("write")
  BY DEF LockInv, L!TypeOK, L!Begin, L!In
<1>3. ReadersAreCounted' /\ WriterIsTold' /\ WriterIsAlone'
  BY <1>2, StayingCounts DEF L!Begin
<1>4. SawItTakable'
  BY DEF LockInv, L!TypeOK, L!Begin, SawItTakable
<1> QED
  BY <1>1, <1>3, <1>4 DEF LockInv

LEMMA TryLockKeepsLock ==
  ASSUME LockInv, NEW t \in LockThread, NEW m \in {"write", "read"}, L!TryLock(t, m)
  PROVE  LockInv'
<1>1. word' \in L!Word /\ ReadersAreCounted' /\ WriterIsTold' /\ WriterIsAlone'
  BY EnteringCounts DEF L!TryLock
<1>2. L!TypeOK'
  BY <1>1 DEF LockInv, L!TypeOK, L!TryLock
<1>3. SawItTakable'
  BY DEF LockInv, L!TypeOK, L!TryLock, SawItTakable
<1> QED
  BY <1>1, <1>2, <1>3 DEF LockInv

LEMMA LoadKeepsLock ==
  ASSUME LockInv, NEW t \in LockThread, L!Load(t)
  PROVE  LockInv'
<1> USE BoundsAssumption
<1>1. L!Free \in L!Word /\ word \in L!Word
  BY DEF LockInv, L!TypeOK, L!Free, L!Word
<1>2. L!TypeOK'
  BY <1>1 DEF LockInv, L!TypeOK, L!Load
<1>3. L!In("read")' = L!In("read") /\ L!In("write")' = L!In("write")
  BY DEF LockInv, L!TypeOK, L!Load, L!In
<1>4. ReadersAreCounted' /\ WriterIsTold' /\ WriterIsAlone'
  BY <1>3, StayingCounts DEF L!Load
<1>5. SawItTakable'
  BY DEF LockInv, L!TypeOK, L!Load, SawItTakable
<1> QED
  BY <1>2, <1>4, <1>5 DEF LockInv

LEMMA TakeKeepsLock ==
  ASSUME LockInv, NEW t \in LockThread, L!Take(t)
  PROVE  LockInv'
<1> USE BoundsAssumption
<1>1. L!Free \in L!Word
  BY DEF L!Free, L!Word
<1>2. SawItTakable'
  BY DEF LockInv, L!TypeOK, L!Take, SawItTakable
<1>3. CASE word = seen[t]
  <2>1. mode[t] \in {"write", "read"} /\ L!Takable(mode[t], word) /\ pc[t] # "in"
    BY <1>3 DEF LockInv, L!TypeOK, L!Take, SawItTakable
  <2>2. mode' = [mode EXCEPT ![t] = mode[t]]
    BY DEF LockInv, L!TypeOK, L!Take
  <2>3. word' \in L!Word /\ ReadersAreCounted' /\ WriterIsTold' /\ WriterIsAlone'
    BY <1>3, <2>1, <2>2, EnteringCounts DEF L!Take
  <2>4. L!TypeOK'
    BY <1>1, <1>3, <2>3 DEF LockInv, L!TypeOK, L!Take
  <2> QED
    BY <1>2, <2>3, <2>4 DEF LockInv
<1>4. CASE word # seen[t]
  <2>1. L!TypeOK'
    BY <1>1, <1>4 DEF LockInv, L!TypeOK, L!Take
  <2>2. L!In("read")' = L!In("read") /\ L!In("write")' = L!In("write")
    BY <1>4 DEF LockInv, L!TypeOK, L!Take, L!In
  <2>3. ReadersAreCounted' /\ WriterIsTold' /\ WriterIsAlone'
    BY <1>4, <2>2, StayingCounts DEF L!Take
  <2> QED
    BY <1>2, <2>1, <2>3 DEF LockInv
<1> QED
  BY <1>3, <1>4

LEMMA FailKeepsLock ==
  ASSUME LockInv, NEW t \in LockThread, L!FailSpuriously(t)
  PROVE  LockInv'
<1>1. L!TypeOK'
  BY BoundsAssumption DEF LockInv, L!TypeOK, L!FailSpuriously, L!Free, L!Word
<1>2. L!In("read")' = L!In("read") /\ L!In("write")' = L!In("write")
  BY DEF LockInv, L!TypeOK, L!FailSpuriously, L!In
<1>3. ReadersAreCounted' /\ WriterIsTold' /\ WriterIsAlone'
  BY <1>2, StayingCounts DEF L!FailSpuriously
<1>4. SawItTakable'
  BY DEF LockInv, L!TypeOK, L!FailSpuriously, SawItTakable
<1> QED
  BY <1>1, <1>3, <1>4 DEF LockInv

LEMMA RaiseKeepsLock ==
  ASSUME LockInv, NEW t \in LockThread, NEW fails \in BOOLEAN, L!Raise(t, fails)
  PROVE  LockInv'
<1> USE BoundsAssumption
<1>1. word' \in L!Word /\ word'.readers = word.readers /\ word'.writer = word.writer
  <2>1. prio[t] - 1 \in 0..MaxPrio
    BY DEF LockInv, L!TypeOK
  <2> QED
    BY <2>1 DEF LockInv, L!TypeOK, L!Raise, L!Word
<1>2. L!TypeOK'
  BY <1>1 DEF LockInv, L!TypeOK, L!Raise, L!Free, L!Word
<1>3. L!In("read")' = L!In("read") /\ L!In("write")' = L!In("write")
  BY DEF LockInv, L!TypeOK, L!Raise, L!In
<1>4. ReadersAreCounted' /\ WriterIsTold' /\ WriterIsAlone'
  BY <1>1, <1>3, StayingCounts
<1>5. SawItTakable'
  BY DEF LockInv, L!TypeOK, L!Raise, SawItTakable
<1> QED
  BY <1>2, <1>4, <1>5 DEF LockInv

LEMMA UnlockKeepsLock ==
  ASSUME LockInv, NEW t \in LockThread, L!Unlock(t)
  PROVE  LockInv'
<1> USE BoundsAssumption
<1>1. word \in L!Word /\ pc[t] = "in" /\ mode[t] \in {"write", "read"}
  BY DEF LockInv, L!TypeOK, L!Unlock
<1>2. SawItTakable'
  BY DEF LockInv, L!TypeOK, L!Unlock, SawItTakable
<1>3. IsFiniteSet(L!In("read")) /\ Cardinality(L!In("read")) \in Nat
  BY HoldersAreFinite
<1>4. CASE mode[t] = "write"
  <2>1. t \in L!In("write") /\ L!In("write") = {t} /\ word.writer
    BY <1>1, <1>4 DEF LockInv, L!In, WriterIsTold, WriterIsAlone
  <2>2. word' \in L!Word /\ word'.readers = word.readers /\ ~word'.writer
    BY <1>1, <1>4 DEF L!Unlock, L!Word
  <2>3. L!In("read")' = L!In("read") /\ L!In("write")' = {}
    BY <1>4, <2>1 DEF LockInv, L!TypeOK, L!Unlock, L!In
  <2>4. ReadersAreCounted' /\ WriterIsTold' /\ WriterIsAlone'
    <3>1. ReadersAreCounted'
      BY <2>2, <2>3 DEF LockInv, ReadersAreCounted
    <3>2. WriterIsTold' /\ WriterIsAlone'
      BY <2>2, <2>3 DEF WriterIsTold, WriterIsAlone
    <3> QED
      BY <3>1, <3>2
  <2>5. L!TypeOK'
    BY <2>2 DEF LockInv, L!TypeOK, L!Unlock
  <2> QED
    BY <1>2, <2>4, <2>5 DEF LockInv
<1>5. CASE mode[t] = "read"
  <2>1. t \in L!In("read") /\ Cardinality(L!In("read")) # 0
    BY <1>1, <1>3, <1>5, FS_EmptySet DEF L!In
  <2>2. word.readers \in 1..MaxReaders /\ ~word.writer
    BY <1>1, <1>3, <2>1 DEF LockInv, ReadersAreCounted, WriterIsAlone, L!Word
  <2>3. word' \in L!Word /\ word'.readers = word.readers - 1 /\ ~word'.writer
    BY <1>1, <1>5, <2>2 DEF L!Unlock, L!Word
  <2>4. L!In("read")' = L!In("read") \ {t} /\ L!In("write")' = L!In("write")
    BY <1>5 DEF LockInv, L!TypeOK, L!Unlock, L!In
  <2>5. Cardinality(L!In("read") \ {t}) = Cardinality(L!In("read")) - 1
    BY <1>3, <2>1, FS_RemoveElement
  <2>6. ReadersAreCounted' /\ WriterIsTold' /\ WriterIsAlone'
    <3>1. ReadersAreCounted'
      BY <2>3, <2>4, <2>5 DEF LockInv, ReadersAreCounted
    <3>2. L!In("write") = {}
      BY <2>2 DEF LockInv, WriterIsTold
    <3>3. WriterIsTold' /\ WriterIsAlone'
      BY <2>3, <2>4, <3>2 DEF WriterIsTold, WriterIsAlone
    <3> QED
      BY <3>1, <3>3
  <2>7. L!TypeOK'
    BY <2>3 DEF LockInv, L!TypeOK, L!Unlock
  <2> QED
    BY <1>2, <2>6, <2>7 DEF LockInv
<1> QED
  BY <1>1, <1>4, <1>5

LEMMA LockNextInv == LockInv /\ [L!Next]_(L!vars) => LockInv'
<1> SUFFICES ASSUME LockInv, [L!Next]_(L!vars) PROVE LockInv'
  OBVIOUS
<1>1. CASE UNCHANGED L!vars
  BY <1>1 DEF LockInv, L!TypeOK, ReadersAreCounted, WriterIsTold, WriterIsAlone, SawItTakable,
              L!In, L!vars
<1>2. CASE L!Next
  <2>1. PICK t \in LockThread :
          \/ \E m \in {"write", "read"} : L!Begin(t, m) \/ L!TryLock(t, m)
          \/ L!Load(t) \/ L!Take(t) \/ L!FailSpuriously(t) \/ L!Unlock(t)
          \/ \E fails \in BOOLEAN : L!Raise(t, fails)
    BY <1>2 DEF L!Next
  <2> QED
    BY <2>1, BeginKeepsLock, TryLockKeepsLock, LoadKeepsLock, TakeKeepsLock, FailKeepsLock,
       UnlockKeepsLock, RaiseKeepsLock
<1> QED
  BY <1>1, <1>2

-----------------------------------------------------------------------------
(* The parts together.                                                     *)

LEMMA LockExcludes == L!Spec => [](L!TypeOK /\ L!MutualExclusion)
<1>1. LockInv => L!TypeOK /\ L!MutualExclusion
  BY LockInvExcludes DEF LockInv
<1> QED BY LockInitInv, LockNextInv, <1>1, PTL DEF L!Spec

\* A step of one part leaves the others as they are, so that each goes by its specification.
LEMMA EachPart == PartsSpec => Spec /\ K!Spec /\ L!Spec
<1>1. PartsInit => Init /\ K!Init /\ L!Init
  BY DEF PartsInit
<1>2. [PartsNext]_<<part, queueVars, linkVars, lockVars>> => [Next]_vars
  BY DEF PartsNext, queueVars
<1>3. [PartsNext]_<<part, queueVars, linkVars, lockVars>> => [K!Next]_(K!vars)
  BY DEF PartsNext, linkVars, K!vars, K!ground, K!client, K!vehicle
<1>4. [PartsNext]_<<part, queueVars, linkVars, lockVars>> => [L!Next]_(L!vars)
  BY DEF PartsNext, lockVars, L!vars
<1> QED BY <1>1, <1>2, <1>3, <1>4, PTL DEF PartsSpec, Spec, K!Spec, L!Spec

(***************************************************************************)
(* The queue, the command link and the lock keep their types: no sequence  *)
(* number leaves its range, no count of readers runs into the writer's bit.*)
(***************************************************************************)
THEOREM TypesCorrect == PartsSpec => []TypesOK
BY EachPart, TypeCorrect, LinkIsOrderly, LockExcludes, PTL DEF TypesOK

(***************************************************************************)
(* CommandQueueClient's requests and the ground's answers: no command is   *)
(* passed over on its way to the vehicle, and what is reported is true.    *)
(***************************************************************************)
THEOREM CommandsAreInOrder == PartsSpec => []CommandsKeepOrder
BY EachPart, LinkIsOrderly, PTL DEF CommandsKeepOrder

(***************************************************************************)
(* WriteLock, ReadLock and the Try functions: a writer is in alone.        *)
(***************************************************************************)
THEOREM WritersAreAlone == PartsSpec => []MutualExclusion
BY EachPart, LockExcludes, PTL DEF MutualExclusion
=============================================================================
