------------------------------ MODULE GrpcPoller ------------------------------
(***************************************************************************)
(* GrpcPoller with the GrpcClient it owns: one remote call at a time,      *)
(* repeated every polling period, after a failure with exponential         *)
(* backoff, after poll_asap at once.  gRPC ends a call at its deadline at  *)
(* the latest; the client's worker thread hands the ended call to the      *)
(* DeferredCallbackQueue, whose FIFO promise CallbackFifo states, and the  *)
(* main thread completes it from there.                                    *)
(*                                                                         *)
(* Times are relative to now, in ticks: what lies further back than Cap is *)
(* all the same, and so is the time 0 that poll_asap stores, for the       *)
(* control time is far larger than any delay.  Random delays are any delay *)
(* of their range.                                                         *)
(***************************************************************************)
EXTENDS Integers, FiniteSetsExt

CONSTANTS
    Policies,        \* values of grpc_polling_period, min_ and max_retry_backoff
    Jitter,          \* polling_period_jitter in ticks
    MinDelay,        \* min_delay_between_successful_calls_nanos
    Timeout,         \* grpc_timeout
    ReenableDelay,   \* reenable_polling_delay
    FromLastSuccess, \* reenable_polling_delay_from_last_success
    RandomReenable,  \* randomize_reenable_polling_delay
    RandomBackoff,   \* randomize_retry_backoff
    StartEnabled,    \* start_enabled
    RetryCap,        \* failures from which on every backoff is the longest
    Cap              \* times are followed up to this

Policy == [period : Nat, minBackoff : Nat \ {0}, maxBackoff : Nat \ {0}]

ASSUME PolicyAssumption ==
    /\ Policies \subseteq Policy
    /\ \A p \in Policies : /\ p.minBackoff <= p.maxBackoff
                           /\ p.period > 0 => Jitter + 2 <= p.period  \* as it is in ns
                           /\ p.period + p.period \div 2 + 2 * Jitter <= Cap
                           /\ p.maxBackoff <= Cap
ASSUME DelayAssumption ==
    /\ {Jitter, MinDelay, Timeout, ReenableDelay, RetryCap, Cap} \subseteq Nat
    /\ MinDelay <= Cap /\ Timeout <= Cap
    /\ ReenableDelay + ReenableDelay \div 2 <= Cap
    /\ {FromLastSuccess, RandomReenable, RandomBackoff, StartEnabled} \subseteq BOOLEAN

VARIABLES
    policy,       \* the part of config that update_grpc_polling_policy changes
    period,       \* polling_period, with the jitter drawn for it
    enabled,      \* polling_enabled
    justEnabled,  \* just_enabled_polling
    waiting,      \* waiting_on_response
    nextIn,       \* next_poll_time, as the time until then; Never for nano_t_max
    sincePoll,    \* last_poll_time, as the time since then
    sinceSuccess, \* last_success_time, likewise
    retry,        \* retry_count
    call,         \* the client's outstanding call: where it is
    status,       \* how the last call ended
    refused,      \* the client could make no stub: the call waited for was not started
    sinceStart,   \* (history) time since the last call really started
    sinceGood,    \* (history) time since the last good call really started
    promised,     \* (history) the delay to keep after the last completed call
    asked,        \* (history) was a poll asked for since the last call started,
                  \* and was it while that call was outstanding
    forgotten     \* (history) was a poll asked for during the last good call

schedule == <<justEnabled, waiting, nextIn, sincePoll, sinceSuccess, retry>>
client   == <<call, status, refused>>
history  == <<sinceStart, sinceGood, promised, asked, forgotten>>
vars     == <<policy, period, enabled, schedule, client, history>>

Never == Cap + 1

TypeOK ==
    /\ policy \in Policies
    /\ period \in 0..Cap
    /\ enabled \in BOOLEAN /\ justEnabled \in BOOLEAN /\ waiting \in BOOLEAN
    /\ nextIn \in 0..Never
    /\ {sincePoll, sinceSuccess, sinceStart, sinceGood, promised} \subseteq 0..Cap
    /\ retry \in 0..RetryCap
    /\ call \in {"none", "flying", "ended", "queued"}
    /\ status \in {"none", "ok", "error"}
    /\ asked \in {"no", "idle", "inCall"}
    /\ forgotten \in BOOLEAN /\ refused \in BOOLEAN

AtLeast(n, least) == IF n < least THEN least ELSE n
AtMost(n, most) == IF n > most THEN most ELSE n

Jittered(p) == IF p = 0 THEN {0} ELSE (p - Jitter)..(p + Jitter)

\* The uniform distribution on half to one and a half of a delay.
Around(d) == (d \div 2)..(d \div 2 + d)

Init ==
    /\ policy \in Policies
    /\ MinDelay <= policy.period
    /\ period \in Jittered(policy.period)
    /\ enabled = StartEnabled
    /\ justEnabled = FALSE /\ waiting = FALSE
    /\ nextIn = IF policy.period = 0 \/ ~StartEnabled THEN Never ELSE 0
    /\ sincePoll = Cap /\ sinceSuccess = Cap
    /\ retry = 0
    /\ call = "none" /\ status = "none" /\ refused = FALSE
    /\ sinceStart = Cap /\ sinceGood = Cap /\ promised = 0
    /\ asked = "no" /\ forgotten = FALSE

-----------------------------------------------------------------------------
(* dispatch.                                                               *)

\* When the next poll is due: newly enabled, or under the rate limit.
Reenabled ==
    LET delays == IF RandomReenable THEN Around(ReenableDelay) ELSE {ReenableDelay}
    IN  {AtLeast(d - (IF FromLastSuccess THEN sinceSuccess ELSE 0), 0) : d \in delays}

Bug_RateLimited == nextIn
RateLimited == AtLeast(nextIn, MinDelay - sinceSuccess)

\* grpc_client->async: the call is skipped when one is outstanding already, and not
\* started without a stub, which async reports and dispatch does not look at.
StartCall ==
    /\ \/ /\ call' = IF call = "none" THEN "flying" ELSE call
          /\ sinceStart' = 0
          /\ asked' = "no"
          /\ UNCHANGED refused
       \/ /\ call = "none"
          /\ refused' = TRUE
          /\ UNCHANGED <<call, sinceStart, asked>>
    /\ UNCHANGED <<status, sinceGood, promised, forgotten>>

Dispatch ==
    /\ enabled /\ ~waiting
    /\ justEnabled' = FALSE
    /\ \E due \in IF justEnabled THEN Reenabled ELSE {RateLimited} :
         IF due = 0
           THEN /\ sincePoll' = 0
                /\ nextIn' = Never
                /\ waiting' = TRUE
                /\ StartCall
           ELSE /\ nextIn' = due
                /\ UNCHANGED <<sincePoll, waiting, client, history>>
    /\ UNCHANGED <<policy, period, enabled, sinceSuccess, retry>>

-----------------------------------------------------------------------------
(* The call: gRPC, the worker thread and the main thread.                  *)

\* The server answers, the deadline passes, or try_cancel takes effect.
CallEnds(how) ==
    /\ call = "flying"
    /\ call' = "ended"
    /\ status' = how
    /\ UNCHANGED <<policy, period, enabled, schedule, refused, history>>

\* worker: from the completion queue into the callback queue.
Worker ==
    /\ call = "ended"
    /\ call' = "queued"
    /\ UNCHANGED <<policy, period, enabled, schedule, status, refused, history>>

\* min_retry_backoff times 1 << retry_count.
Doubled(backoff, times) ==
    LET after[i \in 0..times] == IF i = 0 THEN backoff ELSE 2 * after[i - 1]
    IN  after[times]

\* On failure, after so many before it: up to max_retry_backoff.
Bug_Longest(failures) == Doubled(policy.minBackoff, failures)
Longest(failures) == AtMost(Doubled(policy.minBackoff, failures), policy.maxBackoff)

Bug_BackoffAfter(failures) == {policy.minBackoff}
Bug_FirstRetryAtOnce(failures) == IF failures = 0 THEN {0} ELSE {Longest(failures)}
BackoffAfter(failures) ==
    IF RandomBackoff THEN policy.minBackoff..Longest(failures) ELSE {Longest(failures)}

\* A delay after last_poll_time, unless there is none: then next_poll_time stays.
Bug_Schedule(delay) == IF delay = 0 THEN Never ELSE AtLeast(delay - sincePoll, 0)
Schedule(delay) == IF delay = 0 THEN nextIn ELSE AtLeast(delay - sincePoll, 0)

\* GrpcClient::complete, from the callback queue, and GrpcPoller::on_response.
Complete ==
    /\ call = "queued"
    /\ call' = "none"
    /\ waiting' = FALSE
    /\ \/ /\ status = "ok"
          /\ sinceSuccess' = sincePoll
          /\ sinceGood' = sinceStart
          /\ forgotten' = (asked = "inCall")
          /\ \E delay \in IF retry > 0 THEN Around(period) ELSE {period} :
                nextIn' = Schedule(delay)
          /\ promised' = IF retry > 0 THEN period \div 2 ELSE period
          /\ retry' = 0
       \/ /\ status = "error"
          /\ \E delay \in BackoffAfter(retry) : nextIn' = Schedule(delay)
          /\ promised' = IF RandomBackoff THEN policy.minBackoff ELSE Longest(retry)
          /\ retry' = AtMost(retry + 1, RetryCap)
          /\ UNCHANGED <<sinceSuccess, sinceGood, forgotten>>
    /\ UNCHANGED <<policy, period, enabled, justEnabled, sincePoll, status, refused, sinceStart, asked>>

-----------------------------------------------------------------------------
(* What the owner calls, between dispatches.                               *)

Asked == asked' = IF waiting \/ asked = "inCall" THEN "inCall" ELSE "idle"

Bug_poll_asap ==
    /\ retry' = 0
    /\ sincePoll' = Cap
    /\ nextIn' = 0
    /\ waiting' = FALSE
    /\ Asked
    /\ UNCHANGED <<justEnabled, sinceSuccess, sinceStart, sinceGood, promised, forgotten>>

poll_asap ==
    /\ retry' = 0
    /\ sincePoll' = Cap
    /\ nextIn' = 0
    /\ Asked
    /\ UNCHANGED <<justEnabled, waiting, sinceSuccess, sinceStart, sinceGood, promised, forgotten>>

\* Also force_retry: try_cancel may end the flying call, as it may end by itself.
PollAsap == poll_asap /\ UNCHANGED <<policy, period, enabled, client>>

\* enable_polling, when it was disabled.
EnablePolling ==
    /\ ~enabled
    /\ enabled' = TRUE
    /\ justEnabled' = TRUE
    /\ retry' = 0
    /\ asked' = IF asked = "no" THEN "idle" ELSE asked
    /\ UNCHANGED <<policy, period, waiting, nextIn, sincePoll, sinceSuccess, client,
                   sinceStart, sinceGood, promised, forgotten>>

DisablePolling ==
    /\ enabled
    /\ enabled' = FALSE
    /\ UNCHANGED <<policy, period, schedule, client, history>>

\* update_grpc_polling_policy with values that differ.
UpdatePolicy(new, shouldPollAsap) ==
    /\ new # policy
    /\ policy' = new
    /\ period' \in Jittered(new.period)
    /\ IF enabled /\ shouldPollAsap
         THEN poll_asap
         ELSE UNCHANGED <<schedule, history>>
    /\ UNCHANGED <<enabled, client>>

-----------------------------------------------------------------------------
Later(t) == AtMost(t + 1, Cap)

\* Time passes; gRPC does not let a call fly beyond its deadline.
Tick ==
    /\ call = "flying" => sinceStart < Timeout
    /\ nextIn' = IF nextIn = Never THEN Never ELSE AtLeast(nextIn - 1, 0)
    /\ sincePoll' = Later(sincePoll)
    /\ sinceSuccess' = Later(sinceSuccess)
    /\ sinceStart' = Later(sinceStart)
    /\ sinceGood' = Later(sinceGood)
    /\ UNCHANGED <<policy, period, enabled, justEnabled, waiting, retry, client, promised,
                   asked, forgotten>>

Ended == \E how \in {"ok", "error"} : CallEnds(how)

Next ==
    \/ Dispatch
    \/ Ended
    \/ Worker
    \/ Complete
    \/ PollAsap
    \/ EnablePolling
    \/ DisablePolling
    \/ \E new \in Policies, asap \in BOOLEAN : UpdatePolicy(new, asap)
    \/ Tick

Spec == Init /\ [][Next]_vars

\* The EventLoop dispatches when a poll is due, runs the callback queue, and time goes on.
FairSpec ==
    /\ Spec
    /\ WF_vars(Dispatch) /\ WF_vars(Complete)
    /\ WF_vars(Worker) /\ WF_vars(Ended) /\ WF_vars(Tick)

-----------------------------------------------------------------------------
Starts == ~waiting /\ waiting'

(***************************************************************************)
(* The poller waits for a response exactly while its client has a call     *)
(* outstanding, over answers, cancelled calls, poll_asap and switching it  *)
(* off and on: it starts no call that the client would skip, and stops     *)
(* waiting with its call.  The one exception is a call that the client     *)
(* refused for want of a stub: no call is left to end the wait.            *)
(***************************************************************************)
WaitingHasCall ==
    /\ call # "none" => waiting /\ ~refused
    /\ waiting => call # "none" \/ refused
    /\ refused => waiting

(***************************************************************************)
(* An enabled poller always has its next poll scheduled, or a response to  *)
(* wait for, once a call ended that leaves a delay to keep: every failed   *)
(* one does, and every good one of a poller that had a period then.        *)
(***************************************************************************)
EnabledIsScheduled ==
    enabled /\ ~waiting /\ ~justEnabled /\ promised > 0 => nextIn # Never

(***************************************************************************)
(* A call that nobody asked for starts no sooner after the start of the    *)
(* last one than that one's outcome says: a polling period after a good    *)
(* call (half of one at least after an outage), the backoff of so many     *)
(* failures in a row after a failed one.  The time the call itself took is *)
(* part of the delay.                                                      *)
(***************************************************************************)
SpacedOut == [][Starts /\ asked = "no" => sinceStart >= promised]_vars

(***************************************************************************)
(* The rate limit: calls start MinDelay after the last successful one      *)
(* started, poll_asap or not, failures in between or not.  Excepted are    *)
(* the first call after enabling, and what follows a good call during      *)
(* which poll_asap was called: it set the time of that call to 0.          *)
(***************************************************************************)
RateIsLimited ==
    [][Starts /\ ~justEnabled /\ ~forgotten => sinceGood >= MinDelay]_vars

(***************************************************************************)
(* "Force a poll to happen on the next dispatch, or immediately following  *)
(* the next gRPC response": poll_asap is not lost, whatever the response   *)
(* of the call outstanding schedules afterwards, unless the client refuses *)
(* a call: then the poller polls no more.                                  *)
(***************************************************************************)
AskedIsServed == asked # "no" /\ enabled ~> asked = "no" \/ ~enabled \/ refused

(***************************************************************************)
(* A poller that stays enabled calls again after every call that leaves a  *)
(* delay to keep, whatever is asked of it and set meanwhile.  Only a good  *)
(* call that finds no period (polling on demand) leaves none, and a call   *)
(* that the client refuses is the last.                                    *)
(***************************************************************************)
KeepsPolling ==
    enabled /\ ~waiting /\ promised > 0 ~> call = "flying" \/ ~enabled \/ refused

-----------------------------------------------------------------------------
(***************************************************************************)
(* The comment in dispatch: "We must ensure that the next poll time never  *)
(* violates our rate limit".  It stands in the branch of pollers that were *)
(* not just enabled.                                                       *)
(***************************************************************************)
NeverViolatesRateLimit ==
    [][Starts /\ ~justEnabled => sinceGood >= MinDelay]_vars
=============================================================================
