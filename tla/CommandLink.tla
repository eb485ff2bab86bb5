----------------------------- MODULE CommandLink -----------------------------
(***************************************************************************)
(* The way of a command from the ground's queue to the vehicle:            *)
(* CommandPump watches the vehicle's feedback, CommandQueueClient trades   *)
(* it for the next command in a PumpQueue call, CommandSender writes the   *)
(* command to the vehicle's channel.                                       *)
(*                                                                         *)
(* The client's GrpcPoller is what GrpcPoller.tla shows of it: one call at *)
(* a time, repeated while polling is enabled.  force_retry only hurries it *)
(* and cancels the call, which may end well all the same.  The ground, the *)
(* channel and the vehicle are not in the tree.  The ground hands out the  *)
(* first queued command beyond all numbers reported to it; the channel     *)
(* loses, delays and repeats; the vehicle accepts or rejects a command     *)
(* once, and none older than those it has settled; its feedback holds the  *)
(* last number of each kind, zero for none.                                *)
(***************************************************************************)
EXTENDS Integers, FiniteSetsExt

CONSTANTS
    LastCommand,   \* bound on the sequence numbers given to commands
    MaxRestarts    \* bound on the restarts of the client's process

Command == 1..LastCommand
Number == 0..LastCommand    \* zero: no command
Kind == {"good", "untranslatable", "dropped"}

VARIABLES
    queued,     \* commands the operators have queued on the ground so far
    kind,       \* of each command: what the client and the sender make of it
    done,       \* highest number reported to the ground as accepted or rejected
    call,       \* the outstanding PumpQueue call
    enabled,    \* enabled_tok, set once the control process shares its Slate
    signed,     \* require_signed_command_tok
    feedback,   \* accepted_seq_num, rejected_seq_num of the feedback reader
    pumped,     \* CommandPump: last_accepted_seq_num, last_rejected_seq_num
    number,     \* accepted_sequence_number, rejected_sequence_number
    asked,      \* last_request_accepted_seq_num, last_request_rejected_seq_num
    sendFailed, \* send_failed_sequence_num
    link,       \* commands written to the channel and not lost
    accepted, rejected, \* commands the vehicle settled
    failed,     \* (history) commands the sender could not issue
    restarts

ground  == <<queued, kind, done>>
client  == <<enabled, signed, pumped, number, asked, sendFailed>>
vehicle == <<link, accepted, rejected>>
vars    == <<ground, call, client, feedback, vehicle, failed, restarts>>

Numbers == [acc : Number, rej : Number]
None == [acc |-> 0, rej |-> 0]
NoCall == [at |-> "none", req |-> None, seq |-> 0]

TypeOK ==
    /\ queued \in Number /\ done \in Number
    /\ kind \in [Command -> Kind]
    /\ call \in [at : {"none", "flying", "served"}, req : Numbers, seq : Number]
    /\ call.at # "none" => enabled
    /\ enabled \in BOOLEAN /\ signed \in BOOLEAN
    /\ {feedback, pumped, number, asked} \subseteq Numbers
    /\ sendFailed \in Number
    /\ {link, accepted, rejected, failed} \subseteq SUBSET Command
    /\ restarts \in 0..MaxRestarts

Larger(a, b) == IF a >= b THEN a ELSE b
Last(S) == Max(S \cup {0})

InitClient ==
    /\ pumped = None /\ number = None /\ asked = None
    /\ sendFailed = 0

Init ==
    /\ queued = 0 /\ done = 0
    /\ kind \in [Command -> Kind]
    /\ call = NoCall
    /\ enabled = FALSE /\ signed \in BOOLEAN
    /\ feedback = None
    /\ InitClient
    /\ link = {} /\ accepted = {} /\ rejected = {} /\ failed = {}
    /\ restarts = 0

-----------------------------------------------------------------------------
(* The client's process.                                                   *)

Bug_PumpSwapped ==
    /\ pumped # feedback
    /\ number' = [acc |-> feedback.rej, rej |-> feedback.acc]
    /\ pumped' = feedback
    /\ UNCHANGED <<ground, call, enabled, signed, asked, sendFailed, feedback, vehicle, failed, restarts>>

\* CommandPump::dispatch, with pump_now: it stores the feedback and retries at once.
Pump ==
    /\ pumped # feedback
    /\ number' = feedback
    /\ pumped' = feedback
    /\ UNCHANGED <<ground, call, enabled, signed, asked, sendFailed, feedback, vehicle, failed, restarts>>

Bug_RequestWithoutFailed == number
Request == [number EXCEPT !.rej = Larger(@, sendFailed)]

\* The poller starts a call: build_request.
Bug_PollAlways ==
    /\ call.at = "none"
    /\ call' = [at |-> "flying", req |-> Request, seq |-> 0]
    /\ asked' = number
    /\ UNCHANGED <<ground, enabled, signed, pumped, number, sendFailed, feedback, vehicle, failed, restarts>>

Poll ==
    /\ enabled
    /\ call.at = "none"
    /\ call' = [at |-> "flying", req |-> Request, seq |-> 0]
    /\ asked' = number
    /\ UNCHANGED <<ground, enabled, signed, pumped, number, sendFailed, feedback, vehicle, failed, restarts>>

\* A signed command is dropped as replayed; not before any was accepted.
SeemsReplayed(n) ==
    signed /\ number.acc > 0 /\ n <= Larger(asked.acc, asked.rej)

Bug_Send(n) ==
    \/ /\ kind[n] = "dropped"
       /\ UNCHANGED <<sendFailed, link, failed>>
    \/ /\ kind[n] # "dropped"
       /\ sendFailed' = n
       /\ link' = IF kind[n] = "good" THEN link \cup {n} ELSE link
       /\ failed' = IF kind[n] = "good" THEN failed ELSE failed \cup {n}

(***************************************************************************)
(* CommandSender::send, and what the client notes of it.  A command that   *)
(* the client cannot decode does not come to it; for one whose message     *)
(* cannot be framed it aborts.  Both are dropped: neither sent nor noted.  *)
(***************************************************************************)
Send(n) ==
    \/ /\ kind[n] = "dropped"
       /\ UNCHANGED <<sendFailed, link, failed>>
    \/ /\ kind[n] = "good"
       /\ link' = link \cup {n}
       /\ UNCHANGED <<sendFailed, failed>>
    \/ /\ kind[n] # "dropped"
       /\ sendFailed' = n
       /\ failed' = failed \cup {n}
       /\ UNCHANGED link

\* on_pump_response of a call that ended well.
OnPumpResponse ==
    /\ call.at = "served"
    /\ call' = NoCall
    /\ IF call.seq > 0 /\ ~SeemsReplayed(call.seq)
         THEN Send(call.seq)
         ELSE UNCHANGED <<sendFailed, link, failed>>
    /\ UNCHANGED <<ground, enabled, signed, pumped, number, asked, feedback, accepted, rejected, restarts>>

\* A call that failed, timed out or was cancelled, wherever it had come to.
CallFails ==
    /\ call.at # "none"
    /\ call' = NoCall
    /\ UNCHANGED <<ground, client, feedback, vehicle, failed, restarts>>

\* The process starts anew: every token has its initial value again.
Restart ==
    /\ restarts < MaxRestarts
    /\ restarts' = restarts + 1
    /\ pumped' = None /\ number' = None /\ asked' = None
    /\ sendFailed' = 0
    /\ enabled' = FALSE
    /\ call' = NoCall
    /\ feedback' = None
    /\ UNCHANGED <<ground, signed, vehicle, failed>>

-----------------------------------------------------------------------------
(* The ground and the vehicle.                                             *)

Queue ==
    /\ queued < LastCommand
    /\ queued' = queued + 1
    /\ UNCHANGED <<kind, done, call, client, feedback, vehicle, failed, restarts>>

\* PumpQueue: the request's numbers are settled, the next command goes out.
Serve ==
    /\ call.at = "flying"
    /\ done' = Larger(done, Larger(call.req.acc, call.req.rej))
    /\ call' = [call EXCEPT !.at = "served", !.seq = IF done' < queued THEN done' + 1 ELSE 0]
    /\ UNCHANGED <<queued, kind, client, feedback, vehicle, failed, restarts>>

Lose(n) ==
    /\ n \in link
    /\ link' = link \ {n}
    /\ UNCHANGED <<ground, call, client, feedback, accepted, rejected, failed, restarts>>

Settle(n) ==
    /\ n \in link
    /\ n > Last(accepted \cup rejected)
    /\ \/ accepted' = accepted \cup {n} /\ UNCHANGED rejected
       \/ rejected' = rejected \cup {n} /\ UNCHANGED accepted
    /\ UNCHANGED <<ground, call, client, feedback, link, failed, restarts>>

\* The control process shares its Slate: settings and the vehicle's last numbers.
Share ==
    /\ enabled' = TRUE
    /\ feedback' = [acc |-> Last(accepted), rej |-> Last(rejected)]
    /\ UNCHANGED <<ground, call, signed, pumped, number, asked, sendFailed, vehicle, failed, restarts>>

Next ==
    \/ Pump \/ Poll \/ OnPumpResponse \/ CallFails \/ Restart
    \/ Queue \/ Serve \/ Share
    \/ \E n \in Command : Lose(n) \/ Settle(n)

Spec == Init /\ [][Next]_vars

(***************************************************************************)
(* The client's event loop goes on and the control process keeps sharing.  *)
(* The ground and the vehicle are reached again and again: a call repeated *)
(* for ever is answered at times, and so is a command sent for ever.       *)
(***************************************************************************)
FairSpec ==
    /\ Spec
    /\ WF_vars(Pump) /\ WF_vars(Poll) /\ WF_vars(Share)
    /\ SF_vars(Serve) /\ SF_vars(OnPumpResponse)
    /\ \A n \in Command : SF_vars(Settle(n))

-----------------------------------------------------------------------------
Settled == accepted \cup rejected \cup failed

(***************************************************************************)
(* No command is passed over: when one is on its way to the vehicle or     *)
(* settled there, every earlier one was accepted, rejected or could not be *)
(* issued, across lost and late answers, resends and restarts.             *)
(***************************************************************************)
NonePassedOver ==
    \A n \in link \cup accepted \cup rejected : 1..(n - 1) \subseteq Settled

(***************************************************************************)
(* What a request reports is true: as accepted only a command the vehicle  *)
(* accepted, as rejected only one it rejected or the sender could not      *)
(* issue.  The ground throws away what is reported.                        *)
(***************************************************************************)
ReportsAreTrue ==
    /\ call.req.acc \in accepted \cup {0}
    /\ call.req.rej \in rejected \cup failed \cup {0}

(***************************************************************************)
(* The queue does not get stuck: every queued command is settled in the    *)
(* end (CommandSender: a failing command is failed "so the command queue   *)
(* doesn't get stuck retrying that failed command"), unless it or one      *)
(* before it is dropped: one that cannot be decoded or framed is neither   *)
(* sent nor failed, and the ground is told nothing of it.                  *)
(***************************************************************************)
QueueIsDrained ==
    \A n \in Command :
        n <= queued /\ (\A m \in 1..n : kind[m] # "dropped") ~> n \in Settled
=============================================================================
