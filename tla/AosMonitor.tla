------------------------------ MODULE AosMonitor ------------------------------
(***************************************************************************)
(* AcquisitionOfSignalMonitor: when contact is back after a long time      *)
(* without, the calls in progress are told to start over.  The age of the  *)
(* last contact comes from the slate, where it grows by Period between two *)
(* dispatches or starts again from some age in Renewed.                    *)
(***************************************************************************)
EXTENDS Integers

CONSTANTS
    Aos,          \* aos_threshold
    Thresholds,   \* values commanded of out_of_contact_threshold, zero disables
    Period,       \* bound: the step of time
    Renewed,      \* ages at which renewed contact may first be seen
    MaxAge        \* bound on the age

VARIABLES
    age,          \* bidirectional_comm_age
    threshold,    \* out_of_contact_threshold
    retry,        \* retry_on_connection
    signals       \* (history) of the outage: none, "owed", "sent", "sent twice"

vars == <<age, threshold, retry, signals>>

TypeOK ==
    /\ age \in 0..MaxAge /\ threshold \in Thresholds
    /\ retry \in BOOLEAN /\ signals \in {"none", "owed", "sent", "sent twice"}

Init ==
    /\ age \in Renewed /\ threshold \in Thresholds
    /\ retry = FALSE /\ signals = "none"

Bug_RetryNext(a) == retry \/ (threshold > 0 /\ a > threshold)

\* retry_on_connection after a dispatch at age a.
RetryNext(a) == threshold > 0 /\ a > threshold

\* dispatch, at age a.
Dispatch(a) ==
    LET signal == a < Aos /\ retry
    IN  /\ age' = a
        /\ retry' = RetryNext(a)
        /\ signals' = IF signal THEN IF signals = "owed" THEN "sent" ELSE "sent twice"
                      ELSE IF a < Aos THEN signals
                      ELSE IF threshold > 0 /\ a > threshold THEN "owed"
                      ELSE "none"
        /\ UNCHANGED threshold

\* A command, which may come in the middle of an outage.
SetThreshold(t) ==
    /\ threshold' = t
    /\ UNCHANGED <<age, retry, signals>>

Grow == Dispatch(IF age + Period > MaxAge THEN MaxAge ELSE age + Period)
Renew(a) == Dispatch(a)

Next ==
    \/ Grow
    \/ \E a \in Renewed : Renew(a)
    \/ \E t \in Thresholds : SetThreshold(t)

Spec == Init /\ [][Next]_vars

-----------------------------------------------------------------------------
(***************************************************************************)
(* Each long outage is answered by one signal when it ends, and a short    *)
(* one by none: no outage is still owed one when contact is back, and none *)
(* had two, also when the threshold is changed or the monitor disabled.    *)
(* Contact first seen at an age between the two thresholds forfeits the    *)
(* signal, and thresholds below aos_threshold are not among the commanded. *)
(***************************************************************************)
OneSignalPerOutage ==
    /\ signals # "sent twice"
    /\ age < Aos => signals # "owed"
=============================================================================
