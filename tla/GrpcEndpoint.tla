----------------------------- MODULE GrpcEndpoint -----------------------------
(***************************************************************************)
(* DynamicGrpcEndpoint: which of the targets DNS offers for a service the  *)
(* next call goes to.  A failure moves on to the next target, a cooldown   *)
(* without one returns to the first, and an operator may override both.    *)
(***************************************************************************)
EXTENDS Integers, Sequences, SequencesExt

CONSTANTS
    Targets,      \* what DNS may offer
    MaxTargets,   \* MAX_TARGETS
    Cooldown      \* target_index_cooldown_s

VARIABLES
    dns,          \* the targets in the slate
    override,     \* use_override or force_use_override
    index,        \* target_index, from zero
    last,         \* last_endpoint
    age,          \* of endpoint_created_at, up to one more than the cooldown
    quiet,        \* (history) time since the last failure, up to the same
    failed        \* (history) targets that failed since the rotation began

vars == <<dns, override, index, last, age, quiet, failed>>

None == "none"
Override == "override"
Offers == {d \in SeqOf(Targets, MaxTargets) : IsInjective(d)}

TypeOK ==
    /\ dns \in Offers /\ override \in BOOLEAN
    /\ index \in 0..(MaxTargets - 1)
    /\ last \in Targets \cup {None, Override}
    /\ age \in 0..(Cooldown + 1) /\ quiet \in 0..(Cooldown + 1)
    /\ failed \subseteq Targets

Init ==
    /\ dns \in Offers
    /\ override = FALSE
    /\ index = 0
    /\ last = None
    /\ age = Cooldown + 1        \* created at time zero
    /\ quiet = Cooldown + 1
    /\ failed = {}

Bug_CreatedNow(changed, hadFailure) == changed /\ ~hadFailure

\* The endpoint counts as created now.
CreatedNow(changed, hadFailure) == changed \/ hadFailure

Bug_NextIndex(hadFailure) ==
    IF age > Cooldown \/ override \/ ~hadFailure THEN 0 ELSE (index + 1) % Len(dns)

NextIndex(hadFailure) ==
    IF age > Cooldown \/ override THEN 0
    ELSE (index + (IF hadFailure THEN 1 ELSE 0)) % Len(dns)

\* The target that the index stands for: a failure of one that DNS no longer
\* offers there is not a turn of the rotation.
Current == IF index < Len(dns) THEN {dns[index + 1]} ELSE {}

\* endpoint
Endpoint(hadFailure) ==
    LET next == IF override THEN Override ELSE dns[index' + 1]
    IN  IF ~override /\ dns = <<>> THEN UNCHANGED vars
        ELSE /\ index' = NextIndex(hadFailure)
             /\ last' = next
             /\ age' = IF CreatedNow(next # last, hadFailure) THEN 0 ELSE age
             /\ quiet' = IF hadFailure THEN 0 ELSE quiet
             /\ failed' = IF quiet > Cooldown \/ override THEN {}
                          ELSE IF hadFailure THEN failed \cup (Current \cap {last}) ELSE failed
             /\ UNCHANGED <<dns, override>>

\* DNS and the operator; a rotation begins anew.
Resolve(d) ==
    /\ dns' = d /\ failed' = {}
    /\ UNCHANGED <<override, index, last, age, quiet>>

SetOverride ==
    /\ override' = ~override /\ failed' = {}
    /\ UNCHANGED <<dns, index, last, age, quiet>>

Wait ==
    /\ Min({age, quiet}) <= Cooldown
    /\ age' = Min({age + 1, Cooldown + 1}) /\ quiet' = Min({quiet + 1, Cooldown + 1})
    /\ UNCHANGED <<dns, override, index, last, failed>>

Next ==
    \/ \E hadFailure \in BOOLEAN : Endpoint(hadFailure)
    \/ \E d \in Offers : Resolve(d)
    \/ SetOverride \/ Wait

Spec == Init /\ [][Next]_vars

-----------------------------------------------------------------------------
(***************************************************************************)
(* Every target gets its turn: while failures keep coming within the       *)
(* cooldown of each other, none that failed is used again before all that  *)
(* DNS offers were tried, wherever in the list the run of failures starts. *)
(* The first failure after a cooldown is not among them: it returns to the *)
(* first target, which may be the one that failed.                         *)
(***************************************************************************)
EveryTargetGetsATurn ==
    last \in failed => Range(dns) \subseteq failed
=============================================================================
