----------------------------- MODULE SlateTokens -----------------------------
(***************************************************************************)
(* The tokens with which a program reads and writes its slate, and the     *)
(* accountant that knows, until the slate is built, which of them are not  *)
(* bound to an element yet.  A token that is not bound holds an invalid ID *)
(* of its own; one made while the accountant is off holds the default ID   *)
(* and is only counted.  The store of a builder is external: its build()   *)
(* asks the accountant, then tells it to forget and to stop.               *)
(***************************************************************************)
EXTENDS Integers, FiniteSets

CONSTANTS
    Tokens,
    MaxIds,        \* bound: invalid IDs ever given out
    MaxDefault,    \* bound on default_count
    MaxBuilders,   \* bound: root SlateBuilders that are not built yet
    AutoReEnable   \* _slate_token_accountant_auto_re_enable: only in unit tests

VARIABLES
    enabled,       \* _slate_token_accountant_enabled
    id,            \* of each token
    frames,        \* keys of id_frames: invalid IDs given out and not settled
    first, next,   \* first_invalid_count, next_invalid_count
    valid_count,   \* valid_id_count
    default_count, \* _slate_default_token_count
    builders       \* root builders not built

vars == <<enabled, id, frames, first, next, valid_count, default_count, builders>>

Dead == -3      \* no such token
Default == -2   \* slate_element_default
Bound == -1     \* a valid ID; the others are the invalid ones
Invalid == 0..(MaxIds - 1)

TypeOK ==
    /\ enabled \in BOOLEAN
    /\ id \in [Tokens -> {Dead, Default, Bound} \cup Invalid]
    /\ frames \subseteq Invalid
    /\ first \in 0..MaxIds /\ next \in first..MaxIds
    /\ valid_count \in 0..MaxIds
    /\ default_count \in 0..MaxDefault
    /\ builders \in 0..MaxBuilders

Init ==
    /\ enabled = TRUE
    /\ id = [t \in Tokens |-> Dead]
    /\ frames = {} /\ first = 0 /\ next = 0
    /\ valid_count = 0 /\ default_count = 0 /\ builders = 0

Living == {t \in Tokens : id[t] # Dead}
Number(b) == IF b THEN 1 ELSE 0

\* dismiss_id and register_id of an ID: frames and count after.
Settled(old) ==
    IF enabled /\ old \in frames THEN [left |-> frames \ {old}, count |-> valid_count + 1]
                                 ELSE [left |-> frames, count |-> valid_count]

\* generate_id: token t takes the next invalid ID, or the default one while disabled.
Generate(t, old) ==
    /\ id' = [id EXCEPT ![t] = IF enabled THEN next ELSE Default]
    /\ next' = next + Number(enabled)
    /\ frames' = Settled(old).left \cup (IF enabled THEN {next} ELSE {})
    /\ next < MaxIds /\ default_count < MaxDefault

New(t) ==
    /\ id[t] = Dead
    /\ Generate(t, Dead)
    /\ default_count' = default_count + Number(~enabled)
    /\ UNCHANGED <<enabled, first, valid_count, builders>>

Bug_Set(t, s, old) ==
    /\ id' = [id EXCEPT ![t] = id[s]]
    /\ frames' = Settled(old).left
    /\ valid_count' = Settled(old).count
    /\ default_count' = default_count
    /\ UNCHANGED next

\* set(): t, which held old, becomes like s, with an invalid ID of its own if s has one.
Set(t, s, old) ==
    /\ IF id[s] = Bound
       THEN /\ id' = [id EXCEPT ![t] = Bound]
            /\ frames' = Settled(old).left
            /\ UNCHANGED next
       ELSE Generate(t, old)
    /\ valid_count' = Settled(old).count
    /\ default_count' = default_count + Number(~enabled /\ id[s] # Bound) - Number(old = Default)

\* The copy constructor counts the token as a default one before it sets it.
Copy(t, s) ==
    /\ id[t] = Dead /\ s \in Living
    /\ Set(t, s, Dead)
    /\ UNCHANGED <<enabled, first, builders>>

\* operator=, of a token to itself too.
Assign(t, s) ==
    /\ t \in Living /\ s \in Living
    /\ Set(t, s, id[t])
    /\ UNCHANGED <<enabled, first, builders>>

Destroy(t) ==
    /\ t \in Living
    /\ id' = [id EXCEPT ![t] = Dead]
    /\ frames' = Settled(id[t]).left
    /\ valid_count' = Settled(id[t]).count
    /\ default_count' = default_count - Number(id[t] = Default)
    /\ UNCHANGED <<enabled, first, next, builders>>

\* create and bind of a builder that is not built: register_id refuses a token that is
\* bound, and one with the default ID unless it is disabled and ignores everything.
Bind(t) ==
    /\ builders > 0
    /\ t \in Living /\ id[t] # Bound
    /\ enabled => id[t] # Default
    /\ id' = [id EXCEPT ![t] = Bound]
    /\ frames' = Settled(id[t]).left
    /\ valid_count' = Settled(id[t]).count
    /\ UNCHANGED <<enabled, first, next, default_count, builders>>

\* The constructor of a root SlateBuilder: enable() asserts what is the guard here.
NewBuilder ==
    /\ enabled \/ AutoReEnable
    /\ builders < MaxBuilders
    /\ builders' = builders + 1
    /\ enabled' = (enabled \/ AutoReEnable)
    /\ UNCHANGED <<id, frames, first, next, valid_count, default_count>>

check_for_uninitialized_tokens ==
    /\ default_count = 0
    /\ valid_count + Cardinality(frames) = next - first
    /\ frames = {}

acknowledge_and_disable ==
    /\ enabled' = FALSE
    /\ first' = next
    /\ frames' = {}
    /\ valid_count' = 0

Build ==
    /\ builders > 0
    /\ check_for_uninitialized_tokens
    /\ acknowledge_and_disable
    /\ builders' = builders - 1
    /\ UNCHANGED <<id, next, default_count>>

Next ==
    \/ \E t \in Tokens : New(t) \/ Destroy(t) \/ Bind(t)
    \/ \E t, s \in Tokens : Copy(t, s) \/ Assign(t, s)
    \/ NewBuilder \/ Build

Spec == Init /\ [][Next]_vars

-----------------------------------------------------------------------------
(***************************************************************************)
(* The accountant knows every token that is not bound: those with an       *)
(* invalid ID by that ID, which no other token has, those with the default *)
(* one by their number; and its sum adds up.  So no slate is built while a *)
(* token lives that would crash the program when used, whatever copies and *)
(* assignments made it.                                                    *)
(***************************************************************************)
NoTokenEscapes ==
    LET unbound == {t \in Living : id[t] \in Invalid}
    IN  /\ frames = {id[t] : t \in unbound}
        /\ \A t, s \in unbound : id[t] = id[s] => t = s
        /\ default_count >= Cardinality({t \in Living : id[t] = Default})
        /\ valid_count + Cardinality(frames) = next - first
        /\ check_for_uninitialized_tokens => \A t \in Living : id[t] = Bound
=============================================================================
