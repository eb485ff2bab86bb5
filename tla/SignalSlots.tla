----------------------------- MODULE SignalSlots -----------------------------
(***************************************************************************)
(* A Signal, the Slots connected to it and the SignalHandlers whose        *)
(* members they call.  What a slot calls may connect, disconnect and       *)
(* destroy others and itself while the signal is being emitted.            *)
(*                                                                         *)
(* A function object is shared by the slots and the records that hold it;  *)
(* its handler knows it by a weak pointer, and empties it when destroyed.  *)
(* Not modelled: destroying a signal while it is emitted, which is         *)
(* undefined, and functions that are no members, which nothing invalidates.*)
(***************************************************************************)
EXTENDS Integers, Sequences, Functions, Lists

CONSTANTS
    Handlers,      \* SignalHandlers
    MaxFunctions,  \* bound: function objects ever made
    MaxIds         \* bound: records ever connected

VARIABLES
    alive,         \* handlers not yet destroyed
    owner,         \* of each function made so far, its attached_handler
    valid,         \* functions that are not empty
    slots,         \* functions held by a Slot of the client
    invalidators,  \* function_invalidators of each handler
    records,       \* slot_records: id, function and request_removal
    next_id,
    pending_removal,
    it,            \* where emit() stands, zero outside
    calling,       \* whether the slot at it is running
    called         \* (history) ids called in this emission

vars == <<alive, owner, valid, slots, invalidators, records, next_id, pending_removal,
          it, calling, called>>

Function == 1..Len(owner)
locked == it > 0

TypeOK ==
    /\ alive \subseteq Handlers
    /\ owner \in Seq(Handlers) /\ Len(owner) <= MaxFunctions
    /\ valid \subseteq Function /\ slots \subseteq Function
    /\ invalidators \in [Handlers -> SUBSET Function]
    /\ \A i \in 1..Len(records) :
          records[i] \in [id : 0..(MaxIds - 1), f : Function, gone : BOOLEAN]
    /\ next_id \in 0..MaxIds
    /\ pending_removal \in BOOLEAN /\ calling \in BOOLEAN
    /\ it \in 0..(Len(records) + 1)
    /\ called \subseteq 0..(MaxIds - 1)

Init ==
    /\ alive = Handlers
    /\ owner = <<>> /\ valid = {} /\ slots = {}
    /\ invalidators = [h \in Handlers |-> {}]
    /\ records = <<>> /\ next_id = 0
    /\ pending_removal = FALSE
    /\ it = 0 /\ calling = FALSE /\ called = {}

\* The code of the client runs outside emit() and in the slots that it calls.
ClientRuns == it = 0 \/ calling

Connected == {records[i].f : i \in 1..Len(records)}
should_remove(r) == r.gone \/ r.f \notin valid
Stay(rs) == {r \in Range(rs) : ~should_remove(r)}

-----------------------------------------------------------------------------
(* Slots. *)

Bug_Register(h, new, held) == [invalidators EXCEPT ![h] = {new}]

\* register_function_invalidator: those whose function nobody holds any more leave.
Register(h, new, held) == [invalidators EXCEPT ![h] = (@ \cup {new}) \cap (held \cup {new})]

\* A new function of h in a Slot: init_member_common, and init_from_slot.
NewSlot(h) ==
    /\ Len(owner) < MaxFunctions
    /\ owner' = Append(owner, h)
    /\ valid' = valid \cup {Len(owner) + 1}
    /\ slots' = slots \cup {Len(owner) + 1}
    /\ invalidators' = Register(h, Len(owner) + 1, slots \cup Connected)

MakeSlot(h) ==
    /\ ClientRuns /\ h \in alive
    /\ NewSlot(h)
    /\ UNCHANGED <<alive, records, next_id, pending_removal, it, calling, called>>

\* slot_bind and slot_hide: another function, of the handler of a slot that is valid.
DeriveSlot(f) ==
    /\ ClientRuns /\ f \in slots \cap valid
    /\ NewSlot(owner[f])
    /\ UNCHANGED <<alive, records, next_id, pending_removal, it, calling, called>>

DropSlot(f) ==
    /\ ClientRuns /\ f \in slots
    /\ slots' = slots \ {f}
    /\ UNCHANGED <<alive, owner, valid, invalidators, records, next_id, pending_removal,
                   it, calling, called>>

\* ~SignalHandler; it may be the handler whose member is running.
DestroyHandler(h) ==
    /\ ClientRuns /\ h \in alive
    /\ alive' = alive \ {h}
    /\ valid' = valid \ invalidators[h]
    /\ invalidators' = [invalidators EXCEPT ![h] = {}]
    /\ UNCHANGED <<owner, slots, records, next_id, pending_removal, it, calling, called>>

-----------------------------------------------------------------------------
(* The signal. *)

Bug_Reconciled(rs) == Filter(rs, Stay(rs))

\* reconcile_removal: the records are left alone while they are iterated over.
Reconciled(rs) == IF locked THEN rs ELSE Filter(rs, Stay(rs))

\* connect, connect_get and insert, which refuses an empty slot.
Connect(f) ==
    /\ ClientRuns /\ f \in slots \cap valid /\ next_id < MaxIds
    /\ records' = Append(records, [id |-> next_id, f |-> f, gone |-> FALSE])
    /\ next_id' = next_id + 1
    /\ UNCHANGED <<alive, owner, valid, slots, invalidators, pending_removal, it, calling, called>>

\* The records that are asked to go are marked, and removed unless emit() runs.
RemoveAll(ids) ==
    /\ ClientRuns
    /\ records' = Reconciled([i \in 1..Len(records) |->
                                 [records[i] EXCEPT !.gone = @ \/ records[i].id \in ids]])
    /\ pending_removal' = locked
    /\ UNCHANGED <<alive, owner, valid, slots, invalidators, next_id, it, calling, called>>

\* SignalConnection::disconnect, also of a record that left long ago; and clear.
Disconnect(id) == id < next_id /\ RemoveAll({id})
Clear == RemoveAll(0..next_id)

\* emit, and one that is called while another runs, which does nothing.
Emit ==
    /\ it = 0
    /\ it' = 1
    /\ UNCHANGED <<alive, owner, valid, slots, invalidators, records, next_id,
                   pending_removal, calling, called>>

Skip ==
    /\ it \in 1..Len(records) /\ ~calling /\ should_remove(records[it])
    /\ records' = [records EXCEPT ![it].gone = TRUE]
    /\ pending_removal' = TRUE
    /\ it' = it + 1
    /\ UNCHANGED <<alive, owner, valid, slots, invalidators, next_id, calling, called>>

Call ==
    /\ it \in 1..Len(records) /\ ~calling /\ ~should_remove(records[it])
    /\ calling' = TRUE
    /\ called' = called \cup {records[it].id}
    /\ UNCHANGED <<alive, owner, valid, slots, invalidators, records, next_id,
                   pending_removal, it>>

Return ==
    /\ calling
    /\ calling' = FALSE
    /\ it' = it + 1
    /\ UNCHANGED <<alive, owner, valid, slots, invalidators, records, next_id,
                   pending_removal, called>>

EndEmit ==
    /\ it > Len(records) /\ it > 0 /\ ~calling
    /\ it' = 0
    /\ records' = IF pending_removal THEN Filter(records, Stay(records)) ELSE records
    /\ pending_removal' = FALSE
    /\ called' = {}
    /\ UNCHANGED <<alive, owner, valid, slots, invalidators, next_id, calling>>

Next ==
    \/ \E h \in Handlers : MakeSlot(h) \/ DestroyHandler(h)
    \/ \E f \in Function : DeriveSlot(f) \/ DropSlot(f) \/ Connect(f)
    \/ \E id \in 0..(MaxIds - 1) : Disconnect(id)
    \/ Clear \/ Emit \/ Skip \/ Call \/ Return \/ EndEmit

Spec == Init /\ [][Next]_vars

-----------------------------------------------------------------------------
(***************************************************************************)
(* What runs belongs to a handler that lives: a slot, one derived from it  *)
(* or a copy in a record is emptied with its handler, however many were    *)
(* made, dropped and forgotten before, and whoever destroyed it.           *)
(***************************************************************************)
NeverCallsTheDead ==
    \A f \in Connected \cup slots : f \in valid => owner[f] \in alive

(***************************************************************************)
(* An emission calls whatever is connected when it ends exactly once, what *)
(* its slots connected included, and nobody a second time: disconnecting,  *)
(* clearing or destroying during it neither skips nor repeats another.     *)
(***************************************************************************)
EachIsCalledOnce ==
    /\ Call => records[it].id \notin called
    /\ EndEmit => \A i \in 1..Len(records) :
                     ~should_remove(records[i]) => records[i].id \in called
=============================================================================
