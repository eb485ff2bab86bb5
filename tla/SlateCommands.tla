---------------------------- MODULE SlateCommands ----------------------------
(***************************************************************************)
(* SlateCommandInterface: setting elements of a built slate by name, one   *)
(* at a time or several that shall all be set or none.  An integer type is *)
(* modelled by one of its kind with few values, a floating point value by  *)
(* a number; Big is finite as a double only.  Names stand for their hashes.*)
(* Slate::store is external: it fails if the validator of the element does,*)
(* which is shown the old value too.                                       *)
(***************************************************************************)
EXTENDS Integers, Sequences

CONSTANTS
    Elements,   \* the commandable ones: integers and floating point numbers
    Type,       \* of each: "bool", "int32", "uint32", "int64", "float" or "double"
    Static,     \* those in the static shard
    Rejected,   \* by the validator of each: pairs of the old and the new value
    Commands,   \* those that are sent: a type, a name and a value
    MaxBatch    \* bound: commands in a batch (50)

VARIABLES
    names,      \* keys of elements: pairs of an element and how it is named
    values,     \* of the elements, in the slate
    last        \* the last request and the answer to it

vars == <<names, values, last>>

Big == 4
Infinite == 5
Inputs == -3..5

\* The bounds of validate_int_element_bounds, those of a bool and of types of two bits,
\* and what is finite.
Bounds ==
    [bool |-> 0..1, int32 |-> -2..1, uint32 |-> -2..3, int64 |-> Inputs,
     float |-> 0..3, double |-> 0..Big]

\* What the slate can hold: the program writes the elements too, and not only numbers.
Holds ==
    [bool |-> 0..1, int32 |-> -2..1, uint32 |-> 0..3, int64 |-> Inputs,
     float |-> 0..3 \cup {Infinite}, double |-> 0..Big \cup {Infinite}]

\* Storing converts: a negative number for an unsigned element sets its upper bits.
Stored(e, v) == IF Type[e] = "uint32" THEN v % 4 ELSE v

Kind(e) == IF Type[e] \in {"float", "double"} THEN "Dbl" ELSE "Int"

TypeOK ==
    /\ names \in SUBSET (Elements \X {"relative", "full"})
    /\ \A e \in Elements : values[e] \in Holds[Type[e]]
    /\ last \in [what : {"init", "write", "one", "batch"}, cmds : Seq(Commands), success : BOOLEAN,
                 result : BOOLEAN]

\* init: every element under its name below the builder's subtree and, if there is a
\* prefix, under its full path.
Init ==
    /\ names \in {Elements \X {"relative"}, Elements \X {"relative", "full"}}
    /\ values \in [Elements -> {0}]
    /\ last = [what |-> "init", cmds |-> <<>>, success |-> TRUE, result |-> TRUE]

\* set of an element: the number is checked before it is converted, and what is stored after.
Settable(e, v, old) == v \in Bounds[Type[e]] /\ <<old, Stored(e, v)>> \notin Rejected[e]

\* lookup, get and set: whether a command is accepted when the slate holds these values.
Bug_Accepted(c, vals) == c.name \in names /\ c.type = Kind(c.name[1])

Accepted(c, vals) ==
    LET e == c.name[1]
    IN  /\ c.name \in names
        /\ c.type = Kind(e)
        /\ Settable(e, c.value, vals[e])

validate_element(e) == e \notin Static

\* The program writes an element, past its validator if it has rights that do.
Write(e, v) ==
    /\ values' = [values EXCEPT ![e] = v]
    /\ last' = [what |-> "write", cmds |-> <<>>, success |-> TRUE, result |-> TRUE]
    /\ UNCHANGED names

\* set_int_by_name, set_int_by_hash, set_fp_by_name and set_fp_by_hash.
SetOne(c) ==
    LET ok == Accepted(c, values) /\ validate_element(c.name[1])
    IN  /\ values' = IF ok THEN [values EXCEPT ![c.name[1]] = Stored(c.name[1], c.value)]
                     ELSE values
        /\ last' = [what |-> "one", cmds |-> <<c>>, success |-> ok, result |-> TRUE]
        /\ UNCHANGED names

\* The commands of a batch up to the first that fails; each keeps the value it replaces.
Applied(batch) ==
    LET after[n \in 0..Len(batch)] ==
          IF n = 0 THEN [ok |-> TRUE, saved |-> <<>>, values |-> values]
          ELSE LET s == after[n - 1]
                   c == batch[n]
               IN  IF s.ok /\ Accepted(c, s.values)
                   THEN [ok |-> TRUE, saved |-> Append(s.saved, s.values[c.name[1]]),
                         values |-> [s.values EXCEPT ![c.name[1]] = Stored(c.name[1], c.value)]]
                   ELSE [s EXCEPT !.ok = FALSE]
    IN  after[Len(batch)]

Bug_RolledBack(s, batch) ==
    [values |-> [e \in Elements |->
                    IF \E i \in 1..(Len(s.saved) - 1) : batch[i].name[1] = e
                    THEN values[e] ELSE s.values[e]],
     ok |-> TRUE]

\* What was saved is set again, in the order of the commands, by the rules for single ones:
\* it may be refused, for a validator or for a number that is not finite.
RolledBack(s, batch) ==
    LET undone[n \in 0..Len(s.saved)] ==
          IF n = 0 THEN [values |-> s.values, ok |-> TRUE]
          ELSE LET r == undone[n - 1]
                   e == batch[n].name[1]
               IN  IF validate_element(e) /\ Settable(e, s.saved[n], r.values[e])
                   THEN [r EXCEPT !.values[e] = Stored(e, s.saved[n])]
                   ELSE [r EXCEPT !.ok = FALSE]
    IN  undone[Len(s.saved)]

\* set_multi_by_hash
SetMulti(batch) ==
    LET s == Applied(batch)
        r == IF s.ok THEN [values |-> s.values, ok |-> TRUE] ELSE RolledBack(s, batch)
    IN  /\ values' = r.values
        /\ last' = [what |-> "batch", cmds |-> batch, success |-> s.ok, result |-> r.ok]
        /\ UNCHANGED names

Next ==
    \/ \E e \in Elements : \E v \in Holds[Type[e]] : Write(e, v)
    \/ \E c \in Commands : SetOne(c)
    \/ \E n \in 0..MaxBatch : \E batch \in [1..n -> Commands] : SetMulti(batch)

Spec == Init /\ [][Next]_vars

-----------------------------------------------------------------------------
Distinct(batch) ==
    /\ \A i \in 1..Len(batch) : validate_element(batch[i].name[1])
    /\ \A i, j \in 1..Len(batch) : i # j => batch[i].name[1] # batch[j].name[1]

Commanded(batch, e) == \E i \in 1..Len(batch) : batch[i].name[1] = e

(***************************************************************************)
(* A batch of commands for different elements, none of them static, sets   *)
(* all of them to what was asked, or fails, wherever in it a name is       *)
(* unknown, a type wrong, a value out of bounds or one the validator       *)
(* rejects.  When it fails it says whether the slate is as it was, and     *)
(* only an element whose old value could not be set again, one the         *)
(* validator does not take back or that is not finite, is not.             *)
(***************************************************************************)
DistinctBatchIsAtomic ==
    LET batch == last'.cmds
    IN  last'.what = "batch" /\ Distinct(batch) =>
            /\ \A e \in Elements : values'[e] # values[e] => Commanded(batch, e)
            /\ IF last'.success
               THEN /\ last'.result
                    /\ \A i \in 1..Len(batch) :
                          values'[batch[i].name[1]] = Stored(batch[i].name[1], batch[i].value)
               ELSE /\ last'.result <=> values' = values
                    /\ \A e \in Elements :
                          values'[e] # values[e] => ~Settable(e, values[e], values'[e])

(***************************************************************************)
(* "This command is atomic: if any individual set is rejected [...], all   *)
(* sets will be rolled back": said of any batch.  One that commands an     *)
(* element twice ends with the value between the two.                      *)
(***************************************************************************)
BatchIsAtomic ==
    [][last'.what = "batch" /\ ~last'.success /\ last'.result => values' = values]_vars
=============================================================================
