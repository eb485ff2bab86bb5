------------------------------ MODULE SymbolTable ------------------------------
(***************************************************************************)
(* SymbolTable: names to integers and back, as two maps that are filled    *)
(* together.  A name may be an alias, an integer may have several names;   *)
(* an entry that is there is never replaced.  Two tables, as copy_reads    *)
(* takes one over into the other.                                          *)
(***************************************************************************)
EXTENDS Integers, Sequences

CONSTANTS
    Tables,
    Names,
    Ints,
    Files       \* what is read: sequences of pairs <<name, integer>>

VARIABLES
    toInt,      \* to_int_table
    toString,   \* to_string_table
    first       \* (history) of each name, the integer it was first given with

vars == <<toInt, toString, first>>

Missing == "missing"
NoInts == [s \in Names |-> Missing]
NoStrings == [i \in Ints |-> Missing]

TypeOK ==
    /\ toInt \in [Tables -> [Names -> Ints \cup {Missing}]]
    /\ toString \in [Tables -> [Ints -> Names \cup {Missing}]]
    /\ first \in [Tables -> [Names -> Ints \cup {Missing}]]

Init ==
    /\ toInt = [t \in Tables |-> NoInts]
    /\ toString = [t \in Tables |-> NoStrings]
    /\ first = toInt

Bug_Inserted(map, key, value) == [map EXCEPT ![key] = value]

\* std::map::insert
Inserted(map, key, value) ==
    IF map[key] = Missing THEN [map EXCEPT ![key] = value] ELSE map

add(t, s, i) ==
    /\ toInt' = [toInt EXCEPT ![t] = Inserted(@, s, i)]
    /\ toString' = [toString EXCEPT ![t] = Inserted(@, i, s)]
    /\ first' = [first EXCEPT ![t][s] = IF @ = Missing THEN i ELSE @]

\* read: what the addition of an entry answers is ignored; the first n entries
\* are added when the one after them does not parse.
Filled(map, f, key, value, n) ==
    LET after[m \in 0..n] ==
          IF m = 0 THEN map ELSE Inserted(after[m - 1], f[m][key], f[m][value])
    IN  after[n]

read(t, f, n) ==
    /\ toInt' = [toInt EXCEPT ![t] = Filled(@, f, 1, 2, n)]
    /\ toString' = [toString EXCEPT ![t] = Filled(@, f, 2, 1, n)]
    /\ first' = [first EXCEPT ![t] =
         [s \in Names |->
           IF @[s] # Missing \/ \A m \in 1..n : f[m][1] # s THEN @[s]
           ELSE f[CHOOSE m \in 1..n : f[m][1] = s /\ \A l \in 1..(m - 1) : f[l][1] # s][2]]]

clear_reads(t) ==
    /\ toInt' = [toInt EXCEPT ![t] = NoInts]
    /\ toString' = [toString EXCEPT ![t] = NoStrings]
    /\ first' = [first EXCEPT ![t] = NoInts]

copy_reads(t, other) ==
    /\ toInt' = [toInt EXCEPT ![t] = toInt[other]]
    /\ toString' = [toString EXCEPT ![t] = toString[other]]
    /\ first' = [first EXCEPT ![t] = first[other]]

Next == \E t \in Tables :
    \/ \E s \in Names, i \in Ints : add(t, s, i)
    \/ \E f \in Files : \E n \in 0..Len(f) : read(t, f, n)
    \/ clear_reads(t)
    \/ \E other \in Tables : copy_reads(t, other)

Spec == Init /\ [][Next]_vars

-----------------------------------------------------------------------------
(***************************************************************************)
(* What a table answers can be asked back: the integer of a name has a     *)
(* name and the name of an integer has an integer, and a name keeps the    *)
(* integer it came with first, so a file read later cannot rename a        *)
(* command.  That the way back ends where it began is not so, for aliases. *)
(***************************************************************************)
NamesResolve == \A t \in Tables :
    /\ \A s \in Names : toInt[t][s] # Missing => toString[t][toInt[t][s]] # Missing
    /\ \A i \in Ints : toString[t][i] # Missing => toInt[t][toString[t][i]] # Missing
    /\ toInt[t] = first[t]
=============================================================================
