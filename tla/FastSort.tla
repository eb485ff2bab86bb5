------------------------------- MODULE FastSort -------------------------------
(***************************************************************************)
(* Sort (fast_sort.cc): a radix sort, least digit first, that goes back    *)
(* and forth between the array and a scratch buffer.  Signed numbers and   *)
(* floating point ones, which are signs and magnitudes, are first mapped   *)
(* to unsigned ones in the same order, and back when all is sorted.        *)
(***************************************************************************)
EXTENDS Integers, Sequences, FiniteSets, SequencesExt

CONSTANTS
    Base,       \* values of a digit, a power of two: 256
    Sizes,      \* kBytes: digits of the types sorted
    MaxLength   \* bound on n

VARIABLES
    kind,       \* "unsigned", "signed" or "float"
    digits,     \* kBytes
    input,      \* (history) the array that was given
    array,      \* p
    scratch,    \* pScratch
    iByte,      \* passes made
    phase       \* "mapping", "sorting", "restoring" or "sorted"

vars == <<kind, digits, input, array, scratch, iByte, phase>>

\* What a one in a digit stands for: a shift by kBits of each digit below it.
Weight(digit) ==
    LET shifted[i \in 0..digit] == IF i = 0 THEN 1 ELSE Base * shifted[i - 1]
    IN  shifted[digit]

Top == Weight(digits)
Half == Top \div 2

TypeOK ==
    /\ digits \in Sizes /\ iByte \in 0..digits
    /\ \A s \in {input, array, scratch} : Len(s) <= MaxLength /\ Range(s) \subseteq 0..(Top - 1)

Init ==
    /\ kind \in {"unsigned", "signed", "float"}
    /\ digits \in Sizes
    /\ input \in SeqOf(0..(Top - 1), MaxLength)
    /\ array = input /\ scratch = <<>>
    /\ iByte = 0 /\ phase = "mapping"

-----------------------------------------------------------------------------
\* The sign bit flipped.
Flipped(x) == (x + Half) % Top

\* What is mapped of a floating point number: a negative one is inverted.
Mapped(x) ==
    IF kind = "unsigned" THEN x
    ELSE IF kind = "signed" \/ x < Half THEN Flipped(x)
    ELSE Top - 1 - x

Restored(x) ==
    IF kind = "unsigned" THEN x
    ELSE IF kind = "signed" \/ x >= Half THEN Flipped(x)
    ELSE Top - 1 - x

Map ==
    /\ phase = "mapping"
    /\ array' = [i \in DOMAIN array |-> Mapped(array[i])]
    /\ phase' = "sorting"
    /\ UNCHANGED <<kind, digits, input, scratch, iByte>>

Digit(x) == (x \div Weight(iByte)) % Base

Bug_Place(a, i) ==
    Cardinality({j \in DOMAIN a : Digit(a[j]) < Digit(a[i])})
    + Cardinality({j \in i..Len(a) : Digit(a[j]) = Digit(a[i])})

\* byteCounts: after those with a lower digit, and after those before it with the same.
Place(a, i) ==
    Cardinality({j \in DOMAIN a : Digit(a[j]) < Digit(a[i])})
    + Cardinality({j \in 1..i : Digit(a[j]) = Digit(a[i])})

Placed(a) == [p \in DOMAIN a |-> a[CHOOSE i \in DOMAIN a : Place(a, i) = p]]

\* A pass of SortInternal; the last one of an odd number leaves the result in scratch.
Pass ==
    /\ phase = "sorting" /\ iByte < digits
    /\ IF iByte % 2 = 0 THEN scratch' = Placed(array) /\ UNCHANGED array
                        ELSE array' = Placed(scratch) /\ UNCHANGED scratch
    /\ iByte' = iByte + 1
    /\ UNCHANGED <<kind, digits, input, phase>>

CopyBack ==
    /\ phase = "sorting" /\ iByte = digits
    /\ array' = IF digits % 2 = 1 THEN scratch ELSE array
    /\ phase' = "restoring"
    /\ UNCHANGED <<kind, digits, input, scratch, iByte>>

Restore ==
    /\ phase = "restoring"
    /\ array' = [i \in DOMAIN array |-> Restored(array[i])]
    /\ phase' = "sorted"
    /\ UNCHANGED <<kind, digits, input, scratch, iByte>>

Next == Map \/ Pass \/ CopyBack \/ Restore

Spec == Init /\ [][Next]_vars

-----------------------------------------------------------------------------
\* The number that x stands for; the negative zero is below the other.
Number(x) ==
    CASE kind = "unsigned" -> x
      [] kind = "signed" -> IF x < Half THEN x ELSE x - Top
      [] OTHER -> IF x < Half THEN x ELSE Half - x - 1

Occurrences(s, x) == Cardinality({i \in DOMAIN s : s[i] = x})

(***************************************************************************)
(* The array ends up with what it held, in the order of the numbers, for   *)
(* types of one digit and of several, signed, unsigned and floating point. *)
(***************************************************************************)
SortsTheArray ==
    phase = "sorted" =>
        /\ \A x \in Range(array) \cup Range(input) : Occurrences(array, x) = Occurrences(input, x)
        /\ \A i \in 1..(Len(array) - 1) : Number(array[i]) <= Number(array[i + 1])
=============================================================================
