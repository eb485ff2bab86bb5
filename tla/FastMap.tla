-------------------------------- MODULE FastMap --------------------------------
(***************************************************************************)
(* FastMap32: a hash table of fixed size that never moves or erases an     *)
(* element.  A probe loads a few words at once, from the slot of the hash  *)
(* on, and goes on a whole bucket further.  The slot is any: the load need *)
(* not be aligned (a build whose loads must be stops there), and from the  *)
(* last slots it reads on past m_keys, where m_values begins, as m_size    *)
(* does after m_values.  A word past the end that looks like the key, or   *)
(* like an empty slot, is taken for one, and written as one.               *)
(***************************************************************************)
EXTENDS Integers, FiniteSets, FiniteSetsExt

CONSTANTS
    Wide,       \* 2^32
    Keys,       \* all words but kInvalidU32, which marks an empty slot
    Values,     \* words
    Slots,      \* kInternalCap
    Lanes,      \* words loaded at once: 4
    Bucket,     \* kElemsPerBucket: 16
    Capacity,   \* kCapacity
    Home        \* of each key, Hash(key) & kInternalCapMask

VARIABLES
    keys,       \* m_keys
    values,     \* m_values
    size,       \* m_size
    inserted,   \* (history) what the insertions that succeeded said of each key
    strayed     \* (history) one of them loaded words past m_keys

vars == <<keys, values, size, inserted, strayed>>

Empty == Wide - 1    \* kInvalidU32
Never == -1
Slot == 0..(Slots - 1)

TypeOK ==
    /\ keys \in [Slot -> Keys \cup {Empty}]
    /\ values \in [Slot -> Keys \cup Values]
    /\ size \in Nat
    /\ inserted \in [Keys -> Values \cup {Never}]
    /\ strayed \in BOOLEAN

NoKeys == [s \in Slot |-> Empty]
Nothing == [k \in Keys |-> Never]

Init ==
    /\ keys = NoKeys
    /\ values \in {[s \in Slot |-> v] : v \in Values}    \* not initialized
    /\ size = 0
    /\ inserted = Nothing
    /\ strayed = FALSE

-----------------------------------------------------------------------------
Word(w) == IF w < Slots THEN keys[w] ELSE values[w - Slots]

Probes == 0..((Slots - 1) \div Bucket)
At(k, probe) == (Home[k] + probe * Bucket) % Slots
Loaded(k, probe) == At(k, probe)..(At(k, probe) + Lanes - 1)

\* The first probe that shows the key or an empty slot ends the search.
Ends(k) == {probe \in Probes : \E w \in Loaded(k, probe) : Word(w) \in {k, Empty}}

Strays(k) ==
    \E probe \in Probes :
        /\ \A last \in Ends(k) : probe <= last
        /\ \E w \in Loaded(k, probe) : w >= Slots

Bug_Found(k) ==
    {w \in UNION {Loaded(k, probe) : probe \in {0} \cap Ends(k)} : Word(w) = k}

\* Find: the words of the last probe with the key, of which it takes the first.
Found(k) ==
    IF Ends(k) = {} THEN {} ELSE {w \in Loaded(k, Min(Ends(k))) : Word(w) = k}

\* The key goes to a word, and the value as far behind, where m_size may be.
Store(k, v, w) ==
    /\ keys' = IF w < Slots THEN [keys EXCEPT ![w] = k] ELSE keys
    /\ values' = IF w < Slots THEN [values EXCEPT ![w] = v] ELSE [values EXCEPT ![w - Slots] = k]
    /\ inserted' = [inserted EXCEPT ![k] = v]
    /\ strayed' = (strayed \/ Strays(k))

SizeAfter(v, w) ==
    CASE w = Slots -> (size \div Wide) * Wide + v
      [] w = Slots + 1 -> v * Wide + (size % Wide)
      [] OTHER -> size

Insert(k, v) ==
    /\ Ends(k) # {}
    /\ LET empty == {w \in Loaded(k, Min(Ends(k))) : Word(w) = Empty}
       IN  \/ /\ Found(k) # {}
              /\ Store(k, v, Min(Found(k)))
              /\ size' = SizeAfter(v, Min(Found(k)))
           \/ /\ Found(k) = {} /\ size < Capacity
              /\ Store(k, v, Min(empty))
              /\ size' = SizeAfter(v, Min(empty)) + 1

Clear ==
    /\ keys' = NoKeys
    /\ size' = 0
    /\ inserted' = Nothing
    /\ strayed' = FALSE
    /\ UNCHANGED values

Next ==
    \/ \E k \in Keys, v \in Values : Insert(k, v)
    \/ Clear

Spec == Init /\ [][Next]_vars

-----------------------------------------------------------------------------
(***************************************************************************)
(* As long as no insertion loaded words past m_keys: every key is found    *)
(* with the value that was inserted last, also when other keys filled its  *)
(* first slots, a key that was not inserted is not (unless the search for  *)
(* it leaves m_keys), and the size counts the keys.  Nothing is promised   *)
(* once an insertion strayed: a value may then pass for a key.             *)
(***************************************************************************)
FindsWhatWasInserted ==
    ~strayed =>
        /\ \A k \in Keys : inserted[k] # Never \/ ~Strays(k) =>
              {values[s] : s \in Found(k)} = {inserted[k]} \ {Never}
        /\ size = Cardinality({k \in Keys : inserted[k] # Never})
=============================================================================
