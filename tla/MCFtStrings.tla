----------------------------- MODULE MCFtStrings -----------------------------
(* Three strings, one shared element.                                      *)
EXTENDS FtStrings

MCSeqDefault == -1
MCInitialRecord == [e \in Element |-> 0]

\* The sensors of the strings differ, so what a string misses shows in its vote.
MCReading(s) ==
    {[e \in Element |-> IF s = 1 THEN Lowest(Value) ELSE Highest(Value)]}

\* Control code that remembers: the parity of the combined inputs so far.
MCLaw(c, r) == (c + r[CHOOSE e \in Element : TRUE]) % 2
=============================================================================
