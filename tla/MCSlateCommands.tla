---------------------------- MODULE MCSlateCommands ----------------------------
EXTENDS SlateCommands

MCElements == {"mode", "gain", "limit"}
MCType == [mode |-> "uint32", gain |-> "float", limit |-> "int64"]
\* A validator that does not take 1 back, and two that look at the new value only.
MCRejected ==
    [mode |-> {<<1, 0>>}, gain |-> (0..5) \X {3}, limit |-> (-3..5) \X {-3, -2, -1, 5}]

\* Numbers in and out of bounds, one that sets the upper bits, one that a validator
\* rejects, one of the wrong type, and an element under its two names.
MCCommands ==
    {[type |-> "Int", name |-> <<"mode", "relative">>, value |-> 1],
     [type |-> "Int", name |-> <<"mode", "full">>, value |-> -1],
     [type |-> "Dbl", name |-> <<"mode", "relative">>, value |-> 1],
     [type |-> "Dbl", name |-> <<"gain", "relative">>, value |-> 2],
     [type |-> "Dbl", name |-> <<"gain", "relative">>, value |-> 4],
     [type |-> "Int", name |-> <<"limit", "relative">>, value |-> 2],
     [type |-> "Int", name |-> <<"limit", "relative">>, value |-> -1]}
================================================================================
