---------------------------- MODULE MCSlateBuilder ----------------------------
EXTENDS SlateBuilder

\* Three names under each other: room for a mask, one above it and one below it.
MCPaths == {<<"a">>, <<"a", "b">>, <<"a", "b", "c">>}
=============================================================================
