----------------------------- MODULE MCGrpcPoller -----------------------------
(* Pollers with delays of a few ticks.                                     *)
EXTENDS GrpcPoller

Polls(p, min, max) == [period |-> p, minBackoff |-> min, maxBackoff |-> max]

\* A periodic poller that is made to poll on demand, with longer backoffs, and back.
MCPolicies == {Polls(4, 1, 4), Polls(0, 2, 3)}
=============================================================================
