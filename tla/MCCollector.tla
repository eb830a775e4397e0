---------------------------- MODULE MCCollector -----------------------------
(***************************************************************************)
(* Collector with two workspaces, and requests of one session each.        *)
(***************************************************************************)
EXTENDS Collector, TLC

CONSTANTS c1, c2, w1, w2

\* The service comes to the workspace without sessions first; a user sends all
\* over again.
Routes == (c1 :> <<w2, w1>> @@ c2 :> <<w1, w2>>)
ServiceAndUser == (c1 :> {FALSE} @@ c2 :> {TRUE})

Homes == <<w1, w1>>
Turns == <<2, 1>>
=============================================================================
