--------------------------- MODULE MCSubjectFiles ---------------------------
(***************************************************************************)
(* The file of one subject with two clients whose requests do not overlap, *)
(* and with a user and a synthesis that do.                                *)
(***************************************************************************)
EXTENDS SubjectFiles, TLC

CONSTANTS w1, w2

AgentAndUser ==
    (w1 :> {"append", "synthesize", "ensure", "create", "delete"} @@ w2 :> {"patch", "delete"})
UserAndSynthesis == (w1 :> {"patch"} @@ w2 :> {"synthesize"})
=============================================================================
