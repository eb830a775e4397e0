----------------------------- MODULE MCRegistry -----------------------------
(***************************************************************************)
(* Registry with two requests in flight, two remotes, a name and a path,   *)
(* asked for the ways the program does: a collector sends the path of a    *)
(* workspace and its remote if it has one, an area its first remote and    *)
(* its name, the web picks a name, and a path or remote may be missing, or *)
(* normalise to nothing, so that no signal is left.                        *)
(***************************************************************************)
EXTENDS Registry, TLC

CONSTANTS n1, x1

AskedHints ==
    {[remote |-> r, name |-> None, path |-> x1] : r \in Remotes \cup {None}}
        \cup {[remote |-> r, name |-> n1, path |-> None] : r \in Remotes \cup {None}}
        \cup {[remote |-> None, name |-> None, path |-> None]}

RegistrySymmetry ==
    Permutations(Requests) \cup Permutations(Remotes) \cup Permutations(Ids)
=============================================================================
