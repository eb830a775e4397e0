---------------------------- MODULE MCCredentials ----------------------------
(***************************************************************************)
(* Credentials on a machine with the background agent and one user, three  *)
(* access tokens (the one in the file and one more for each process), two  *)
(* refresh tokens (the one in the file and its successor) and one fault.   *)
(* A token lives two ticks, of which the last is the minute of slack; a    *)
(* positive answer is remembered as long.                                  *)
(***************************************************************************)
EXTENDS Credentials, TLC

CredentialsSymmetry == Permutations(Tokens) \cup Permutations(Refreshes)
=============================================================================
