-------------------------- MODULE MCDataDirectory ---------------------------
(***************************************************************************)
(* DataDirectory with interchangeable facts and a bound on what commands,  *)
(* changes of the configuration and deaths come to together.               *)
(***************************************************************************)
EXTENDS DataDirectory, TLC

CONSTANT MaxEvents

FewEvents == runs + flips + breaks <= MaxEvents

TokenSymmetry == Permutations(Tokens)
=============================================================================
