------------------------------ MODULE MCServer ------------------------------
(***************************************************************************)
(* Server for TLC: three clients compete for at most two descriptors, so   *)
(* that numbers are reissued and the last one is spent.                    *)
(***************************************************************************)
EXTENDS Server, TLC

ClientSymmetry == Permutations(Clients)
AnyFault == AllFaults
NoFaults == {}
=============================================================================
