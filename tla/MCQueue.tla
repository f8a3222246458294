-------------------------------- MODULE MCQueue --------------------------------
(* PriorityQueue for TLC: C++ runs of an editor and debug sessions of an owner,
   with the ranks of ROLE_RANK *)
EXTENDS PriorityQueue

CONSTANTS cpp, owner

MCRank == [r \in Runs |-> IF r = owner THEN 3 ELSE 1]
=============================================================================
