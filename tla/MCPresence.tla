---------------------------- MODULE MCPresence ------------------------------
(* Presence for TLC: pages, users and files are interchangeable. *)
EXTENDS Presence, TLC

Symmetry == Permutations(Pages) \union Permutations(Users) \union Permutations(Files)
=============================================================================
