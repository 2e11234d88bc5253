----------------------------- MODULE MCMembership -----------------------------
(***************************************************************************)
(* Membership for TLC: a root and one node that may be created, two users, *)
(* who are alike, and two requests or events at once.                      *)
(***************************************************************************)
EXTENDS Membership, TLC

CONSTANTS root, child, owner, u1, u2, p1, p2, none

Alike == Permutations(Users) \cup Permutations(Clients)
=============================================================================
