---------------------------- MODULE MCContributions ----------------------------
(***************************************************************************)
(* Contributions for TLC: one contribution request that is there and one   *)
(* to be created, and three clients, which are alike.                      *)
(***************************************************************************)
EXTENDS Contributions, TLC

CONSTANTS cr1, cr2, p1, p2, p3, none

AnyClients == Permutations(Clients)
=============================================================================
