--------------------------- MODULE MCResourceLocker ---------------------------
(***************************************************************************)
(* ResourceLocker for TLC: two or three requests on a tree with one        *)
(* contribution branch.  Requests are served once, so the system comes to  *)
(* rest and deadlock is not checked.                                       *)
(***************************************************************************)
EXTENDS ResourceLocker, TLC

CONSTANTS q1, q2, q3, main, contribution

Symmetry == Permutations(Requests)
=============================================================================
