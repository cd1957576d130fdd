---------------------------- MODULE MCNavHistory ----------------------------
(* NavHistory on a few pages. *)
EXTENDS NavHistory, TLC

(* Pages differ by name only. *)
PageSymmetry == Permutations(Pages)

(* The history variable of the documented promise is not part of a state *)
(* the passing runs tell apart.                                          *)
NoBefore == <<back, fwd, cur, origin, recent, pending, delta, target, loading, gone,
              previewed>>
=============================================================================
