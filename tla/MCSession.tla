------------------------------ MODULE MCSession -----------------------------
(* Session on two or three pages. *)
EXTENDS Session, TLC

(* Pages differ by name only. *)
PageSymmetry == Permutations(Pages)

(* What the user typed last is history: no action reads it. *)
NoTyped == <<at, pageID, rowVars, saveVars, flagVars, navVars, headerVars, outside, bounds>>
=============================================================================
