-------------------------- MODULE MCPageCacheFile --------------------------
(* Small payloads for PageCacheFile. *)
EXTENDS PageCacheFile, TLC

(* Sums tell these apart, torn or not; the last one is too large. *)
Distinct == {<<9, 9>>, <<4, 1>>, <<1, 1, 1>>}

(* Two payloads whose first and second halves are swapped pairs. *)
Permuted == {<<1, 2, 2, 1>>, <<2, 1, 1, 2>>}

(* Pages differ by name only. *)
PageSymmetry == Permutations(PageIds)

(* The proofs' assumptions hold of the payloads of the passing runs. *)
ASSUME DistinctSums == Payloads = Distinct => SumsTell /\ SelfDelimiting
=============================================================================
