------------------------------ MODULE Sublists ------------------------------
(* Parts of sequences, defined so that their properties can be proved. *)
EXTENDS Integers, Sequences

(* The elements of s that are in K, in their order. *)
Among(s, K) ==
    LET kept[i \in 0 .. Len(s)] ==
            IF i = 0 THEN <<>>
            ELSE IF s[i] \in K THEN Append(kept[i - 1], s[i]) ELSE kept[i - 1]
    IN  kept[Len(s)]
=============================================================================
