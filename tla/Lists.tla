------------------------------- MODULE Lists -------------------------------
(* Lists that the parsers and the loader filter. *)
EXTENDS Integers, Sequences

\* The entries of s that are at the positions in K, in their order.  This is a
\* recursive function, not SelectSeq, for the sake of the proofs about it.
Kept(s, K) ==
  LET kept[i \in 0 .. Len(s)] ==
        IF i = 0 THEN <<>>
        ELSE IF i \in K THEN Append(kept[i - 1], s[i]) ELSE kept[i - 1]
  IN  kept[Len(s)]
=============================================================================
