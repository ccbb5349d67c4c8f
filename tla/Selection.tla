------------------------------- MODULE Selection -------------------------------
(***************************************************************************)
(* Erasing elements of a std::vector.  SelectSeq says the same, but is     *)
(* built into the tools, and the provers know nothing about it.            *)
(***************************************************************************)
EXTENDS Naturals, Sequences

\* The elements of s that are in S, in their order.
Kept(s, S) ==
    LET kept[n \in 0 .. Len(s)] ==
          IF n = 0 THEN <<>>
          ELSE IF s[n] \in S THEN Append(kept[n - 1], s[n]) ELSE kept[n - 1]
    IN  kept[Len(s)]
=============================================================================
