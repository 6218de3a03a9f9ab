----------------------------- MODULE Selection -----------------------------
(* What is wanted of a sequence, as a recursive function: the selection by *)
(* an operator that Sequences has cannot be reasoned about.                *)
EXTENDS Naturals, Sequences

(* The elements of s that are in W, in their order.                        *)
Selected(s, W) ==
  LET upTo[n \in 0 .. Len(s)] ==
        IF n = 0 THEN <<>>
        ELSE IF s[n] \in W THEN Append(upTo[n - 1], s[n])
        ELSE upTo[n - 1]
  IN upTo[Len(s)]
=============================================================================
