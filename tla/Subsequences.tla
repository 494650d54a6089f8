----------------------------- MODULE Subsequences -----------------------------
(* What the filters of the Rust code keep of a sequence. *)
EXTENDS Naturals, Sequences

\* The elements of s at the positions in set, in their order.
Subsequence(s, set) ==
  LET upto[n \in 0 .. Len(s)] ==
        IF n = 0 THEN <<>>
        ELSE IF n \in set THEN Append(upto[n - 1], s[n]) ELSE upto[n - 1]
  IN  upto[Len(s)]

=============================================================================
