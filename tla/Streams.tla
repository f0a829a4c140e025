------------------------------ MODULE Streams -------------------------------
(* What the models of stages use to take streams apart and put them together. *)
EXTENDS Integers, Sequences, SequencesExt

\* The first n members of s, or what there is of them, and the rest.
First(s, n) == SubSeq(s, 1, IF n < Len(s) THEN n ELSE Len(s))
Rest(s, n) == SubSeq(s, n + 1, Len(s))

\* The sum of the numbers of s.
Total(s) ==
    LET sum[i \in 0..Len(s)] == IF i = 0 THEN 0 ELSE sum[i - 1] + s[i]
    IN  sum[Len(s)]
=============================================================================
