---------------------------- MODULE Subsequences ----------------------------
(***************************************************************************)
(* Selecting from a sequence, and joining sequences.  SelectSeq and the    *)
(* operators of the community modules do both, but with operators and      *)
(* folds, which leave a proof nothing to start from: these two are         *)
(* functions of the length, and SubsequencesProofs has their theorems.     *)
(***************************************************************************)
EXTENDS Naturals, Sequences

\* A sequence, of whatever it has.
IsSeq(s) == s \in Seq({s[i] : i \in DOMAIN s})

\* The elements of s at the indices in I, in order.
Subsequence(s, I) ==
  LET upTo[n \in 0..Len(s)] ==
        IF n = 0 THEN <<>> ELSE IF n \in I THEN Append(upTo[n - 1], s[n]) ELSE upTo[n - 1]
  IN  upTo[Len(s)]

\* The sequences, one after the other.
Concat(seqs) ==
  LET upTo[n \in 0..Len(seqs)] == IF n = 0 THEN <<>> ELSE upTo[n - 1] \o seqs[n]
  IN  upTo[Len(seqs)]
=============================================================================
