------------------------- MODULE SubsequencesProofs -------------------------
(***************************************************************************)
(* Theorems about Subsequence and Concat.  What they compute is defined by *)
(* recursion on a length, so every proof starts with the equation of the   *)
(* recursive function (it exists for every length) and goes by induction,  *)
(* which is over a set of lengths here: the lengths for which the claim is *)
(* true have 0 and, with n, n + 1.                                         *)
(***************************************************************************)
EXTENDS Subsequences, SequenceTheorems, WellFoundedInduction, TLAPS

-----------------------------------------------------------------------------
(* Induction.                                                              *)

\* A set that has 0 and is closed under successors has all numbers.
LEMMA SetInduction ==
  ASSUME NEW P, 0 \in P, \A n \in Nat : n \in P => n + 1 \in P
  PROVE  \A n \in Nat : n \in P
<1> DEFINE T == Nat \ P
<1> SUFFICES ASSUME T # {} PROVE FALSE
  OBVIOUS
<1> HIDE DEF T
<1>1. T \subseteq Nat
  BY DEF T
<1>2. PICK m \in T : \A k \in T : ~(<<k, m>> \in OpToRel(<, Nat))
  BY <1>1, NatLessThanWellFounded, WFMin
<1>3. m \in Nat /\ m # 0 /\ m \notin P
  BY <1>1 DEF T
<1>4. m - 1 \in Nat /\ m - 1 < m /\ (m - 1) + 1 = m
  BY <1>3
<1>5. m - 1 \notin P
  BY <1>3, <1>4
<1>6. <<m - 1, m>> \in OpToRel(<, Nat)
  BY <1>3, <1>4 DEF OpToRel
<1> QED
  BY <1>2, <1>4, <1>5, <1>6 DEF T

\* A sequence that is not empty is one shorter, and its last element.
LEMMA FrontAndLast ==
  ASSUME NEW S, NEW s \in Seq(S), NEW n \in Nat, Len(s) = n + 1
  PROVE  /\ SubSeq(s, 1, n) \in Seq(S) /\ Len(SubSeq(s, 1, n)) = n
         /\ s[n + 1] \in S
         /\ s = Append(SubSeq(s, 1, n), s[n + 1])
         /\ \A i \in 1..n : SubSeq(s, 1, n)[i] = s[i]
<1> DEFINE t == SubSeq(s, 1, n)
<1>1. t \in Seq(S) /\ Len(t) = n /\ s[n + 1] \in S /\ \A i \in 1..n : t[i] = s[i]
  OBVIOUS
<1> HIDE DEF t
<1>2. /\ Append(t, s[n + 1]) \in Seq(S) /\ Len(Append(t, s[n + 1])) = n + 1
      /\ \A i \in 1..n : Append(t, s[n + 1])[i] = s[i]
      /\ Append(t, s[n + 1])[n + 1] = s[n + 1]
  BY <1>1
<1>3. s = Append(t, s[n + 1])
  BY <1>2, SeqEqual
<1> QED
  BY <1>1, <1>3 DEF t

-----------------------------------------------------------------------------
(* Sequences of whatever they have.                                        *)

\* The places of a sequence, which may be empty.
LEMMA IsSeqBasics ==
  ASSUME NEW s, IsSeq(s)
  PROVE  Len(s) \in Nat /\ DOMAIN s = 1..Len(s) /\ (s = <<>> <=> Len(s) = 0)
  BY DEF IsSeq

\* A sequence of anything is one of more, and of no more than it has.
LEMMA SeqWidens ==
  ASSUME NEW S, NEW T, S \subseteq T, NEW s \in Seq(S)
  PROVE  s \in Seq(T)
<1>1. Len(s) \in Nat /\ s \in [1..Len(s) -> S]
  OBVIOUS
<1>2. s \in [1..Len(s) -> T]
  BY <1>1
<1> QED
  BY <1>1, <1>2, SeqDef

\* A sequence of something is a sequence.
LEMMA SeqIsSeq ==
  ASSUME NEW S, NEW s \in Seq(S)
  PROVE  IsSeq(s)
<1> DEFINE R == {s[i] : i \in DOMAIN s}
<1>1. Len(s) \in Nat /\ s \in [1..Len(s) -> S] /\ DOMAIN s = 1..Len(s)
  OBVIOUS
<1>2. s \in [1..Len(s) -> R]
  BY <1>1
<1>3. s \in Seq(R)
  BY <1>1, <1>2, SeqDef
<1> QED
  BY <1>3 DEF IsSeq

\* A function on the first numbers is a sequence.
LEMMA FunctionIsSeq ==
  ASSUME NEW S, NEW n \in Nat, NEW f \in [1..n -> S]
  PROVE  f \in Seq(S) /\ IsSeq(f) /\ Len(f) = n
<1>1. f \in Seq(S)
  BY SeqDef
<1>2. Len(f) = n
  BY <1>1
<1> QED
  BY <1>1, <1>2, SeqIsSeq

\* The empty sequence.
LEMMA IsSeqEmpty == IsSeq(<<>>) /\ Len(<<>>) = 0 /\ DOMAIN <<>> = {}
<1>1. <<>> \in Seq({}) /\ Len(<<>>) = 0 /\ DOMAIN <<>> = {}
  OBVIOUS
<1> QED
  BY <1>1, SeqIsSeq

\* One more element.
LEMMA IsSeqAppend ==
  ASSUME NEW s, IsSeq(s), NEW e
  PROVE  /\ IsSeq(Append(s, e)) /\ Len(Append(s, e)) = Len(s) + 1
         /\ DOMAIN Append(s, e) = DOMAIN s \cup {Len(s) + 1}
         /\ \A i \in DOMAIN s : Append(s, e)[i] = s[i]
         /\ Append(s, e)[Len(s) + 1] = e
<1>1. PICK T : s \in Seq(T) /\ e \in T
  <2> DEFINE R == {s[i] : i \in DOMAIN s}
  <2>1. s \in Seq(R)
    BY DEF IsSeq
  <2> HIDE DEF R
  <2>2. s \in Seq(R \cup {e})
    BY <2>1, SeqWidens
  <2> QED
    BY <2>2
<1>2. Append(s, e) \in Seq(T)
  BY <1>1
<1>3. IsSeq(Append(s, e))
  BY <1>2, SeqIsSeq
<1>4. /\ Len(Append(s, e)) = Len(s) + 1 /\ Len(s) \in Nat /\ DOMAIN s = 1..Len(s)
      /\ DOMAIN Append(s, e) = 1..(Len(s) + 1)
      /\ \A i \in 1..Len(s) : Append(s, e)[i] = s[i]
      /\ Append(s, e)[Len(s) + 1] = e
  BY <1>1, <1>2
<1> QED
  BY <1>3, <1>4

\* All elements but the first.
LEMMA IsSeqTail ==
  ASSUME NEW s, IsSeq(s), s # <<>>
  PROVE  /\ Len(s) > 0 /\ 1 \in DOMAIN s /\ Head(s) = s[1]
         /\ IsSeq(Tail(s)) /\ Len(Tail(s)) = Len(s) - 1
         /\ \A i \in DOMAIN Tail(s) : i + 1 \in DOMAIN s /\ Tail(s)[i] = s[i + 1]
<1>1. PICK T : s \in Seq(T)
  BY DEF IsSeq
<1>2. Tail(s) \in Seq(T)
  BY <1>1
<1>3. IsSeq(Tail(s))
  BY <1>2, SeqIsSeq
<1>4. /\ Len(s) \in Nat /\ Len(s) > 0 /\ DOMAIN s = 1..Len(s) /\ Head(s) = s[1]
      /\ Len(Tail(s)) = Len(s) - 1 /\ DOMAIN Tail(s) = 1..(Len(s) - 1)
      /\ \A i \in 1..(Len(s) - 1) : Tail(s)[i] = s[i + 1]
  BY <1>1, <1>2
<1> QED
  BY <1>3, <1>4

\* The first elements.
LEMMA IsSeqFront ==
  ASSUME NEW s, IsSeq(s), NEW n \in 0..Len(s)
  PROVE  /\ IsSeq(SubSeq(s, 1, n)) /\ Len(SubSeq(s, 1, n)) = n
         /\ DOMAIN SubSeq(s, 1, n) = 1..n /\ 1..n \subseteq DOMAIN s
         /\ \A i \in 1..n : SubSeq(s, 1, n)[i] = s[i]
<1>1. PICK T : s \in Seq(T)
  BY DEF IsSeq
<1>2. SubSeq(s, 1, n) \in Seq(T)
  BY <1>1
<1>3. IsSeq(SubSeq(s, 1, n))
  BY <1>2, SeqIsSeq
<1>4. /\ Len(SubSeq(s, 1, n)) = n /\ DOMAIN SubSeq(s, 1, n) = 1..n /\ 1..n \subseteq DOMAIN s
      /\ \A i \in 1..n : SubSeq(s, 1, n)[i] = s[i]
  BY <1>1, <1>2
<1> QED
  BY <1>3, <1>4

\* Another element at a place.
LEMMA IsSeqExcept ==
  ASSUME NEW s, IsSeq(s), NEW i \in DOMAIN s, NEW e
  PROVE  /\ IsSeq([s EXCEPT ![i] = e]) /\ Len([s EXCEPT ![i] = e]) = Len(s)
         /\ DOMAIN [s EXCEPT ![i] = e] = DOMAIN s
         /\ [s EXCEPT ![i] = e][i] = e
         /\ \A j \in DOMAIN s : j # i => [s EXCEPT ![i] = e][j] = s[j]
<1> DEFINE R == {s[j] : j \in DOMAIN s} \cup {e}
           t == [s EXCEPT ![i] = e]
<1>1. Len(s) \in Nat /\ DOMAIN s = 1..Len(s)
  BY IsSeqBasics
<1>2. t \in [1..Len(s) -> R] /\ t[i] = e /\ \A j \in DOMAIN s : j # i => t[j] = s[j]
  BY <1>1
<1> HIDE DEF R, t
<1>3. IsSeq(t) /\ Len(t) = Len(s)
  BY <1>1, <1>2, FunctionIsSeq
<1> QED
  BY <1>1, <1>2, <1>3 DEF t

\* Two sequences have their elements in one set.
LEMMA CommonSeq ==
  ASSUME NEW s, IsSeq(s), NEW t, IsSeq(t)
  PROVE  \E T : s \in Seq(T) /\ t \in Seq(T)
<1> DEFINE R == {s[i] : i \in DOMAIN s}
           Q == {t[i] : i \in DOMAIN t}
<1>1. s \in Seq(R) /\ t \in Seq(Q)
  BY DEF IsSeq
<1> HIDE DEF R, Q
<1>2. s \in Seq(R \cup Q) /\ t \in Seq(R \cup Q)
  BY <1>1, SeqWidens
<1> QED
  BY <1>2

\* What a join has: the elements of the one, then those of the other.
IsJoin(r, s, t) ==
  /\ IsSeq(r) /\ Len(r) = Len(s) + Len(t) /\ DOMAIN r = 1..(Len(s) + Len(t))
  /\ \A i \in 1..Len(s) : r[i] = s[i]
  /\ \A i \in 1..Len(t) : r[Len(s) + i] = t[i]

\* Two sequences, one after the other.
LEMMA IsSeqJoin ==
  ASSUME NEW s, IsSeq(s), NEW t, IsSeq(t)
  PROVE  IsJoin(s \o t, s, t)
<1>1. PICK T : s \in Seq(T) /\ t \in Seq(T)
  BY CommonSeq
<1>2. s \o t \in Seq(T)
  BY <1>1
<1>3. IsSeq(s \o t)
  BY <1>2, SeqIsSeq
<1>4. /\ Len(s) \in Nat /\ Len(t) \in Nat /\ DOMAIN s = 1..Len(s) /\ DOMAIN t = 1..Len(t)
      /\ Len(s \o t) = Len(s) + Len(t) /\ DOMAIN (s \o t) = 1..(Len(s) + Len(t))
  BY <1>1, <1>2
<1>5. /\ \A i \in 1..Len(s) : (s \o t)[i] = s[i]
      /\ \A i \in 1..Len(t) : (s \o t)[Len(s) + i] = t[i]
  BY <1>1
<1> QED
  BY <1>3, <1>4, <1>5 DEF IsJoin

\* Sequences of one length that have the same elements.
LEMMA IsSeqEqual ==
  ASSUME NEW s, IsSeq(s), NEW t, IsSeq(t), Len(s) = Len(t), \A i \in DOMAIN s : s[i] = t[i]
  PROVE  s = t
<1>1. PICK T : s \in Seq(T) /\ t \in Seq(T)
  BY CommonSeq
<1>2. DOMAIN s = 1..Len(s)
  BY <1>1
<1> QED
  BY <1>1, <1>2, SeqEqual

\* Taking the first of what comes after, and putting it at the end of what was before.
LEMMA ShiftFirst ==
  ASSUME NEW s, IsSeq(s), NEW t, IsSeq(t), t # <<>>
  PROVE  s \o t = Append(s, Head(t)) \o Tail(t)
<1> DEFINE one == Append(s, Head(t))
           rest == Tail(t)
<1>1. /\ IsSeq(one) /\ Len(one) = Len(s) + 1 /\ DOMAIN one = DOMAIN s \cup {Len(s) + 1}
      /\ one[Len(s) + 1] = Head(t) /\ \A i \in DOMAIN s : one[i] = s[i]
  BY IsSeqAppend
<1>2. /\ IsSeq(rest) /\ Len(rest) = Len(t) - 1 /\ Len(t) > 0 /\ Head(t) = t[1]
      /\ \A i \in DOMAIN rest : rest[i] = t[i + 1]
  BY IsSeqTail
<1>3. /\ Len(s) \in Nat /\ DOMAIN s = 1..Len(s) /\ Len(t) \in Nat /\ DOMAIN t = 1..Len(t)
      /\ DOMAIN rest = 1..Len(rest)
  BY <1>2, IsSeqBasics
<1> HIDE DEF one, rest
<1> DEFINE p == s \o t
           q == one \o rest
<1>4. IsJoin(p, s, t) /\ IsJoin(q, one, rest)
  BY <1>1, <1>2, IsSeqJoin
<1> HIDE DEF p, q
<1>5. Len(p) = Len(q) /\ DOMAIN p = 1..(Len(s) + Len(t)) /\ IsSeq(p) /\ IsSeq(q)
  BY <1>1, <1>2, <1>3, <1>4 DEF IsJoin
<1>6. ASSUME NEW i \in DOMAIN p
      PROVE  p[i] = q[i]
  <2>1. CASE i <= Len(s)
    BY <1>1, <1>3, <1>4, <1>5, <2>1 DEF IsJoin
  <2>2. CASE i = Len(s) + 1
    BY <1>1, <1>2, <1>3, <1>4, <1>5, <2>2 DEF IsJoin
  <2>3. CASE i > Len(s) + 1
    <3>1. /\ i - Len(s) \in DOMAIN t /\ Len(s) + (i - Len(s)) = i
          /\ i - Len(one) \in DOMAIN rest /\ Len(one) + (i - Len(one)) = i
          /\ (i - Len(one)) + 1 = i - Len(s)
      BY <1>1, <1>2, <1>3, <1>5, <2>3
    <3>2. p[i] = t[i - Len(s)] /\ q[i] = rest[i - Len(one)]
      BY <1>3, <1>4, <3>1 DEF IsJoin
    <3> QED
      BY <1>2, <3>1, <3>2
  <2> QED
    BY <1>3, <1>5, <2>1, <2>2, <2>3
<1>7. p = q
  BY <1>5, <1>6, IsSeqEqual
<1> QED
  BY <1>7 DEF one, rest, p, q

-----------------------------------------------------------------------------
(* Concat.                                                                 *)

\* The equation of the recursive function, on the first m of the sequences.
ConcatUpTo(f, seqs, m) == f = [n \in 0..m |-> IF n = 0 THEN <<>> ELSE f[n - 1] \o seqs[n]]

\* There is a function that satisfies the recursive equation of Concat.
LEMMA ConcatExists ==
  ASSUME NEW seqs
  PROVE  \A m \in Nat : \E f : ConcatUpTo(f, seqs, m)
<1> DEFINE P == {m \in Nat : \E f : ConcatUpTo(f, seqs, m)}
<1>1. 0 \in P
  <2> DEFINE f == [n \in 0..0 |-> <<>>]
  <2>1. ConcatUpTo(f, seqs, 0)
    BY DEF ConcatUpTo
  <2> QED
    BY <2>1
<1>2. ASSUME NEW m \in Nat, m \in P
      PROVE  m + 1 \in P
  <2>1. PICK f : ConcatUpTo(f, seqs, m)
    BY <1>2
  <2> DEFINE g == [n \in 0..(m + 1) |-> IF n = m + 1 THEN f[m] \o seqs[m + 1] ELSE f[n]]
  <2>2. \A n \in 0..m : f[n] = IF n = 0 THEN <<>> ELSE f[n - 1] \o seqs[n]
    BY <2>1 DEF ConcatUpTo
  <2>3. \A n \in 0..(m + 1) : g[n] = IF n = 0 THEN <<>> ELSE g[n - 1] \o seqs[n]
    BY <2>2
  <2>4. ConcatUpTo(g, seqs, m + 1)
    BY <2>3 DEF ConcatUpTo
  <2> QED
    BY <2>4
<1> HIDE DEF P
<1>3. \A m \in Nat : m \in P
  BY <1>1, <1>2, SetInduction
<1> QED
  BY <1>3 DEF P

\* Sequences that agree up to m have the same joins up to m.
LEMMA ConcatAgrees ==
  ASSUME NEW seqs, NEW others, NEW k \in Nat, NEW l \in Nat, NEW f, NEW g,
         ConcatUpTo(f, seqs, k), ConcatUpTo(g, others, l),
         NEW m \in Nat, m <= k, m <= l, \A i \in 1..m : seqs[i] = others[i]
  PROVE  f[m] = g[m]
<1> DEFINE P == {n \in Nat : n <= m => f[n] = g[n]}
<1>1. /\ \A n \in 0..k : f[n] = IF n = 0 THEN <<>> ELSE f[n - 1] \o seqs[n]
      /\ \A n \in 0..l : g[n] = IF n = 0 THEN <<>> ELSE g[n - 1] \o others[n]
  BY DEF ConcatUpTo
<1>2. 0 \in P
  BY <1>1
<1>3. ASSUME NEW n \in Nat, n \in P
      PROVE  n + 1 \in P
  <2> SUFFICES ASSUME n + 1 <= m PROVE f[n + 1] = g[n + 1]
    OBVIOUS
  <2>1. n + 1 \in 0..k /\ n + 1 \in 0..l /\ n + 1 \in 1..m /\ (n + 1) - 1 = n
    OBVIOUS
  <2>2. f[n] = g[n]
    BY <1>3
  <2> QED
    BY <1>1, <2>1, <2>2
<1> HIDE DEF P
<1>4. m \in P
  BY <1>2, <1>3, SetInduction
<1> QED
  BY <1>4 DEF P

\* The definition, without the choice in it.
LEMMA ConcatDefined ==
  ASSUME NEW seqs, Len(seqs) \in Nat
  PROVE  \E f : ConcatUpTo(f, seqs, Len(seqs)) /\ Concat(seqs) = f[Len(seqs)]
<1>1. \E f : ConcatUpTo(f, seqs, Len(seqs))
  BY ConcatExists
<1> QED
  BY <1>1 DEF Concat, ConcatUpTo

\* Joining nothing.
LEMMA ConcatEmpty == Concat(<<>>) = <<>>
<1>1. Len(<<>>) = 0 /\ Len(<<>>) \in Nat
  OBVIOUS
<1>2. \E f : ConcatUpTo(f, <<>>, Len(<<>>)) /\ Concat(<<>>) = f[Len(<<>>)]
  BY ONLY <1>1, ConcatDefined
<1>3. PICK f : ConcatUpTo(f, <<>>, 0) /\ Concat(<<>>) = f[0]
  BY <1>1, <1>2
<1> QED
  BY <1>3 DEF ConcatUpTo

\* Joining one more.
LEMMA ConcatAppend ==
  ASSUME NEW S, NEW seqs \in Seq(Seq(S)), NEW s \in Seq(S)
  PROVE  Concat(Append(seqs, s)) = Concat(seqs) \o s
<1> DEFINE more == Append(seqs, s)
           n == Len(seqs)
<1>1. n \in Nat /\ Len(more) = n + 1 /\ more[n + 1] = s /\ \A i \in 1..n : seqs[i] = more[i]
  OBVIOUS
<1> HIDE DEF more, n
<1>2. PICK f : ConcatUpTo(f, seqs, n) /\ Concat(seqs) = f[n]
  BY <1>1, ConcatDefined DEF n
<1>3. PICK g : ConcatUpTo(g, more, n + 1) /\ Concat(more) = g[n + 1]
  BY <1>1, ConcatDefined
<1>4. f[n] = g[n]
  BY <1>1, <1>2, <1>3, ConcatAgrees
<1>5. g[n + 1] = g[n] \o more[n + 1]
  <2>1. \A k \in 0..(n + 1) : g[k] = IF k = 0 THEN <<>> ELSE g[k - 1] \o more[k]
    BY <1>3 DEF ConcatUpTo
  <2>2. n + 1 \in 0..(n + 1) /\ n + 1 # 0 /\ (n + 1) - 1 = n
    BY <1>1
  <2> QED
    BY <2>1, <2>2
<1> QED
  BY <1>1, <1>2, <1>3, <1>4, <1>5 DEF more

\* Joining gives a sequence.
LEMMA ConcatType ==
  ASSUME NEW S, NEW seqs \in Seq(Seq(S))
  PROVE  Concat(seqs) \in Seq(S)
<1> DEFINE P == {n \in Nat : \A t \in Seq(Seq(S)) : Len(t) = n => Concat(t) \in Seq(S)}
<1>1. 0 \in P
  <2> SUFFICES ASSUME NEW t \in Seq(Seq(S)), Len(t) = 0 PROVE Concat(t) \in Seq(S)
    OBVIOUS
  <2>1. t = <<>> /\ <<>> \in Seq(S)
    OBVIOUS
  <2> QED
    BY <2>1, ConcatEmpty
<1>2. ASSUME NEW n \in Nat, n \in P
      PROVE  n + 1 \in P
  <2> SUFFICES ASSUME NEW t \in Seq(Seq(S)), Len(t) = n + 1 PROVE Concat(t) \in Seq(S)
    OBVIOUS
  <2> DEFINE front == SubSeq(t, 1, n)
  <2>1. front \in Seq(Seq(S)) /\ Len(front) = n /\ t[n + 1] \in Seq(S) /\ t = Append(front, t[n + 1])
    BY FrontAndLast
  <2> HIDE DEF front
  <2>2. Concat(front) \in Seq(S)
    BY <1>2, <2>1
  <2>3. Concat(t) = Concat(front) \o t[n + 1]
    BY <2>1, ConcatAppend
  <2> QED
    BY <2>1, <2>2, <2>3
<1> HIDE DEF P
<1>3. Len(seqs) \in P
  BY <1>1, <1>2, SetInduction
<1> QED
  BY <1>3 DEF P

\* The positions in a sequence of sequences, and where they are when these are joined:
\* every position is somewhere, no two are at the same place, and no place is left.
Positions(seqs) == {x \in Nat \X Nat : x[1] \in DOMAIN seqs /\ x[2] \in DOMAIN seqs[x[1]]}

IsLayout(at, seqs) ==
  /\ at \in [Positions(seqs) -> DOMAIN Concat(seqs)]
  /\ \A x \in Positions(seqs) : Concat(seqs)[at[x]] = seqs[x[1]][x[2]]
  /\ \A x, y \in Positions(seqs) : at[x] = at[y] => x = y
  /\ \A i \in DOMAIN Concat(seqs) : \E x \in Positions(seqs) : at[x] = i

\* A place in joined sequences is a place in one of them, and only in that one.
LEMMA ConcatLayout ==
  ASSUME NEW S, NEW seqs \in Seq(Seq(S))
  PROVE  \E at : IsLayout(at, seqs)
<1> DEFINE P == {n \in Nat : \A t \in Seq(Seq(S)) : Len(t) = n => \E at : IsLayout(at, t)}
<1>1. 0 \in P
  <2> SUFFICES ASSUME NEW t \in Seq(Seq(S)), Len(t) = 0 PROVE \E at : IsLayout(at, t)
    OBVIOUS
  <2>1. t = <<>> /\ DOMAIN t = {}
    OBVIOUS
  <2>2. Positions(t) = {} /\ DOMAIN Concat(t) = {}
    BY <2>1, ConcatEmpty DEF Positions
  <2>3. IsLayout([x \in {} |-> 0], t)
    BY <2>2 DEF IsLayout
  <2> QED
    BY <2>3
<1>2. ASSUME NEW n \in Nat, n \in P
      PROVE  n + 1 \in P
  <2> SUFFICES ASSUME NEW t \in Seq(Seq(S)), Len(t) = n + 1 PROVE \E at : IsLayout(at, t)
    OBVIOUS
  <2> DEFINE front == SubSeq(t, 1, n)
             last == t[n + 1]
  <2>1. /\ front \in Seq(Seq(S)) /\ Len(front) = n /\ last \in Seq(S) /\ t = Append(front, last)
        /\ \A i \in 1..n : front[i] = t[i]
    BY FrontAndLast
  <2> HIDE DEF front
  <2>2. PICK at : IsLayout(at, front)
    BY <1>2, <2>1
  <2>3. Concat(t) = Concat(front) \o last /\ Concat(front) \in Seq(S)
    BY <2>1, ConcatAppend, ConcatType
  <2> DEFINE l == Len(Concat(front))
             there == [x \in Positions(t) |-> IF x[1] = n + 1 THEN l + x[2] ELSE at[x]]
  <2>4. /\ l \in Nat /\ DOMAIN Concat(front) = 1..l /\ DOMAIN last = 1..Len(last) /\ Len(last) \in Nat
        /\ DOMAIN Concat(t) = 1..(l + Len(last))
        /\ \A i \in 1..l : Concat(t)[i] = Concat(front)[i]
        /\ \A i \in 1..Len(last) : Concat(t)[l + i] = last[i]
    BY <2>1, <2>3
  <2>5. /\ DOMAIN t = 1..(n + 1) /\ DOMAIN front = 1..n
        /\ \A x \in Positions(t) : x[1] = n + 1 \/ x \in Positions(front)
        /\ \A x \in Positions(front) : x \in Positions(t) /\ x[1] \in 1..n
        /\ \A j \in DOMAIN last : <<n + 1, j>> \in Positions(t)
        /\ \A x \in Positions(t) : x = <<x[1], x[2]>> /\ x[1] \in Nat /\ x[2] \in Nat
        /\ \A x \in Positions(t) : x[1] = n + 1 => x[2] \in DOMAIN last
    <3>1. DOMAIN t = 1..(n + 1) /\ DOMAIN front = 1..n
      BY <2>1
    <3>2. \A x \in Nat \X Nat : x = <<x[1], x[2]>> /\ x[1] \in Nat /\ x[2] \in Nat
      OBVIOUS
    <3>3. /\ \A x : x \in Positions(t) <=>
                      x \in Nat \X Nat /\ x[1] \in 1..(n + 1) /\ x[2] \in DOMAIN t[x[1]]
          /\ \A x : x \in Positions(front) <=>
                      x \in Nat \X Nat /\ x[1] \in 1..n /\ x[2] \in DOMAIN front[x[1]]
      BY <3>1 DEF Positions
    <3>4. \A i \in 1..n : i \in 1..(n + 1) /\ i # n + 1 /\ t[i] = front[i]
      BY <2>1
    <3>5. n + 1 \in Nat /\ n + 1 \in 1..(n + 1) /\ t[n + 1] = last
      OBVIOUS
    <3>6. \A i \in 1..(n + 1) : i = n + 1 \/ i \in 1..n
      OBVIOUS
    <3> HIDE DEF last
    <3>7. \A x \in Positions(t) : x[1] = n + 1 \/ x \in Positions(front)
      BY <3>3, <3>4, <3>6
    <3>8. \A x \in Positions(front) : x \in Positions(t) /\ x[1] \in 1..n
      BY <3>3, <3>4
    <3>9. \A j \in DOMAIN last : <<n + 1, j>> \in Positions(t)
      <4>1. \A j \in DOMAIN last : j \in Nat
        BY <2>4
      <4>2. \A j \in DOMAIN last : <<n + 1, j>> \in Nat \X Nat /\ <<n + 1, j>>[1] = n + 1 /\ <<n + 1, j>>[2] = j
        BY <3>5, <4>1
      <4> QED
        BY <3>3, <3>5, <4>2
    <3>10. \A x \in Positions(t) : x[1] = n + 1 => x[2] \in DOMAIN last
      BY <3>3, <3>5
    <3>11. \A x \in Positions(t) : x = <<x[1], x[2]>> /\ x[1] \in Nat /\ x[2] \in Nat
      BY <3>2, <3>3
    <3> QED
      BY <3>1, <3>7, <3>8, <3>9, <3>10, <3>11
  <2>6. \A x \in Positions(t) : IF x[1] = n + 1 THEN there[x] \in (l + 1)..(l + Len(last))
                                              ELSE there[x] \in 1..l /\ there[x] = at[x]
    BY <2>2, <2>4, <2>5 DEF IsLayout
  <2>7. there \in [Positions(t) -> DOMAIN Concat(t)]
    BY <2>4, <2>6
  <2>8. ASSUME NEW x \in Positions(t) PROVE Concat(t)[there[x]] = t[x[1]][x[2]]
    <3>1. CASE x[1] = n + 1
      BY <2>4, <2>5, <3>1
    <3>2. CASE x[1] # n + 1
      <4>1. x \in Positions(front) /\ x[1] \in 1..n
        BY <2>5, <3>2
      <4>2. Concat(front)[at[x]] = front[x[1]][x[2]] /\ front[x[1]] = t[x[1]]
        BY <2>1, <2>2, <4>1 DEF IsLayout
      <4>3. Concat(t)[there[x]] = Concat(front)[at[x]]
        BY <2>4, <2>6, <3>2
      <4> HIDE DEF l, there
      <4> QED
        BY <4>2, <4>3
    <3> QED
      BY <3>1, <3>2
  <2>9. ASSUME NEW x \in Positions(t), NEW y \in Positions(t), there[x] = there[y] PROVE x = y
    <3>1. CASE x[1] = n + 1 /\ y[1] = n + 1
      <4>1. l + x[2] = l + y[2] /\ x[1] = y[1]
        BY <2>9, <3>1
      <4>2. x[2] \in Nat /\ y[2] \in Nat /\ l \in Nat
        BY <2>4, <2>5
      <4>3. x[2] = y[2]
        BY <4>1, <4>2
      <4>4. x = <<x[1], x[2]>> /\ y = <<y[1], y[2]>>
        BY <2>5
      <4> HIDE DEF there, l
      <4> QED
        BY <4>1, <4>3, <4>4
    <3>2. CASE x[1] # n + 1 /\ y[1] # n + 1
      BY <2>2, <2>5, <2>6, <2>9, <3>2 DEF IsLayout
    <3>3. CASE (x[1] = n + 1) # (y[1] = n + 1)
      BY <2>4, <2>6, <2>9, <3>3
    <3> QED
      BY <3>1, <3>2, <3>3
  <2>10. ASSUME NEW i \in DOMAIN Concat(t) PROVE \E x \in Positions(t) : there[x] = i
    <3>1. CASE i \in 1..l
      <4>1. PICK x \in Positions(front) : at[x] = i
        BY <2>2, <2>4, <3>1 DEF IsLayout
      <4> QED
        BY <2>5, <4>1
    <3>2. CASE i \notin 1..l
      <4>1. i - l \in DOMAIN last /\ l + (i - l) = i
        BY <2>4, <3>2
      <4>2. <<n + 1, i - l>> \in Positions(t) /\ there[<<n + 1, i - l>>] = l + (i - l)
        BY <2>5, <4>1
      <4> QED
        BY <4>1, <4>2
    <3> QED
      BY <3>1, <3>2
  <2>11. IsLayout(there, t)
    BY <2>7, <2>8, <2>9, <2>10 DEF IsLayout
  <2> QED
    BY <2>11
<1> HIDE DEF P
<1>3. Len(seqs) \in P
  BY <1>1, <1>2, SetInduction
<1> QED
  BY <1>3 DEF P

-----------------------------------------------------------------------------
(* Subsequence.                                                            *)

\* The equation of its recursive function.
SelectedUpTo(f, s, I, m) ==
  f = [n \in 0..m |->
         IF n = 0 THEN <<>> ELSE IF n \in I THEN Append(f[n - 1], s[n]) ELSE f[n - 1]]

\* There is a function that satisfies the recursive equation of Subsequence.
LEMMA SelectedExists ==
  ASSUME NEW s, NEW I
  PROVE  \A m \in Nat : \E f : SelectedUpTo(f, s, I, m)
<1> DEFINE P == {m \in Nat : \E f : SelectedUpTo(f, s, I, m)}
<1>1. 0 \in P
  <2> DEFINE f == [n \in 0..0 |-> <<>>]
  <2>1. SelectedUpTo(f, s, I, 0)
    BY DEF SelectedUpTo
  <2> QED
    BY <2>1
<1>2. ASSUME NEW m \in Nat, m \in P
      PROVE  m + 1 \in P
  <2>1. PICK f : SelectedUpTo(f, s, I, m)
    BY <1>2
  <2> DEFINE next == IF m + 1 \in I THEN Append(f[m], s[m + 1]) ELSE f[m]
             g == [n \in 0..(m + 1) |-> IF n = m + 1 THEN next ELSE f[n]]
  <2>2. \A n \in 0..m :
          f[n] = IF n = 0 THEN <<>> ELSE IF n \in I THEN Append(f[n - 1], s[n]) ELSE f[n - 1]
    BY <2>1 DEF SelectedUpTo
  <2>3. \A n \in 0..(m + 1) :
          g[n] = IF n = 0 THEN <<>> ELSE IF n \in I THEN Append(g[n - 1], s[n]) ELSE g[n - 1]
    BY <2>2
  <2>4. SelectedUpTo(g, s, I, m + 1)
    BY <2>3 DEF SelectedUpTo
  <2> QED
    BY <2>4
<1> HIDE DEF P
<1>3. \A m \in Nat : m \in P
  BY <1>1, <1>2, SetInduction
<1> QED
  BY <1>3 DEF P

\* Only what is in the sequence, up to m, and selected there matters.
LEMMA SelectedAgrees ==
  ASSUME NEW s, NEW t, NEW I, NEW J, NEW k \in Nat, NEW l \in Nat, NEW f, NEW g,
         SelectedUpTo(f, s, I, k), SelectedUpTo(g, t, J, l),
         NEW m \in Nat, m <= k, m <= l,
         \A i \in 1..m : s[i] = t[i] /\ (i \in I <=> i \in J)
  PROVE  f[m] = g[m]
<1> DEFINE P == {n \in Nat : n <= m => f[n] = g[n]}
<1>1. /\ \A n \in 0..k :
           f[n] = IF n = 0 THEN <<>> ELSE IF n \in I THEN Append(f[n - 1], s[n]) ELSE f[n - 1]
      /\ \A n \in 0..l :
           g[n] = IF n = 0 THEN <<>> ELSE IF n \in J THEN Append(g[n - 1], t[n]) ELSE g[n - 1]
  BY DEF SelectedUpTo
<1>2. 0 \in P
  BY <1>1
<1>3. ASSUME NEW n \in Nat, n \in P
      PROVE  n + 1 \in P
  <2> SUFFICES ASSUME n + 1 <= m PROVE f[n + 1] = g[n + 1]
    OBVIOUS
  <2>1. n + 1 \in 0..k /\ n + 1 \in 0..l /\ n + 1 \in 1..m /\ n + 1 # 0 /\ (n + 1) - 1 = n
    OBVIOUS
  <2>2. f[n] = g[n]
    BY <1>3
  <2> QED
    BY <1>1, <2>1, <2>2
<1> HIDE DEF P
<1>4. m \in P
  BY <1>2, <1>3, SetInduction
<1> QED
  BY <1>4 DEF P

\* The definition, without the choice in it.
LEMMA SubsequenceDefined ==
  ASSUME NEW s, NEW I, Len(s) \in Nat
  PROVE  \E f : SelectedUpTo(f, s, I, Len(s)) /\ Subsequence(s, I) = f[Len(s)]
<1>1. \E f : SelectedUpTo(f, s, I, Len(s))
  BY SelectedExists
<1> QED
  BY <1>1 DEF Subsequence, SelectedUpTo

\* Selecting from nothing.
LEMMA SubsequenceEmpty == \A I : Subsequence(<<>>, I) = <<>>
<1> TAKE I
<1>1. Len(<<>>) = 0 /\ Len(<<>>) \in Nat
  OBVIOUS
<1>2. \E f : SelectedUpTo(f, <<>>, I, Len(<<>>)) /\ Subsequence(<<>>, I) = f[Len(<<>>)]
  BY ONLY <1>1, SubsequenceDefined
<1>3. PICK f : SelectedUpTo(f, <<>>, I, 0) /\ Subsequence(<<>>, I) = f[0]
  BY <1>1, <1>2
<1> QED
  BY <1>3 DEF SelectedUpTo

\* Selecting from one more.
LEMMA SubsequenceAppend ==
  ASSUME NEW S, NEW s \in Seq(S), NEW e \in S, NEW I, NEW J, \A i \in 1..Len(s) : i \in I <=> i \in J
  PROVE  Subsequence(Append(s, e), J) =
           IF Len(s) + 1 \in J THEN Append(Subsequence(s, I), e) ELSE Subsequence(s, I)
<1> DEFINE more == Append(s, e)
           n == Len(s)
<1>1. /\ n \in Nat /\ Len(more) = n + 1 /\ more[n + 1] = e
      /\ \A i \in 1..n : s[i] = more[i] /\ (i \in I <=> i \in J)
  OBVIOUS
<1> HIDE DEF more, n
<1>2. PICK f : SelectedUpTo(f, s, I, n) /\ Subsequence(s, I) = f[n]
  BY <1>1, SubsequenceDefined DEF n
<1>3. PICK g : SelectedUpTo(g, more, J, n + 1) /\ Subsequence(more, J) = g[n + 1]
  BY <1>1, SubsequenceDefined
<1>4. f[n] = g[n]
  <2>1. n + 1 \in Nat /\ n <= n /\ n <= n + 1
    BY <1>1
  <2> QED
    BY <1>1, <1>2, <1>3, <2>1, SelectedAgrees
<1>5. g[n + 1] = IF n + 1 \in J THEN Append(g[n], more[n + 1]) ELSE g[n]
  <2>1. \A k \in 0..(n + 1) :
          g[k] = IF k = 0 THEN <<>> ELSE IF k \in J THEN Append(g[k - 1], more[k]) ELSE g[k - 1]
    BY <1>3 DEF SelectedUpTo
  <2>2. n + 1 \in 0..(n + 1) /\ n + 1 # 0 /\ (n + 1) - 1 = n
    BY <1>1
  <2> QED
    BY <2>1, <2>2
<1> QED
  BY <1>1, <1>2, <1>3, <1>4, <1>5 DEF more, n

\* What is selected are elements of the sequence, at different places.
IsSelection(r, s, I) ==
  \E from \in [DOMAIN r -> I \cap DOMAIN s] :
    /\ \A k \in DOMAIN r : r[k] = s[from[k]]
    /\ \A k, l \in DOMAIN r : from[k] = from[l] => k = l

\* Subsequence takes elements of the sequence from different places.
LEMMA SubsequenceSelects ==
  ASSUME NEW S, NEW s \in Seq(S), NEW I
  PROVE  Subsequence(s, I) \in Seq(S) /\ IsSelection(Subsequence(s, I), s, I)
<1> DEFINE P == {n \in Nat : \A t \in Seq(S) : Len(t) = n =>
                   Subsequence(t, I) \in Seq(S) /\ IsSelection(Subsequence(t, I), t, I)}
<1>1. 0 \in P
  <2> SUFFICES ASSUME NEW t \in Seq(S), Len(t) = 0
               PROVE  Subsequence(t, I) \in Seq(S) /\ IsSelection(Subsequence(t, I), t, I)
    OBVIOUS
  <2>1. t = <<>> /\ <<>> \in Seq(S) /\ DOMAIN <<>> = {}
    OBVIOUS
  <2>2. Subsequence(t, I) = <<>>
    BY <2>1, SubsequenceEmpty
  <2>3. IsSelection(<<>>, t, I)
    <3>1. [k \in {} |-> 0] \in [{} -> I \cap DOMAIN t]
      OBVIOUS
    <3> QED
      BY <2>1, <3>1 DEF IsSelection
  <2> QED
    BY <2>1, <2>2, <2>3
<1>2. ASSUME NEW n \in Nat, n \in P
      PROVE  n + 1 \in P
  <2> SUFFICES ASSUME NEW t \in Seq(S), Len(t) = n + 1
               PROVE  Subsequence(t, I) \in Seq(S) /\ IsSelection(Subsequence(t, I), t, I)
    OBVIOUS
  <2> DEFINE front == SubSeq(t, 1, n)
             r == Subsequence(front, I)
  <2>1. /\ front \in Seq(S) /\ Len(front) = n /\ t[n + 1] \in S /\ t = Append(front, t[n + 1])
        /\ \A i \in 1..n : front[i] = t[i]
    BY FrontAndLast
  <2> HIDE DEF front
  <2>2. r \in Seq(S) /\ IsSelection(r, front, I)
    BY <1>2, <2>1
  <2>3. Subsequence(t, I) = IF n + 1 \in I THEN Append(r, t[n + 1]) ELSE r
    <3> DEFINE last == t[n + 1]
    <3>1. last \in S /\ t = Append(front, last) /\ Len(front) = n
      BY <2>1
    <3> HIDE DEF last
    <3>2. \A i \in 1..Len(front) : i \in I <=> i \in I
      OBVIOUS
    <3>3. Subsequence(Append(front, last), I) =
            IF Len(front) + 1 \in I THEN Append(Subsequence(front, I), last) ELSE Subsequence(front, I)
      BY ONLY <2>1, <3>1, <3>2, SubsequenceAppend
    <3> QED
      BY <3>1, <3>3 DEF last
  <2> HIDE DEF r
  <2>4. PICK from \in [DOMAIN r -> I \cap DOMAIN front] :
          /\ \A k \in DOMAIN r : r[k] = front[from[k]]
          /\ \A k, l \in DOMAIN r : from[k] = from[l] => k = l
    BY <2>2 DEF IsSelection
  <2>5. /\ DOMAIN t = 1..(n + 1) /\ DOMAIN front = 1..n
        /\ \A k \in DOMAIN r : from[k] \in 1..n /\ from[k] \in I /\ r[k] = t[from[k]]
    BY <2>1, <2>4
  <2>6. CASE n + 1 \notin I
    <3>1. from \in [DOMAIN r -> I \cap DOMAIN t]
      BY <2>4, <2>5
    <3>2. IsSelection(r, t, I)
      BY <2>4, <2>5, <3>1 DEF IsSelection
    <3> QED
      BY <2>2, <2>3, <2>6, <3>2
  <2>7. CASE n + 1 \in I
    <3> DEFINE q == Append(r, t[n + 1])
               there == [k \in DOMAIN q |-> IF k = Len(r) + 1 THEN n + 1 ELSE from[k]]
    <3>1. /\ q \in Seq(S) /\ Len(r) \in Nat /\ DOMAIN r = 1..Len(r) /\ DOMAIN q = 1..(Len(r) + 1)
          /\ q[Len(r) + 1] = t[n + 1] /\ \A k \in 1..Len(r) : q[k] = r[k]
      BY <2>1, <2>2
    <3> HIDE DEF q
    <3>2. \A k \in DOMAIN q : \/ k = Len(r) + 1 /\ there[k] = n + 1
                              \/ k \in DOMAIN r /\ k # Len(r) + 1 /\ there[k] = from[k]
      BY <3>1
    <3>3. there \in [DOMAIN q -> I \cap DOMAIN t]
      BY <2>5, <2>7, <3>2
    <3>4. \A k \in DOMAIN q : q[k] = t[there[k]]
      BY <2>5, <3>1, <3>2
    <3>5. \A k, l \in DOMAIN q : there[k] = there[l] => k = l
      BY <2>4, <2>5, <3>2
    <3> HIDE DEF there
    <3>6. IsSelection(q, t, I)
      BY <3>3, <3>4, <3>5 DEF IsSelection
    <3> QED
      BY <2>3, <2>7, <3>1, <3>6 DEF q
  <2> QED
    BY <2>6, <2>7
<1> HIDE DEF P
<1>3. Len(s) \in P
  BY <1>1, <1>2, SetInduction
<1> QED
  BY <1>3 DEF P

\* Subsequence leaves nothing out.
LEMMA SubsequenceTakesAll ==
  ASSUME NEW S, NEW s \in Seq(S), NEW I
  PROVE  \A i \in I \cap DOMAIN s : \E k \in DOMAIN Subsequence(s, I) : Subsequence(s, I)[k] = s[i]
<1> DEFINE Has(t) == \A i \in I \cap DOMAIN t : \E k \in DOMAIN Subsequence(t, I) : Subsequence(t, I)[k] = t[i]
           P == {n \in Nat : \A t \in Seq(S) : Len(t) = n => Has(t)}
<1>1. 0 \in P
  OBVIOUS
<1>2. ASSUME NEW n \in Nat, n \in P
      PROVE  n + 1 \in P
  <2> SUFFICES ASSUME NEW t \in Seq(S), Len(t) = n + 1 PROVE Has(t)
    OBVIOUS
  <2> DEFINE front == SubSeq(t, 1, n)
             last == t[n + 1]
             r == Subsequence(front, I)
             q == Subsequence(t, I)
  <2>1. /\ front \in Seq(S) /\ Len(front) = n /\ last \in S /\ t = Append(front, last)
        /\ \A i \in 1..n : front[i] = t[i]
    BY FrontAndLast
  <2> HIDE DEF front, last
  <2>2. Has(front) /\ r \in Seq(S)
    BY <1>2, <2>1, SubsequenceSelects
  <2>3. q = IF n + 1 \in I THEN Append(r, last) ELSE r
    <3>1. \A i \in 1..Len(front) : i \in I <=> i \in I
      OBVIOUS
    <3>2. Subsequence(Append(front, last), I) =
            IF Len(front) + 1 \in I THEN Append(Subsequence(front, I), last) ELSE Subsequence(front, I)
      BY ONLY <2>1, <3>1, SubsequenceAppend
    <3> QED
      BY <2>1, <3>2
  <2> HIDE DEF r, q
  <2>4. /\ Len(r) \in Nat /\ DOMAIN r = 1..Len(r)
        /\ n + 1 \in I => Len(r) + 1 \in DOMAIN q /\ q[Len(r) + 1] = last
        /\ \A k \in DOMAIN r : k \in DOMAIN q /\ q[k] = r[k]
    BY <2>1, <2>2, <2>3
  <2>5. DOMAIN t = 1..(n + 1) /\ DOMAIN front = 1..n
    BY <2>1
  <2>6. ASSUME NEW i \in I \cap DOMAIN t
        PROVE  \E k \in DOMAIN q : q[k] = t[i]
    <3>1. CASE i = n + 1
      BY <2>4, <3>1 DEF last
    <3>2. CASE i # n + 1
      <4>1. i \in I \cap DOMAIN front /\ front[i] = t[i]
        BY <2>1, <2>5, <2>6, <3>2
      <4>2. PICK k \in DOMAIN r : r[k] = front[i]
        BY <2>2, <4>1 DEF r
      <4> QED
        BY <2>4, <4>1, <4>2
    <3> QED
      BY <3>1, <3>2
  <2> QED
    BY <2>6 DEF q
<1> HIDE DEF P
<1>3. Len(s) \in P
  BY <1>1, <1>2, SetInduction
<1> QED
  BY <1>3 DEF P
=============================================================================
