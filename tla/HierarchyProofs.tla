--------------------------- MODULE HierarchyProofs ---------------------------
(***************************************************************************)
(* Proofs about the ancestor builder and the constant resolver of          *)
(* Hierarchy: the lists of the builder and its cache are in order          *)
(* (TypeOK), it raises for what is wrong, and for nothing else             *)
(* (CyclesAreRefused), its answers have the ancestors in the order of the  *)
(* reference (AncestorsAreOrdered), and the resolver finds the constants   *)
(* of the reference (ConstantsAreFound), whatever was asked before.        *)
(*                                                                         *)
(* The invariant is IInv.  What has an answer is sound, as is all that is  *)
(* above it; the running calls are a way up from what was asked for, and   *)
(* are what the lists of `building` have.  So a call for what is in the    *)
(* list in use closes a cycle, and so does one that finds the stack full,  *)
(* as no more is declared than the stack has room for.                     *)
(*                                                                         *)
(* For the order it is Orderly besides.  What has an answer has it in the  *)
(* order of its paths, and is ranked above what its answer is made of; a   *)
(* running call has the paths of the parts it has taken.  The places of    *)
(* parts descend, so each part goes in front; and the paths behind a part  *)
(* are those of its callee, which do not go on for ever as ranks descend.  *)
(*                                                                         *)
(* For the constants it is Finding as well.  What the builder works for is *)
(* what the request needs; the table has the constants of every module as  *)
(* they were, but that Object may have those of the top level too; and     *)
(* what is in the two caches is what is found.  That the layers of the     *)
(* code, merged from behind, are what is found first in the sets of the    *)
(* reference is by induction on their number; that the ancestors it counts *)
(* are those the reference inherits from is by induction on the ranks of   *)
(* Orderly.                                                                *)
(***************************************************************************)
EXTENDS Hierarchy, SubsequencesProofs, FiniteSetTheorems, TLAPS

-----------------------------------------------------------------------------
(* What is in sequences.                                                   *)

LEMMA ValuesOfEmpty == Values(<<>>) = {}
  BY IsSeqEmpty DEF Values

LEMMA ValuesOfOne == \A e : IsSeq(<<e>>) /\ Values(<<e>>) = {e} /\ <<e>> # <<>>
<1> TAKE e
<1>1. <<e>> \in Seq({e}) /\ DOMAIN <<e>> = {1} /\ <<e>>[1] = e
  OBVIOUS
<1> QED
  BY <1>1, SeqIsSeq DEF Values

LEMMA ValuesOfAppend ==
  ASSUME NEW s, IsSeq(s), NEW e
  PROVE  Values(Append(s, e)) = Values(s) \cup {e}
  BY IsSeqAppend DEF Values

LEMMA ValuesOfJoin ==
  ASSUME NEW s, IsSeq(s), NEW t, IsSeq(t)
  PROVE  IsSeq(s \o t) /\ Values(s \o t) = Values(s) \cup Values(t)
<1> DEFINE r == s \o t
<1>1. IsJoin(r, s, t)
  BY IsSeqJoin
<1> HIDE DEF r
<1>2. /\ Len(s) \in Nat /\ DOMAIN s = 1..Len(s) /\ Len(t) \in Nat /\ DOMAIN t = 1..Len(t)
      /\ IsSeq(r) /\ DOMAIN r = 1..(Len(s) + Len(t))
      /\ \A i \in DOMAIN s : i \in DOMAIN r /\ r[i] = s[i]
      /\ \A i \in DOMAIN t : Len(s) + i \in DOMAIN r /\ r[Len(s) + i] = t[i]
  <2>1. /\ Len(s) \in Nat /\ DOMAIN s = 1..Len(s) /\ Len(t) \in Nat /\ DOMAIN t = 1..Len(t)
    BY IsSeqBasics
  <2>2. /\ IsSeq(r) /\ DOMAIN r = 1..(Len(s) + Len(t))
        /\ \A i \in 1..Len(s) : r[i] = s[i]
        /\ \A i \in 1..Len(t) : r[Len(s) + i] = t[i]
    BY ONLY <1>1 DEF IsJoin
  <2>3. \A i \in 1..Len(s) : i \in 1..(Len(s) + Len(t))
    BY ONLY <2>1
  <2>4. \A i \in 1..Len(t) : Len(s) + i \in 1..(Len(s) + Len(t))
    BY ONLY <2>1
  <2> QED
    BY ONLY <2>1, <2>2, <2>3, <2>4
<1>3. \A i \in DOMAIN r : i \in DOMAIN s \/ (i - Len(s) \in DOMAIN t /\ i = Len(s) + (i - Len(s)))
  BY <1>2
<1>4. Values(r) \subseteq Values(s) \cup Values(t)
  BY <1>2, <1>3 DEF Values
<1>5. Values(s) \cup Values(t) \subseteq Values(r)
  BY <1>2 DEF Values
<1> QED
  BY <1>2, <1>4, <1>5 DEF r

\* A sequence is made from another one, element by element.
LEMMA MappedIsSeq ==
  ASSUME NEW s, IsSeq(s), NEW f, DOMAIN f = DOMAIN s, f = [i \in DOMAIN f |-> f[i]]
  PROVE  IsSeq(f) /\ Len(f) = Len(s)
<1>1. Len(s) \in Nat /\ f \in [1..Len(s) -> {f[i] : i \in DOMAIN f}]
  BY IsSeqBasics
<1> QED
  BY <1>1, FunctionIsSeq

LEMMA ValuesOfSubsequence ==
  ASSUME NEW s, IsSeq(s), NEW I
  PROVE  /\ IsSeq(Subsequence(s, I))
         /\ Values(Subsequence(s, I)) = {s[i] : i \in I \cap DOMAIN s}
<1> DEFINE S == {s[i] : i \in DOMAIN s}
           r == Subsequence(s, I)
<1>1. s \in Seq(S)
  BY DEF IsSeq
<1> HIDE DEF S
<1>2. /\ r \in Seq(S) /\ IsSelection(r, s, I)
      /\ \A i \in I \cap DOMAIN s : \E k \in DOMAIN r : r[k] = s[i]
  BY <1>1, SubsequenceSelects, SubsequenceTakesAll
<1> HIDE DEF r
<1>3. IsSeq(r)
  BY <1>2, SeqIsSeq
<1>4. \A k \in DOMAIN r : \E i \in I \cap DOMAIN s : r[k] = s[i]
  BY <1>2 DEF IsSelection
<1> QED
  BY <1>2, <1>3, <1>4 DEF Values, r

LEMMA SequencesOfSequences ==
  ASSUME NEW seqs, IsSeq(seqs), NEW S, \A i \in DOMAIN seqs : IsSeq(seqs[i]) /\ Values(seqs[i]) \subseteq S
  PROVE  seqs \in Seq(Seq(S))
<1>1. \A i \in DOMAIN seqs : seqs[i] \in Seq(Values(seqs[i]))
  BY DEF IsSeq, Values
<1>2. \A i \in DOMAIN seqs : seqs[i] \in Seq(S)
  BY <1>1, SeqWidens
<1>3. {seqs[i] : i \in DOMAIN seqs} \subseteq Seq(S)
  BY <1>2
<1> QED
  BY <1>3, SeqWidens DEF IsSeq

LEMMA ConcatOneMore ==
  ASSUME NEW seqs, IsSeq(seqs), \A i \in DOMAIN seqs : IsSeq(seqs[i]), NEW s, IsSeq(s)
  PROVE  Concat(Append(seqs, s)) = Concat(seqs) \o s
<1> DEFINE S == (UNION {Values(seqs[i]) : i \in DOMAIN seqs}) \cup Values(s)
<1>1. \A i \in DOMAIN seqs : Values(seqs[i]) \subseteq S
  OBVIOUS
<1>2. s \in Seq(Values(s)) /\ Values(s) \subseteq S
  BY DEF IsSeq, Values
<1> HIDE DEF S
<1>3. seqs \in Seq(Seq(S)) /\ s \in Seq(S)
  BY <1>1, <1>2, SequencesOfSequences, SeqWidens
<1> QED
  BY <1>3, ConcatAppend

LEMMA ValuesOfTail ==
  ASSUME NEW s, IsSeq(s), s # <<>>
  PROVE  IsSeq(Tail(s)) /\ Values(s) = {Head(s)} \cup Values(Tail(s))
<1> DEFINE t == Tail(s)
<1>1. /\ Len(s) > 0 /\ 1 \in DOMAIN s /\ Head(s) = s[1]
      /\ IsSeq(t) /\ Len(t) = Len(s) - 1
      /\ \A i \in DOMAIN t : i + 1 \in DOMAIN s /\ t[i] = s[i + 1]
  BY IsSeqTail
<1> HIDE DEF t
<1>2. Len(s) \in Nat /\ DOMAIN s = 1..Len(s) /\ DOMAIN t = 1..Len(t)
  BY <1>1, IsSeqBasics
<1>3. \A i \in DOMAIN s : i = 1 \/ (i - 1 \in DOMAIN t /\ (i - 1) + 1 = i)
  BY <1>1, <1>2
<1>4. \A i \in DOMAIN s : i = 1 \/ s[i] \in Values(t)
  BY <1>1, <1>3 DEF Values
<1> QED
  BY <1>1, <1>4 DEF Values, t

\* All but the last, and the last.
LEMMA IsSeqLast ==
  ASSUME NEW s, IsSeq(s), s # <<>>
  PROVE  /\ Len(s) \in DOMAIN s
         /\ IsSeq(Shorter(s)) /\ Len(Shorter(s)) = Len(s) - 1
         /\ \A i \in DOMAIN Shorter(s) : i \in DOMAIN s /\ i # Len(s) /\ Shorter(s)[i] = s[i]
         /\ s = Append(Shorter(s), s[Len(s)])
         /\ \A e : [s EXCEPT ![Len(s)] = e] = Append(Shorter(s), e)
<1> DEFINE n == Len(s)
           front == Shorter(s)
<1>1. n \in Nat /\ n - 1 \in 0..n /\ n \in DOMAIN s /\ DOMAIN s = 1..n
  BY IsSeqBasics
<1>2. /\ IsSeq(front) /\ Len(front) = n - 1 /\ DOMAIN front = 1..(n - 1)
      /\ \A i \in 1..(n - 1) : front[i] = s[i]
  BY <1>1, IsSeqFront DEF Shorter
<1> HIDE DEF front
<1>3. ASSUME NEW e
      PROVE  [s EXCEPT ![n] = e] = Append(front, e)
  <2> DEFINE r == [s EXCEPT ![n] = e]
             t == Append(front, e)
  <2>1. IsSeq(r) /\ Len(r) = n /\ DOMAIN r = 1..n /\ r[n] = e /\ \A j \in 1..n : j # n => r[j] = s[j]
    BY <1>1, IsSeqExcept
  <2>2. /\ IsSeq(t) /\ Len(t) = Len(front) + 1 /\ t[Len(front) + 1] = e
        /\ \A j \in DOMAIN front : t[j] = front[j]
    BY <1>2, IsSeqAppend
  <2> HIDE DEF r, t, n
  <2>3. Len(t) = n /\ t[n] = e /\ \A j \in 1..(n - 1) : t[j] = front[j]
    BY <1>1, <1>2, <2>2
  <2>4. \A j \in DOMAIN r : r[j] = t[j]
    <3>1. \A j \in 1..n : j = n \/ j \in 1..(n - 1)
      BY <1>1
    <3> QED
      BY <1>2, <2>1, <2>3, <3>1
  <2>5. r = t
    BY <2>1, <2>2, <2>3, <2>4, IsSeqEqual
  <2> QED
    BY <2>5 DEF r, t
<1>4. [s EXCEPT ![n] = s[n]] = s
  BY IsSeqExcept DEF IsSeq
<1>5. s = Append(front, s[n])
  BY <1>3, <1>4
<1>6. \A i \in 1..(n - 1) : i \in DOMAIN s /\ i # n
  <2> HIDE DEF n
  <2> SUFFICES ASSUME NEW i \in 1..(n - 1) PROVE i \in 1..n /\ i # n
    BY <1>1
  <2> QED
    BY <1>1
<1> QED
  BY <1>1, <1>2, <1>3, <1>5, <1>6 DEF front

LEMMA ShorterAppend ==
  ASSUME NEW s, IsSeq(s), NEW e
  PROVE  Shorter(Append(s, e)) = s
<1> DEFINE t == Append(s, e)
<1>1. IsSeq(t) /\ Len(t) = Len(s) + 1 /\ \A i \in DOMAIN s : t[i] = s[i]
  BY IsSeqAppend
<1>2. t # <<>> /\ Len(s) \in Nat /\ DOMAIN s = 1..Len(s) /\ Len(t) - 1 = Len(s)
  BY <1>1, IsSeqBasics
<1> HIDE DEF t
<1>3. IsSeq(Shorter(t)) /\ Len(Shorter(t)) = Len(s) /\ \A i \in DOMAIN Shorter(t) : Shorter(t)[i] = t[i]
  BY <1>1, <1>2, IsSeqLast
<1>4. DOMAIN Shorter(t) = DOMAIN s
  BY <1>2, <1>3, IsSeqBasics
<1> QED
  BY <1>1, <1>3, <1>4, IsSeqEqual DEF t

LEMMA JoinAppend ==
  ASSUME NEW s, IsSeq(s), NEW t, IsSeq(t), NEW e
  PROVE  s \o Append(t, e) = Append(s \o t, e)
<1> DEFINE u == Append(t, e)
           l == s \o u
           m == s \o t
           r == Append(m, e)
<1>1. IsSeq(u) /\ Len(u) = Len(t) + 1 /\ u[Len(t) + 1] = e /\ \A i \in DOMAIN t : u[i] = t[i]
  BY IsSeqAppend
<1>2. Len(s) \in Nat /\ Len(t) \in Nat /\ DOMAIN t = 1..Len(t)
  BY IsSeqBasics
<1> HIDE DEF u
<1>3. IsJoin(l, s, u) /\ IsJoin(m, s, t)
  BY <1>1, IsSeqJoin
<1> HIDE DEF l, m
<1>4. /\ IsSeq(m) /\ Len(m) = Len(s) + Len(t) /\ DOMAIN m = 1..(Len(s) + Len(t))
      /\ \A i \in 1..Len(s) : m[i] = s[i]
      /\ \A i \in 1..Len(t) : m[Len(s) + i] = t[i]
  BY <1>3 DEF IsJoin
<1>5. /\ IsSeq(l) /\ Len(l) = Len(s) + Len(t) + 1 /\ DOMAIN l = 1..(Len(s) + Len(t) + 1)
      /\ \A i \in 1..Len(s) : l[i] = s[i]
      /\ \A i \in 1..(Len(t) + 1) : l[Len(s) + i] = u[i]
  BY <1>1, <1>2, <1>3 DEF IsJoin
<1>6. IsSeq(r) /\ Len(r) = Len(m) + 1 /\ r[Len(m) + 1] = e /\ \A i \in DOMAIN m : r[i] = m[i]
  BY <1>4, IsSeqAppend
<1> HIDE DEF r
<1>7. ASSUME NEW i \in DOMAIN l
      PROVE  l[i] = r[i]
  <2>1. CASE i \in 1..Len(s)
    BY <1>2, <1>4, <1>5, <1>6, <2>1
  <2>2. CASE i \notin 1..Len(s) /\ i # Len(s) + Len(t) + 1
    <3>1. i - Len(s) \in 1..Len(t) /\ i - Len(s) \in 1..(Len(t) + 1) /\ Len(s) + (i - Len(s)) = i /\ i \in DOMAIN m
      BY <1>2, <1>4, <1>5, <2>2
    <3>2. l[i] = u[i - Len(s)] /\ m[i] = t[i - Len(s)] /\ r[i] = m[i]
      BY <1>4, <1>5, <1>6, <3>1
    <3> QED
      BY <1>1, <1>2, <3>1, <3>2
  <2>3. CASE i = Len(s) + Len(t) + 1
    <3>1. Len(t) + 1 \in 1..(Len(t) + 1) /\ i = Len(s) + (Len(t) + 1) /\ i = Len(m) + 1
      BY <1>2, <1>4, <2>3
    <3> QED
      BY <1>1, <1>5, <1>6, <3>1
  <2> QED
    BY <2>1, <2>2, <2>3
<1>8. Len(l) = Len(r)
  BY <1>2, <1>4, <1>5, <1>6
<1>9. l = r
  BY <1>5, <1>6, <1>7, <1>8, IsSeqEqual
<1> QED
  BY <1>9 DEF l, r, m, u

LEMMA ValuesOfConcat ==
  ASSUME NEW seqs, IsSeq(seqs), \A i \in DOMAIN seqs : IsSeq(seqs[i])
  PROVE  /\ IsSeq(Concat(seqs))
         /\ Values(Concat(seqs)) = UNION {Values(seqs[i]) : i \in DOMAIN seqs}
<1> DEFINE S == UNION {Values(seqs[i]) : i \in DOMAIN seqs}
           r == Concat(seqs)
<1>1. seqs \in Seq(Seq(S))
  <2>1. \A i \in DOMAIN seqs : Values(seqs[i]) \subseteq S
    OBVIOUS
  <2> HIDE DEF S
  <2> QED
    BY <2>1, SequencesOfSequences
<1> HIDE DEF S
<1>2. r \in Seq(S)
  BY <1>1, ConcatType
<1>3. PICK at : IsLayout(at, seqs)
  BY <1>1, ConcatLayout
<1>4. \A i \in DOMAIN seqs : \A j \in DOMAIN seqs[i] : \E k \in DOMAIN r : r[k] = seqs[i][j]
  <2> SUFFICES ASSUME NEW i \in DOMAIN seqs, NEW j \in DOMAIN seqs[i]
               PROVE  \E k \in DOMAIN r : r[k] = seqs[i][j]
    OBVIOUS
  <2>1. DOMAIN seqs = 1..Len(seqs) /\ DOMAIN seqs[i] = 1..Len(seqs[i]) /\ Len(seqs) \in Nat /\ Len(seqs[i]) \in Nat
    BY IsSeqBasics
  <2> DEFINE x == <<i, j>>
  <2>2. x \in Positions(seqs) /\ x[1] = i /\ x[2] = j
    BY <2>1 DEF Positions
  <2> HIDE DEF x
  <2> QED
    BY <1>3, <2>2 DEF IsLayout
<1>5. \A v \in S : v \in Values(r)
  BY <1>4 DEF S, Values
<1>6. Values(r) \subseteq S
  BY <1>2 DEF Values
<1> QED
  BY <1>2, <1>5, <1>6, SeqIsSeq DEF S

LEMMA ValuesOfUniq ==
  ASSUME NEW s, IsSeq(s)
  PROVE  IsSeq(Uniq(s)) /\ Values(Uniq(s)) = Values(s)
<1> DEFINE I == {i \in DOMAIN s : \A j \in 1..(i - 1) : s[j] # s[i]}
<1>1. IsSeq(Uniq(s)) /\ Values(Uniq(s)) = {s[i] : i \in I \cap DOMAIN s}
  BY ValuesOfSubsequence DEF Uniq
<1>2. Len(s) \in Nat /\ DOMAIN s = 1..Len(s)
  BY IsSeqBasics
<1>3. ASSUME NEW v \in Values(s)
      PROVE  \E i \in I : s[i] = v
  <2> DEFINE P == {n \in Nat : \A i \in DOMAIN s : i <= n /\ s[i] = v => \E k \in I : s[k] = v}
  <2>1. 0 \in P
    BY <1>2
  <2>2. ASSUME NEW n \in Nat, n \in P
        PROVE  n + 1 \in P
    <3> SUFFICES ASSUME NEW i \in DOMAIN s, i <= n + 1, s[i] = v PROVE \E k \in I : s[k] = v
      OBVIOUS
    <3>1. CASE i \in I
      BY <3>1
    <3>2. CASE i \notin I
      <4>1. PICK j \in 1..(i - 1) : s[j] = v
        BY <3>2
      <4>2. j \in DOMAIN s /\ j <= n
        BY <1>2, <4>1
      <4> QED
        BY <2>2, <4>1, <4>2
    <3> QED
      BY <3>1, <3>2
  <2> HIDE DEF P
  <2>3. Len(s) \in P
    BY <1>2, <2>1, <2>2, SetInduction
  <2>4. PICK i \in DOMAIN s : s[i] = v
    BY DEF Values
  <2> QED
    BY <1>2, <2>3, <2>4 DEF P
<1> QED
  BY <1>1, <1>3 DEF Values

-----------------------------------------------------------------------------
(* The environment stays, and so does what is said about it alone.         *)

LEMMA SameLookups ==
  ASSUME program' = program
  PROVE  /\ ModuleNames' = ModuleNames /\ InterfaceNames' = InterfaceNames
         /\ \A name : Normalized(name)' = Normalized(name) /\ ParamsOf(name)' = ParamsOf(name)
         /\ \A name : /\ IsClass(name)' <=> IsClass(name)
                      /\ IsModule(name)' <=> IsModule(name)
                      /\ IsModuleName(name)' <=> IsModuleName(name)
         /\ \A node : IsDeclared(node)' <=> IsDeclared(node)
<1>1. ModuleNames' = ModuleNames /\ AliasNames' = AliasNames /\ InterfaceNames' = InterfaceNames
  BY DEF ModuleNames, AliasNames, InterfaceNames
<1>2. \A name : Normalized(name)' = Normalized(name) /\ ParamsOf(name)' = ParamsOf(name)
  BY <1>1 DEF Normalized, ParamsOf
<1>3. \A name : /\ IsClass(name)' <=> IsClass(name)
                /\ IsModule(name)' <=> IsModule(name)
                /\ IsModuleName(name)' <=> IsModuleName(name)
  BY <1>1 DEF IsClass, IsModule, IsModuleName
<1>4. \A node : IsDeclared(node)' <=> IsDeclared(node)
  BY <1>1 DEF IsDeclared
<1> QED
  BY <1>1, <1>2, <1>3, <1>4

LEMMA SameErrors ==
  ASSUME program' = program
  PROVE  \A node : OneErrors(node)' = OneErrors(node)
<1>1. /\ \A entry : \A checks \in BOOLEAN : SuperError(entry, checks)' = SuperError(entry, checks)
      /\ \A self_type : SelfTypeError(self_type)' = SelfTypeError(self_type)
      /\ \A mixin : MixinError(mixin)' = MixinError(mixin)
  <2>1. \A entry : \A checks \in BOOLEAN : SuperError(entry, checks)' = SuperError(entry, checks)
    BY SameLookups DEF SuperError
  <2>2. \A self_type : SelfTypeError(self_type)' = SelfTypeError(self_type)
    BY SameLookups DEF SelfTypeError
  <2>3. \A mixin : MixinError(mixin)' = MixinError(mixin)
    BY SameLookups DEF MixinError
  <2> QED
    BY <2>1, <2>2, <2>3
<1>2. /\ \A name : \A checks \in BOOLEAN : ClassErrors(name, checks)' = ClassErrors(name, checks)
      /\ \A entry, kinds : MixinErrors(entry, kinds)' = MixinErrors(entry, kinds)
      /\ \A name : IncludedInterfaces(name)' = IncludedInterfaces(name)
  BY <1>1 DEF ClassErrors, MixinErrors, IncludedInterfaces
<1>3. \A name : OneInstanceErrors(name)' = OneInstanceErrors(name)
  BY <1>1, <1>2 DEF OneInstanceErrors
<1>4. \A name : OneSingletonErrors(name)' = OneSingletonErrors(name)
  BY <1>2 DEF OneSingletonErrors
<1>5. \A name : OneInterfaceErrors(name)' = OneInterfaceErrors(name)
  BY <1>2, SameLookups DEF OneInterfaceErrors
<1> QED
  BY <1>3, <1>4, <1>5 DEF OneErrors

LEMMA SameParts ==
  ASSUME program' = program
  PROVE  \A node : OneAncestors(node)' = OneAncestors(node)
<1>1. \A m, name : AsPart(m, name)' = AsPart(m, name)
  BY SameLookups DEF AsPart
<1>2. \A mixins : AsParts(mixins)' = AsParts(mixins)
  BY <1>1, SameLookups DEF AsParts
<1>3. /\ \A entry, kind : MixedIn(entry, kind)' = MixedIn(entry, kind)
      /\ \A name : IncludedInterfaces(name)' = IncludedInterfaces(name)
  BY <1>2 DEF MixedIn, IncludedInterfaces
<1>4. \A name : OneInstanceAncestors(name)' = OneInstanceAncestors(name)
  <2>1. \A entry : SuperAsPart(entry)' = SuperAsPart(entry)
    BY SameLookups DEF SuperAsPart
  <2>2. \A entry : SelfTypesAsParts(entry)' = SelfTypesAsParts(entry)
    BY SameLookups DEF SelfTypesAsParts
  <2> QED
    BY <1>3, <2>1, <2>2 DEF OneInstanceAncestors
<1>5. \A name : OneSingletonAncestors(name)' = OneSingletonAncestors(name)
  BY <1>3, SameLookups DEF OneSingletonAncestors
<1>6. \A name : OneInterfaceAncestors(name)' = OneInterfaceAncestors(name)
  BY <1>3, SameLookups DEF OneInterfaceAncestors
<1> QED
  BY <1>4, <1>5, <1>6 DEF OneAncestors

LEMMA SameParents ==
  ASSUME program' = program
  PROVE  /\ \A node : IsSound(node)' <=> IsSound(node)
         /\ \A node : PartsOf(node)' = PartsOf(node)
         /\ \A node : Parents(node)' = Parents(node)
         /\ \A node : IsMisapplied(node)' <=> IsMisapplied(node)
<1>1. \A node : (IsSound(node)' <=> IsSound(node)) /\ PartsOf(node)' = PartsOf(node)
  BY SameLookups, SameErrors, SameParts DEF IsSound, PartsOf
<1>2. \A name : SelfModules(name)' = SelfModules(name)
  BY SameLookups DEF SelfModules
<1>3. \A node : Parents(node)' = Parents(node)
  BY <1>1, <1>2 DEF Parents
<1>4. \A node : IsMisapplied(node)' <=> IsMisapplied(node)
  BY <1>1, SameLookups DEF IsMisapplied
<1> QED
  BY <1>1, <1>3, <1>4

-----------------------------------------------------------------------------
(* The parts of answers are sequences, and lead to methods of their kind.  *)

LEMMA MixinsAreASeq ==
  ASSUME NEW entry, NEW kind, IsDecls(entry.decls, kind), NEW kinds
  PROVE  IsSeq(Mixins(entry, kinds))
<1> DEFINE AlignedMixin(i, m) ==
             [kind |-> m.kind, name |-> m.name, language |-> entry.decls[i].language,
              args |-> IF entry.decls[i].language = "rbs" /\ m.kind # "extend"
                       THEN Aligned(m.args, entry.decls[i], entry) ELSE m.args]
           OfDecl(i) == [j \in DOMAIN entry.decls[i].mixins |-> AlignedMixin(i, entry.decls[i].mixins[j])]
           seqs == [i \in DOMAIN entry.decls |-> OfDecl(i)]
           all == Concat(seqs)
<1>1. IsSeq(seqs)
  BY MappedIsSeq DEF IsDecls
<1>2. \A i \in DOMAIN seqs : IsSeq(seqs[i])
  <2> SUFFICES ASSUME NEW i \in DOMAIN entry.decls PROVE IsSeq(OfDecl(i))
    OBVIOUS
  <2>1. IsSeq(entry.decls[i].mixins)
    BY DEF IsDecls, Values
  <2> QED
    BY <2>1, MappedIsSeq
<1>3. IsSeq(all)
  BY ONLY <1>1, <1>2, ValuesOfConcat
<1>4. Mixins(entry, kinds) = Subsequence(all, {i \in DOMAIN all : all[i].kind \in kinds})
  BY DEF Mixins, OfKinds
<1> HIDE DEF all
<1> QED
  BY <1>3, <1>4, ValuesOfSubsequence

LEMMA MixedInIsASeq ==
  ASSUME NEW entry, NEW kind, IsDecls(entry.decls, kind), NEW of
  PROVE  /\ IsSeq(MixedIn(entry, of))
         /\ \A p \in Values(MixedIn(entry, of)) : p.method = "instance_ancestors"
<1> DEFINE mixins == Mixins(entry, {of})
           some == Subsequence(mixins, {i \in DOMAIN mixins : ~IsInterface(mixins[i].name)})
<1>1. IsSeq(some)
  BY MixinsAreASeq, ValuesOfSubsequence
<1>2. MixedIn(entry, of) = [i \in DOMAIN some |-> AsPart(some[i], Normalized(some[i].name))]
  BY DEF MixedIn, AsParts, Modules
<1> HIDE DEF some
<1>3. IsSeq(MixedIn(entry, of))
  BY <1>1, <1>2, MappedIsSeq
<1>4. \A m, name : AsPart(m, name).method = "instance_ancestors"
  BY DEF AsPart, Part
<1> QED
  BY <1>2, <1>3, <1>4 DEF Values

LEMMA SelfTypesAreASeq ==
  ASSUME NEW entry, NEW kind, IsDecls(entry.decls, kind)
  PROVE  /\ IsSeq(SelfTypes(entry))
         /\ \A decl \in Values(entry.decls) : \A t \in Values(decl.self_types) :
               \E u \in Values(SelfTypes(entry)) : u.name = t.name
<1> DEFINE OfDecl(i) == [j \in DOMAIN entry.decls[i].self_types |->
                           [name |-> entry.decls[i].self_types[j].name,
                            args |-> Aligned(entry.decls[i].self_types[j].args, entry.decls[i], entry)]]
           seqs == [i \in DOMAIN entry.decls |-> OfDecl(i)]
           all == Concat(seqs)
<1>1. IsSeq(seqs)
  BY MappedIsSeq DEF IsDecls
<1>2. \A i \in DOMAIN seqs : IsSeq(seqs[i])
  <2> SUFFICES ASSUME NEW i \in DOMAIN entry.decls PROVE IsSeq(OfDecl(i))
    OBVIOUS
  <2>1. IsSeq(entry.decls[i].self_types)
    BY DEF IsDecls, Values
  <2> QED
    BY <2>1, MappedIsSeq
<1>3. IsSeq(all) /\ Values(all) = UNION {Values(seqs[i]) : i \in DOMAIN seqs}
  BY ONLY <1>1, <1>2, ValuesOfConcat
<1>4. SelfTypes(entry) = Uniq(all)
  BY DEF SelfTypes
<1>5. ASSUME NEW decl \in Values(entry.decls), NEW t \in Values(decl.self_types)
      PROVE  \E u \in Values(all) : u.name = t.name
  <2>1. PICK i \in DOMAIN entry.decls : decl = entry.decls[i]
    BY DEF Values
  <2>2. PICK j \in DOMAIN entry.decls[i].self_types : t = entry.decls[i].self_types[j]
    BY <2>1 DEF Values
  <2>3. OfDecl(i)[j] \in Values(seqs[i]) /\ OfDecl(i)[j].name = t.name
    BY <2>2 DEF Values
  <2> HIDE DEF all
  <2> QED
    BY <1>3, <2>3
<1> HIDE DEF all
<1> QED
  BY <1>3, <1>4, <1>5, ValuesOfUniq

LEMMA SelfTypesAreParts ==
  ASSUME NEW entry, NEW kind, IsDecls(entry.decls, kind)
  PROVE  /\ IsSeq(SelfTypesAsParts(entry))
         /\ \A p \in Values(SelfTypesAsParts(entry)) : p.method = "instance_ancestors"
         /\ \A decl \in Values(entry.decls) : \A t \in {u \in Values(decl.self_types) : ~IsInterface(u.name)} :
               \E p \in Values(SelfTypesAsParts(entry)) :
                  p.kind = "self type" /\ Callee(p) = InstanceOf(Normalized(t.name))
<1> DEFINE written == SelfTypes(entry)
           object == [name |-> Object, args |-> <<>>]
           all == IF written = <<>> THEN <<object>> ELSE written
           some == FollowedSelfTypes(entry)
           parts == SelfTypesAsParts(entry)
<1>1. IsSeq(all) /\ Values(written) \subseteq Values(all)
  <2>1. IsSeq(written) /\ IsSeq(<<object>>)
    BY SelfTypesAreASeq, ValuesOfOne
  <2> HIDE DEF written, object
  <2> QED
    BY <2>1, ValuesOfEmpty
<1>2. some = Subsequence(all, {i \in DOMAIN all : ~IsInterface(all[i].name)})
  BY DEF FollowedSelfTypes, Modules
<1> HIDE DEF all
<1>3. IsSeq(some) /\ \A t \in Values(all) : ~IsInterface(t.name) => t \in Values(some)
  <2>1. IsSeq(some) /\ Values(some) = {all[i] : i \in {j \in DOMAIN all : ~IsInterface(all[j].name)} \cap DOMAIN all}
    BY <1>1, <1>2, ValuesOfSubsequence
  <2> QED
    BY <2>1 DEF Values
<1> DEFINE AsSelfType(t) == Part("self type", "instance_ancestors", Normalized(t.name), t.args, "rbs")
<1>4. parts = [i \in DOMAIN some |-> AsSelfType(some[i])]
  BY DEF SelfTypesAsParts
<1>5. \A t : /\ AsSelfType(t).kind = "self type" /\ AsSelfType(t).method = "instance_ancestors"
             /\ Callee(AsSelfType(t)) = InstanceOf(Normalized(t.name))
  BY DEF Part, Callee, InstanceOf
<1> HIDE DEF some, parts, AsSelfType
<1>6. IsSeq(parts)
  BY <1>3, <1>4, MappedIsSeq
<1>7. \A p \in Values(parts) : p.method = "instance_ancestors"
  BY <1>4, <1>5 DEF Values
<1>8. \A t \in Values(some) : AsSelfType(t) \in Values(parts)
  BY <1>4 DEF Values
<1>9. ASSUME NEW decl \in Values(entry.decls), NEW t \in Values(decl.self_types), ~IsInterface(t.name)
      PROVE  \E p \in Values(parts) : p.kind = "self type" /\ Callee(p) = InstanceOf(Normalized(t.name))
  <2>1. PICK u \in Values(written) : u.name = t.name
    BY <1>9, SelfTypesAreASeq
  <2>2. AsSelfType(u) \in Values(parts)
    BY <1>1, <1>3, <1>8, <1>9, <2>1
  <2> QED
    BY <1>5, <2>1, <2>2
<1> QED
  BY <1>6, <1>7, <1>9 DEF parts

\* The parts of an answer lead to what the three methods are called for, and only singletons
\* to singletons.
Leads(node) ==
  /\ IsSeq(OneAncestors(node))
  /\ \A p \in PartsOf(node) :
        /\ p.method \in Methods
        /\ p.method = "singleton_ancestors" => node.method = "singleton_ancestors"

\* What a module has itself as self types are callees too.
FollowsSelfTypes(node) ==
  node.method = "instance_ancestors" =>
    \A m \in SelfModules(node.name) : \E p \in PartsOf(node) : Callee(p) = InstanceOf(m)

LEMMA ItselfIsNoCall == Itself.kind = "itself"
  BY DEF Itself, Part

LEMMA InstanceParts ==
  ASSUME IsEnvironment(program), NEW name \in ModuleNames
  PROVE  LET entry == program.class_decls[name]
             first == IF entry.kind = "module" THEN SelfTypesAsParts(entry)
                      ELSE IF name = BasicObject THEN <<>> ELSE <<SuperAsPart(entry)>>
         IN  /\ IsSeq(OneInstanceAncestors(name)) /\ Values(first) \subseteq Values(OneInstanceAncestors(name))
             /\ \A p \in Values(OneInstanceAncestors(name)) : p.kind # "itself" => p.method = "instance_ancestors"
<1> DEFINE entry == program.class_decls[name]
           first == IF entry.kind = "module" THEN SelfTypesAsParts(entry)
                    ELSE IF name = BasicObject THEN <<>> ELSE <<SuperAsPart(entry)>>
           included == MixedIn(entry, "include")
           prepended == MixedIn(entry, "prepend")
<1>1. IsDecls(entry.decls, entry.kind)
  BY DEF IsEnvironment, ModuleNames, Range
<1>2. IsSeq(first) /\ \A p \in Values(first) : p.method = "instance_ancestors"
  <2> DEFINE super == SuperAsPart(entry)
  <2>1. super.method = "instance_ancestors"
    BY DEF SuperAsPart, Part
  <2>2. IsSeq(SelfTypesAsParts(entry)) /\ \A p \in Values(SelfTypesAsParts(entry)) : p.method = "instance_ancestors"
    BY <1>1, SelfTypesAreParts
  <2> HIDE DEF super, entry
  <2>3. IsSeq(<<super>>) /\ Values(<<super>>) = {super}
    BY ValuesOfOne
  <2>4. IsSeq(<<>>) /\ Values(<<>>) = {}
    BY ValuesOfEmpty, IsSeqEmpty
  <2> QED
    BY <2>1, <2>2, <2>3, <2>4 DEF super
<1>3. /\ IsSeq(included) /\ \A p \in Values(included) : p.method = "instance_ancestors"
      /\ IsSeq(prepended) /\ \A p \in Values(prepended) : p.method = "instance_ancestors"
  BY <1>1, MixedInIsASeq
<1>4. OneInstanceAncestors(name) = first \o included \o <<Itself>> \o prepended
  BY DEF OneInstanceAncestors
<1> HIDE DEF entry, first, included, prepended
<1>5. IsSeq(first \o included) /\ Values(first \o included) = Values(first) \cup Values(included)
  BY <1>2, <1>3, ValuesOfJoin
<1>6. /\ IsSeq(first \o included \o <<Itself>>)
      /\ Values(first \o included \o <<Itself>>) = Values(first) \cup Values(included) \cup {Itself}
  BY <1>5, ValuesOfOne, ValuesOfJoin
<1>7. /\ IsSeq(OneInstanceAncestors(name))
      /\ Values(OneInstanceAncestors(name)) = Values(first) \cup Values(included) \cup {Itself} \cup Values(prepended)
  BY <1>3, <1>4, <1>6, ValuesOfJoin
<1>8. \A p \in Values(OneInstanceAncestors(name)) : p.kind # "itself" => p.method = "instance_ancestors"
  BY <1>2, <1>3, <1>7, ItselfIsNoCall
<1> QED
  BY <1>7, <1>8 DEF first, entry

LEMMA SingletonParts ==
  ASSUME IsEnvironment(program), NEW name \in ModuleNames
  PROVE  /\ IsSeq(OneSingletonAncestors(name))
         /\ \A p \in Values(OneSingletonAncestors(name)) :
               p.kind # "itself" => p.method \in {"instance_ancestors", "singleton_ancestors"}
<1> DEFINE entry == program.class_decls[name]
           extended == MixedIn(entry, "extend")
<1>1. IsSeq(extended) /\ \A p \in Values(extended) : p.method = "instance_ancestors"
  <2>1. IsDecls(entry.decls, entry.kind)
    BY DEF IsEnvironment, ModuleNames, Range
  <2> QED
    BY <2>1, MixedInIsASeq
<1>2. PICK super : /\ OneSingletonAncestors(name) = <<super>> \o extended \o <<Itself>>
                   /\ super.method \in {"instance_ancestors", "singleton_ancestors"}
  <2> DEFINE super == CASE entry.kind = "module" -> Part("super", "instance_ancestors", Module, <<>>, "rbs")
                        [] name = BasicObject -> Part("super", "instance_ancestors", Class, <<>>, "rbs")
                        [] OTHER -> Part("super", "singleton_ancestors", Normalized(SuperOf(entry).name), <<>>, "rbs")
  <2>1. OneSingletonAncestors(name) = <<super>> \o extended \o <<Itself>>
    BY DEF OneSingletonAncestors
  <2>2. super.method \in {"instance_ancestors", "singleton_ancestors"}
    BY DEF Part
  <2> HIDE DEF super, extended
  <2> QED
    BY <2>1, <2>2
<1> HIDE DEF extended, entry
<1>3. IsSeq(<<super>> \o extended) /\ Values(<<super>> \o extended) = {super} \cup Values(extended)
  BY <1>1, ValuesOfOne, ValuesOfJoin
<1>4. /\ IsSeq(OneSingletonAncestors(name))
      /\ Values(OneSingletonAncestors(name)) = {super} \cup Values(extended) \cup {Itself}
  BY <1>2, <1>3, ValuesOfOne, ValuesOfJoin
<1> QED
  BY <1>1, <1>2, <1>4, ItselfIsNoCall

LEMMA InterfaceParts ==
  ASSUME IsEnvironment(program), NEW name \in InterfaceNames
  PROVE  /\ IsSeq(IncludedInterfaces(name))
         /\ IsSeq(OneInterfaceAncestors(name))
         /\ \A p \in Values(OneInterfaceAncestors(name)) : p.kind # "itself" => p.method = "interface_ancestors"
<1> DEFINE included == IncludedInterfaces(name)
           mixins == program.interface_decls[name].mixins
           AsInclude(m) == Part("include", "interface_ancestors", m.name, NormalizeArgs(ParamsOf(m.name), m.args), "rbs")
           parts == [i \in DOMAIN included |-> AsInclude(included[i])]
<1>1. IsSeq(included)
  <2>1. IsSeq(mixins)
    BY DEF IsEnvironment, InterfaceNames, Range
  <2>2. included = Subsequence(mixins, {i \in DOMAIN mixins : mixins[i].kind = "include" /\ IsInterface(mixins[i].name)})
    BY DEF IncludedInterfaces
  <2> HIDE DEF mixins, included
  <2> QED
    BY <2>1, <2>2, ValuesOfSubsequence
<1>2. OneInterfaceAncestors(name) = parts \o <<Itself>>
  BY DEF OneInterfaceAncestors
<1>3. IsSeq(parts) /\ \A p \in Values(parts) : p.method = "interface_ancestors"
  <2>1. \A m : AsInclude(m).method = "interface_ancestors"
    BY DEF Part
  <2> HIDE DEF included, AsInclude
  <2>2. IsSeq(parts)
    BY <1>1, MappedIsSeq
  <2> QED
    BY <2>1, <2>2 DEF Values
<1> HIDE DEF parts
<1> QED
  BY <1>1, <1>2, <1>3, ItselfIsNoCall, ValuesOfOne, ValuesOfJoin

LEMMA PartsLead ==
  ASSUME IsEnvironment(program), NEW node, node.method \in Methods, IsDeclared(node)
  PROVE  Leads(node) /\ FollowsSelfTypes(node)
<1>1. CASE node.method = "instance_ancestors"
  <2>1. node.name \in ModuleNames /\ OneAncestors(node) = OneInstanceAncestors(node.name)
    BY <1>1 DEF IsDeclared, OneAncestors
  <2>2. Leads(node)
    BY <1>1, <2>1, InstanceParts DEF Leads, PartsOf, Methods
  <2>3. FollowsSelfTypes(node)
    <3> DEFINE entry == program.class_decls[node.name]
    <3> SUFFICES ASSUME NEW m \in SelfModules(node.name)
                 PROVE  \E p \in PartsOf(node) : Callee(p) = InstanceOf(m)
      BY DEF FollowsSelfTypes
    <3>1. PICK decl \in Values(entry.decls) :
             \E t \in {u \in Values(decl.self_types) : ~IsInterface(u.name)} : m = Normalized(t.name)
      BY DEF SelfModules
    <3>2. IsDecls(entry.decls, entry.kind) /\ entry.kind \in {"class", "module"}
      BY <2>1 DEF IsEnvironment, ModuleNames, Range
    <3>3. entry.kind = "module"
      <4>1. decl.self_types # <<>>
        BY <3>1, ValuesOfEmpty
      <4> QED
        BY <3>2, <4>1 DEF IsDecls
    <3>4. PICK p \in Values(SelfTypesAsParts(entry)) : p.kind = "self type" /\ Callee(p) = InstanceOf(m)
      <4>1. \A d \in Values(entry.decls) : \A t \in {u \in Values(d.self_types) : ~IsInterface(u.name)} :
              \E p \in Values(SelfTypesAsParts(entry)) : p.kind = "self type" /\ Callee(p) = InstanceOf(Normalized(t.name))
        BY ONLY <3>2, SelfTypesAreParts
      <4> HIDE DEF entry
      <4> QED
        BY <3>1, <4>1
    <3>5. p \in Values(OneAncestors(node))
      BY <2>1, <3>3, <3>4, InstanceParts
    <3> QED
      BY <3>4, <3>5 DEF PartsOf
  <2> QED
    BY <2>2, <2>3
<1>2. CASE node.method = "singleton_ancestors"
  <2>1. node.name \in ModuleNames /\ OneAncestors(node) = OneSingletonAncestors(node.name)
    BY <1>2 DEF IsDeclared, OneAncestors
  <2> QED
    BY <1>2, <2>1, SingletonParts DEF Leads, FollowsSelfTypes, PartsOf, Methods
<1>3. CASE node.method = "interface_ancestors"
  <2>1. node.name \in InterfaceNames /\ OneAncestors(node) = OneInterfaceAncestors(node.name)
    BY <1>3 DEF IsDeclared, OneAncestors
  <2> QED
    BY <1>3, <2>1, InterfaceParts DEF Leads, FollowsSelfTypes, PartsOf, Methods
<1> QED
  BY <1>1, <1>2, <1>3 DEF Methods

-----------------------------------------------------------------------------
(* What is raised of a declaration is no recursion.                        *)

Faults == {"SuperclassMismatchError", "NoSuperclassFoundError", "InheritModuleError", "InvalidTypeApplicationError",
           "NoSelfTypeFoundError", "MixinClassError", "NoMixinFoundError", "RuntimeError"}
FaultOrNone == Faults \cup {"none"}

LEMMA ErrorsAreFaults ==
  ASSUME NEW errors, IsSeq(errors), Values(errors) \subseteq FaultOrNone
  PROVE  IsSeq(Errors(errors)) /\ Values(Errors(errors)) \subseteq Faults
<1> DEFINE I == {i \in DOMAIN errors : errors[i] # "none"}
<1>1. IsSeq(Errors(errors)) /\ Values(Errors(errors)) = {errors[i] : i \in I \cap DOMAIN errors}
  BY ValuesOfSubsequence DEF Errors
<1> QED
  BY <1>1 DEF Values, FaultOrNone

LEMMA ErrorsOfMixins ==
  ASSUME NEW entry, NEW kind, IsDecls(entry.decls, kind), NEW kinds
  PROVE  IsSeq(MixinErrors(entry, kinds)) /\ Values(MixinErrors(entry, kinds)) \subseteq FaultOrNone
<1> DEFINE mixins == Mixins(entry, kinds)
<1>1. IsSeq(mixins)
  BY MixinsAreASeq
<1>2. MixinErrors(entry, kinds) = [i \in DOMAIN mixins |-> MixinError(mixins[i])]
  BY DEF MixinErrors
<1>3. \A m : MixinError(m) \in FaultOrNone
  BY DEF MixinError, FaultOrNone, Faults
<1> HIDE DEF mixins
<1> QED
  BY <1>1, <1>2, <1>3, MappedIsSeq DEF Values

LEMMA ErrorsOfClasses ==
  ASSUME NEW name, NEW checks \in BOOLEAN
  PROVE  IsSeq(ClassErrors(name, checks)) /\ Values(ClassErrors(name, checks)) \subseteq FaultOrNone
<1> DEFINE entry == program.class_decls[name]
           first == IF SupersAgree(entry) THEN "none" ELSE "SuperclassMismatchError"
           second == IF name = BasicObject THEN "none" ELSE SuperError(entry, checks)
<1>1. SuperError(entry, checks) \in FaultOrNone
  BY DEF SuperError, FaultOrNone, Faults
<1>2. first \in FaultOrNone /\ second \in FaultOrNone
  BY <1>1 DEF FaultOrNone, Faults
<1>3. ClassErrors(name, checks) = <<first, second>>
  BY DEF ClassErrors
<1> HIDE DEF first, second
<1> DEFINE both == <<first, second>>
<1>4. both \in Seq(FaultOrNone)
  BY <1>2
<1> HIDE DEF both
<1>5. \A i \in DOMAIN both : both[i] \in FaultOrNone
  BY <1>4
<1>6. IsSeq(both) /\ Values(both) \subseteq FaultOrNone
  BY <1>4, <1>5, SeqIsSeq DEF Values
<1> QED
  BY <1>3, <1>6 DEF both

LEMMA ErrorsOfNodes ==
  ASSUME IsEnvironment(program), NEW node, node.method \in Methods, IsDeclared(node), OneErrors(node) # <<>>
  PROVE  Head(OneErrors(node)) \in Faults
<1> DEFINE name == node.name
           entry == program.class_decls[name]
<1> SUFFICES IsSeq(OneErrors(node)) /\ Values(OneErrors(node)) \subseteq Faults
  BY IsSeqTail DEF Values
<1>1. CASE node.method = "instance_ancestors"
  <2> DEFINE self_types == SelfTypes(entry)
             of_self_types == [i \in DOMAIN self_types |-> SelfTypeError(self_types[i])]
             first == IF entry.kind = "class" THEN ClassErrors(name, TRUE) ELSE of_self_types
             others == MixinErrors(entry, {"include", "prepend"})
  <2>1. IsDecls(entry.decls, entry.kind)
    BY <1>1 DEF IsDeclared, IsEnvironment, ModuleNames, Range
  <2>2. IsSeq(of_self_types) /\ Values(of_self_types) \subseteq FaultOrNone
    <3>1. IsSeq(self_types)
      BY <2>1, SelfTypesAreASeq
    <3>2. \A t : SelfTypeError(t) \in FaultOrNone
      BY DEF SelfTypeError, FaultOrNone, Faults
    <3> HIDE DEF self_types
    <3> QED
      BY <3>1, <3>2, MappedIsSeq DEF Values
  <2>3. IsSeq(first) /\ Values(first) \subseteq FaultOrNone
    BY <2>2, ErrorsOfClasses
  <2>4. IsSeq(others) /\ Values(others) \subseteq FaultOrNone
    BY <2>1, ErrorsOfMixins
  <2>5. OneErrors(node) = Errors(first \o others)
    BY <1>1 DEF OneErrors, OneInstanceErrors
  <2> HIDE DEF first, others
  <2>6. IsSeq(first \o others) /\ Values(first \o others) \subseteq FaultOrNone
    BY <2>3, <2>4, ValuesOfJoin
  <2> QED
    BY <2>5, <2>6, ErrorsAreFaults
<1>2. CASE node.method = "singleton_ancestors"
  <2> DEFINE first == IF entry.kind = "class" THEN ClassErrors(name, FALSE) ELSE <<>>
             others == MixinErrors(entry, {"extend"})
  <2>1. IsDecls(entry.decls, entry.kind)
    BY <1>2 DEF IsDeclared, IsEnvironment, ModuleNames, Range
  <2>2. IsSeq(first) /\ Values(first) \subseteq FaultOrNone
    BY ErrorsOfClasses, IsSeqEmpty, ValuesOfEmpty
  <2>3. IsSeq(others) /\ Values(others) \subseteq FaultOrNone
    BY <2>1, ErrorsOfMixins
  <2>4. OneErrors(node) = Errors(first \o others)
    BY <1>2 DEF OneErrors, OneSingletonErrors
  <2> HIDE DEF first, others
  <2>5. IsSeq(first \o others) /\ Values(first \o others) \subseteq FaultOrNone
    BY <2>2, <2>3, ValuesOfJoin
  <2> QED
    BY <2>4, <2>5, ErrorsAreFaults
<1>3. CASE node.method = "interface_ancestors"
  <2> DEFINE included == IncludedInterfaces(name)
             errors == [i \in DOMAIN included |-> IF included[i].name \in InterfaceNames THEN "none" ELSE "NoMixinFoundError"]
  <2>1. IsSeq(included)
    BY <1>3, InterfaceParts DEF IsDeclared
  <2>2. OneErrors(node) = Errors(errors)
    BY <1>3 DEF OneErrors, OneInterfaceErrors
  <2>3. IsSeq(errors)
    <3> HIDE DEF included
    <3> QED
      BY <2>1, MappedIsSeq
  <2>4. Values(errors) \subseteq FaultOrNone
    BY DEF Values, FaultOrNone, Faults
  <2> HIDE DEF errors
  <2> QED
    BY <2>2, <2>3, <2>4, ErrorsAreFaults
<1> QED
  BY <1>1, <1>2, <1>3 DEF Methods

-----------------------------------------------------------------------------
(* What is above nodes.                                                    *)

\* f is the recursive function of Above, as far as m.
AboveUpTo(f, nodes, m) ==
  f = [n \in 0..m |-> IF n = 0 THEN [all |-> nodes, new |-> nodes] ELSE Further(f[n - 1])]

LEMMA AboveExists ==
  ASSUME NEW nodes
  PROVE  \A m \in Nat : \E f : AboveUpTo(f, nodes, m)
<1> DEFINE P == {m \in Nat : \E f : AboveUpTo(f, nodes, m)}
<1>1. 0 \in P
  <2> DEFINE f == [n \in 0..0 |-> [all |-> nodes, new |-> nodes]]
  <2>1. AboveUpTo(f, nodes, 0)
    BY DEF AboveUpTo
  <2> QED
    BY <2>1
<1>2. ASSUME NEW m \in Nat, m \in P
      PROVE  m + 1 \in P
  <2>1. PICK f : AboveUpTo(f, nodes, m)
    BY <1>2
  <2> DEFINE g == [n \in 0..(m + 1) |-> IF n = m + 1 THEN Further(f[m]) ELSE f[n]]
  <2>2. \A n \in 0..m : g[n] = f[n]
    OBVIOUS
  <2>3. \A n \in 0..m : f[n] = IF n = 0 THEN [all |-> nodes, new |-> nodes] ELSE Further(f[n - 1])
    BY <2>1 DEF AboveUpTo
  <2>4. \A n \in 0..(m + 1) : g[n] = IF n = 0 THEN [all |-> nodes, new |-> nodes] ELSE Further(g[n - 1])
    BY <2>2, <2>3
  <2>5. AboveUpTo(g, nodes, m + 1)
    BY <2>4 DEF AboveUpTo
  <2> QED
    BY <2>5
<1> HIDE DEF P
<1>3. \A m \in Nat : m \in P
  BY <1>1, <1>2, SetInduction
<1> QED
  BY <1>3 DEF P

LEMMA AboveDefined ==
  ASSUME NEW nodes
  PROVE  \E f : AboveUpTo(f, nodes, StackLimit) /\ Above(nodes) = f[StackLimit].all
<1>1. \E f : AboveUpTo(f, nodes, StackLimit)
  BY AboveExists, StackAssumption
<1> QED
  BY <1>1 DEF Above, AboveUpTo

LEMMA AboveSteps ==
  ASSUME NEW nodes, NEW f, AboveUpTo(f, nodes, StackLimit)
  PROVE  /\ f[0] = [all |-> nodes, new |-> nodes]
         /\ \A n \in Nat : n + 1 <= StackLimit => f[n + 1] = Further(f[n])
<1>1. \A n \in 0..StackLimit : f[n] = IF n = 0 THEN [all |-> nodes, new |-> nodes] ELSE Further(f[n - 1])
  BY DEF AboveUpTo
<1> QED
  BY <1>1, StackAssumption

\* Above stays in what nothing leads out of.
LEMMA AboveStaysIn ==
  ASSUME NEW nodes, NEW S, nodes \subseteq S, \A m \in S : Parents(m) \subseteq S
  PROVE  Above(nodes) \subseteq S
<1>1. PICK f : AboveUpTo(f, nodes, StackLimit) /\ Above(nodes) = f[StackLimit].all
  BY AboveDefined
<1>2. AboveUpTo(f, nodes, StackLimit)
  BY <1>1
<1>3. /\ f[0] = [all |-> nodes, new |-> nodes]
      /\ \A n \in Nat : n + 1 <= StackLimit => f[n + 1] = Further(f[n])
  BY ONLY <1>2, AboveSteps
<1> DEFINE IsIn(r) == r.all \subseteq S /\ r.new \subseteq S
           P == {n \in Nat : n <= StackLimit => IsIn(f[n])}
<1>4. 0 \in P
  BY <1>3
<1>5. \A r : IsIn(r) => IsIn(Further(r))
  BY DEF Further
<1>6. ASSUME NEW n \in Nat, n \in P
      PROVE  n + 1 \in P
  <2>1. n + 1 <= StackLimit => n <= StackLimit /\ f[n + 1] = Further(f[n])
    BY <1>3, StackAssumption
  <2> HIDE DEF IsIn
  <2> QED
    BY <1>5, <1>6, <2>1
<1> HIDE DEF P
<1>7. StackLimit \in P
  BY <1>4, <1>6, SetInduction, StackAssumption
<1> QED
  BY <1>1, <1>7, StackAssumption DEF P

\* A path of no more steps than the stack is high stays in what is above its first node.
LEMMA PathsGoUp ==
  ASSUME NEW nodes, NEW c, NEW k \in 0..StackLimit, c[0] \in nodes,
         \A i \in 1..k : c[i] \in Parents(c[i - 1])
  PROVE  \A i \in 0..k : c[i] \in Above(nodes)
<1>1. PICK f : AboveUpTo(f, nodes, StackLimit) /\ Above(nodes) = f[StackLimit].all
  BY AboveDefined
<1>2. AboveUpTo(f, nodes, StackLimit)
  BY <1>1
<1>3. /\ f[0] = [all |-> nodes, new |-> nodes]
      /\ \A n \in Nat : n + 1 <= StackLimit => f[n + 1] = Further(f[n])
  BY ONLY <1>2, AboveSteps
<1>4. \A n \in Nat : n + 1 <= StackLimit => n <= StackLimit /\ f[n + 1] = Further(f[n])
  BY <1>3, StackAssumption
\* What is not new any more has its parents in.
<1> DEFINE IsDone(r) == r.new \subseteq r.all /\ \A x \in r.all \ r.new : Parents(x) \subseteq r.all
<1>5. \A r : IsDone(r) => IsDone(Further(r))
  BY DEF Further
<1>6. \A r : IsDone(r) => r.all \subseteq Further(r).all /\ \A x \in r.all : Parents(x) \subseteq Further(r).all
  BY DEF Further
<1>7. \A n \in Nat : n <= StackLimit => IsDone(f[n])
  <2> DEFINE P == {n \in Nat : n <= StackLimit => IsDone(f[n])}
  <2>1. 0 \in P
    BY <1>3
  <2> HIDE DEF IsDone
  <2>2. ASSUME NEW n \in Nat, n \in P PROVE n + 1 \in P
    BY <1>4, <1>5, <2>2
  <2> HIDE DEF P
  <2>3. \A n \in Nat : n \in P
    BY <2>1, <2>2, SetInduction
  <2> QED
    BY <2>3 DEF P
<1> HIDE DEF IsDone
\* A node is met after as many steps as the path has taken, and stays.
<1>8. \A n \in Nat : n + 1 <= StackLimit =>
        f[n].all \subseteq f[n + 1].all /\ \A x \in f[n].all : Parents(x) \subseteq f[n + 1].all
  BY <1>4, <1>6, <1>7
<1>9. \A n \in Nat : n <= k => c[n] \in f[n].all
  <2> DEFINE Q == {n \in Nat : n <= k => c[n] \in f[n].all}
  <2>1. 0 \in Q
    BY <1>3
  <2>2. ASSUME NEW n \in Nat, n \in Q
        PROVE  n + 1 \in Q
    <3> SUFFICES ASSUME n + 1 <= k PROVE c[n + 1] \in f[n + 1].all
      OBVIOUS
    <3>1. n + 1 \in 1..k /\ (n + 1) - 1 = n /\ n <= k /\ n + 1 <= StackLimit
      BY StackAssumption
    <3>2. c[n + 1] \in Parents(c[n]) /\ c[n] \in f[n].all
      BY <2>2, <3>1
    <3> QED
      BY <1>8, <3>1, <3>2
  <2> HIDE DEF Q
  <2>3. \A n \in Nat : n \in Q
    BY <2>1, <2>2, SetInduction
  <2> QED
    BY <2>3 DEF Q
<1>10. ASSUME NEW i \in 0..k
      PROVE  c[i] \in Above(nodes)
  <2> DEFINE R == {n \in Nat : i <= n /\ n <= StackLimit => c[i] \in f[n].all}
  <2>1. i \in Nat /\ c[i] \in f[i].all
    BY <1>9
  <2>2. 0 \in R
    BY <2>1
  <2>3. ASSUME NEW n \in Nat, n \in R
        PROVE  n + 1 \in R
    <3> SUFFICES ASSUME i <= n + 1, n + 1 <= StackLimit PROVE c[i] \in f[n + 1].all
      OBVIOUS
    <3>1. CASE i = n + 1
      BY <2>1, <3>1
    <3>2. CASE i <= n
      <4>1. n <= StackLimit /\ f[n].all \subseteq f[n + 1].all
        BY <1>4, <1>8
      <4> QED
        BY <2>3, <3>2, <4>1
    <3> QED
      BY <2>1, <3>1, <3>2
  <2> HIDE DEF R
  <2>4. StackLimit \in R
    BY <2>2, <2>3, SetInduction, StackAssumption
  <2> QED
    BY <1>1, <2>1, <2>4, StackAssumption DEF R
<1> QED
  BY <1>10

LEMMA SameAbove ==
  ASSUME program' = program
  PROVE  \A nodes : Above(nodes)' = Above(nodes)
<1> TAKE nodes
<1>1. \A r : Further(r)' = Further(r)
  BY SameParents DEF Further
<1>2. PICK f : AboveUpTo(f, nodes, StackLimit) /\ Above(nodes) = f[StackLimit].all
  BY AboveDefined
<1>3. AboveUpTo(f, nodes, StackLimit)'
  BY <1>1, <1>2 DEF AboveUpTo
<1>4. PICK g : (AboveUpTo(g, nodes, StackLimit) /\ Above(nodes) = g[StackLimit].all)'
  BY <1>3 DEF Above, AboveUpTo
<1>5. AboveUpTo(g, nodes, StackLimit)
  BY <1>1, <1>4 DEF AboveUpTo
<1>6. AboveUpTo(f, nodes, StackLimit)
  BY <1>2
<1>7. /\ f[0] = [all |-> nodes, new |-> nodes] /\ g[0] = f[0]
      /\ \A n \in Nat : n + 1 <= StackLimit => f[n + 1] = Further(f[n]) /\ g[n + 1] = Further(g[n])
  BY ONLY <1>6, <1>5, AboveSteps
<1> DEFINE P == {n \in Nat : n <= StackLimit => f[n] = g[n]}
<1>8. 0 \in P
  BY <1>7
<1>9. ASSUME NEW n \in Nat, n \in P
      PROVE  n + 1 \in P
  <2>1. n + 1 <= StackLimit => n <= StackLimit /\ f[n + 1] = Further(f[n]) /\ g[n + 1] = Further(g[n])
    BY <1>7, StackAssumption
  <2> QED
    BY <1>9, <2>1
<1> HIDE DEF P
<1>10. StackLimit \in P
  BY <1>8, <1>9, SetInduction, StackAssumption
<1> QED
  BY <1>2, <1>4, <1>10, StackAssumption DEF P

-----------------------------------------------------------------------------
(* The inductive invariant.                                                *)

\* What has an answer.
Answered == {node \in Declared : IsCached(node)}

ProgramOK == IsEnvironment(program) /\ Calls(program) < StackLimit

TablesOK ==
  /\ DOMAIN children = ModuleNames
  /\ DOMAIN caches = Methods
  /\ \A m \in Methods : \A n \in DOMAIN caches[m] : Node(m, n) \in Declared

\* What has an answer has nothing wrong with it, and is not above itself; and what is above it has an answer.
AnswersOK ==
  \A node \in Answered :
     /\ IsSound(node) /\ ~IsMisapplied(node)
     /\ Parents(node) \subseteq Answered
     /\ node \notin Above(Parents(node))

Misfits(part) ==
  /\ part.kind # "self type" /\ part.method # "singleton_ancestors"
  /\ ~Applies(ParamsOf(part.name), part.args)

\* A running call has no answer yet; its parts are still to do, or have an answer that fits.
FrameOK(frame) ==
  /\ DOMAIN frame = {"node", "todo", "ancestors"}
  /\ frame.node \in Declared \ Answered
  /\ IsSound(frame.node)
  /\ IsSeq(frame.todo)
  /\ Values(frame.todo) \subseteq Values(OneAncestors(frame.node))
  /\ \A p \in PartsOf(frame.node) :
        p \in Values(frame.todo) \/ (Callee(p) \in Answered /\ ~Misfits(p))
FramesOK == \A i \in DOMAIN stack : FrameOK(stack[i])

\* The nodes of the running calls
Running == [i \in DOMAIN stack |-> stack[i].node]

\* A call waits for the next one.
Awaits(frame, node) ==
  /\ frame.todo # <<>> /\ Head(frame.todo).kind # "itself"
  /\ Callee(Head(frame.todo)) = node
ChainOK ==
  /\ IsSeq(stack) /\ Len(stack) <= StackLimit
  /\ stack # <<>> => stack[1].node = goal
  /\ \A i \in DOMAIN stack : i + 1 \in DOMAIN stack => Awaits(stack[i], stack[i + 1].node)

\* Only the first of a list is a singleton; and a list that is not the last one has nothing else.
ListOK(list) ==
  /\ IsSeq(list) /\ list # <<>>
  /\ \A j, k \in DOMAIN list : j # k => list[j] # list[k]
  /\ \A j \in DOMAIN list : list[j].method = "singleton_ancestors" => j = 1
IsAlone(list) == Len(list) = 1 /\ list[1].method = "singleton_ancestors"
ListsOK(lists) ==
  /\ IsSeq(lists)
  /\ \A i \in DOMAIN lists : ListOK(lists[i])
  /\ \A i \in DOMAIN lists : i # Len(lists) => IsAlone(lists[i])
BuildingOK == ListsOK(building) /\ Concat(building) = Running

\* CyclesAreRefused, of the result of a call for the ancestors of the node.
Judged(node, result) == IsRight(Above({node}), result)

\* The builder works for the request, which has no answer yet.
AskedOK ==
  goal # NoGoal =>
    /\ requests # <<>>
    /\ goal.method \in Methods /\ goal = Node(goal.method, goal.name)
    /\ \/ Request.op \in Methods /\ goal = Node(Request.op, Request.name)
       \/ /\ Request.op = "constants" /\ Request.context \notin DOMAIN context_constants_cache
          /\ LastModule(Request.context) # NoModule => HasEntry(LastModule(Request.context))
       \/ /\ Request.op = "children" /\ Normalized(Request.name) \notin DOMAIN child_constants_cache
          /\ HasEntry(Request.name)
FailureOK ==
  /\ goal = NoGoal => stack = <<>> /\ failure = "none"
  /\ failure # "none" => stack = <<>> /\ Judged(goal, Raised(failure))

AnswerOK == answer # None /\ answer.request.op \in Methods => Judged(Node0, answer.result)

IInv ==
  /\ ProgramOK /\ TablesOK /\ AnswersOK
  /\ FramesOK /\ ChainOK /\ BuildingOK
  /\ AskedOK /\ FailureOK /\ AnswerOK

-----------------------------------------------------------------------------
(* What is declared, and what has answers.                                 *)

LEMMA DeclaredNodes ==
  \A node : node \in Declared <=>
               node.method \in Methods /\ node = Node(node.method, node.name) /\ IsDeclared(node)
<1> SUFFICES ASSUME NEW node
             PROVE  node \in Declared <=>
                      node.method \in Methods /\ node = Node(node.method, node.name) /\ IsDeclared(node)
  OBVIOUS
<1>1. \A m, n : Node(m, n).method = m /\ Node(m, n).name = n
  BY DEF Node
<1>2. ASSUME node \in Declared
      PROVE  node.method \in Methods /\ node = Node(node.method, node.name) /\ IsDeclared(node)
  <2>1. CASE \E m \in {"instance_ancestors", "singleton_ancestors"} : \E n \in ModuleNames : node = Node(m, n)
    BY <1>1, <2>1 DEF Methods, IsDeclared
  <2>2. CASE \E n \in InterfaceNames : node = Node("interface_ancestors", n)
    BY <1>1, <2>2 DEF Methods, IsDeclared
  <2> QED
    BY <1>2, <2>1, <2>2 DEF Declared
<1>3. ASSUME node.method \in Methods, node = Node(node.method, node.name), IsDeclared(node)
      PROVE  node \in Declared
  <2>1. CASE node.method = "interface_ancestors"
    <3>1. node.name \in InterfaceNames
      BY <1>3, <2>1 DEF IsDeclared
    <3> QED
      BY <1>3, <2>1, <3>1 DEF Declared
  <2>2. CASE node.method \in {"instance_ancestors", "singleton_ancestors"}
    <3>1. node.name \in ModuleNames
      BY <1>3, <2>2 DEF IsDeclared
    <3> QED
      BY <1>3, <2>2, <3>1 DEF Declared
  <2> QED
    BY <1>3, <2>1, <2>2 DEF Methods
<1> QED
  BY <1>2, <1>3

\* No more is declared than the stack has room for.
LEMMA DeclaredIsSmall ==
  ASSUME ProgramOK
  PROVE  IsFiniteSet(Declared) /\ Cardinality(Declared) < StackLimit
<1> DEFINE InstanceNode(n) == Node("instance_ancestors", n)
           SingletonNode(n) == Node("singleton_ancestors", n)
           InterfaceNode(n) == Node("interface_ancestors", n)
           instances == {InstanceNode(n) : n \in ModuleNames}
           singletons == {SingletonNode(n) : n \in ModuleNames}
           interfaces == {InterfaceNode(n) : n \in InterfaceNames}
<1>1. IsFiniteSet(ModuleNames) /\ IsFiniteSet(InterfaceNames)
  BY DEF ProgramOK, IsEnvironment, ModuleNames, InterfaceNames
<1>2. IsFiniteSet(instances) /\ Cardinality(instances) <= Cardinality(ModuleNames)
  <2> DEFINE f == [n \in ModuleNames |-> InstanceNode(n)]
  <2>1. f \in Surjection(ModuleNames, instances)
    BY DEF Surjection
  <2> QED
    BY ONLY <1>1, <2>1, FS_Surjection
<1>3. IsFiniteSet(singletons) /\ Cardinality(singletons) <= Cardinality(ModuleNames)
  <2> DEFINE f == [n \in ModuleNames |-> SingletonNode(n)]
  <2>1. f \in Surjection(ModuleNames, singletons)
    BY DEF Surjection
  <2> QED
    BY ONLY <1>1, <2>1, FS_Surjection
<1>4. IsFiniteSet(interfaces) /\ Cardinality(interfaces) <= Cardinality(InterfaceNames)
  <2> DEFINE f == [n \in InterfaceNames |-> InterfaceNode(n)]
  <2>1. f \in Surjection(InterfaceNames, interfaces)
    BY DEF Surjection
  <2> QED
    BY ONLY <1>1, <2>1, FS_Surjection
<1>5. Declared = (instances \cup singletons) \cup interfaces
  BY DEF Declared
<1>6. Calls(program) = 2 * Cardinality(ModuleNames) + Cardinality(InterfaceNames)
  BY DEF Calls, ModuleNames, InterfaceNames
<1> HIDE DEF instances, singletons, interfaces
<1>7. /\ IsFiniteSet(instances \cup singletons)
      /\ Cardinality(instances \cup singletons) =
           Cardinality(instances) + Cardinality(singletons) - Cardinality(instances \cap singletons)
  BY <1>2, <1>3, FS_Union
<1>8. /\ IsFiniteSet(Declared)
      /\ Cardinality(Declared) = Cardinality(instances \cup singletons) + Cardinality(interfaces)
                                   - Cardinality((instances \cup singletons) \cap interfaces)
  BY <1>4, <1>5, <1>7, FS_Union
<1>9. /\ IsFiniteSet(instances \cap singletons) /\ IsFiniteSet((instances \cup singletons) \cap interfaces)
  <2>1. instances \cap singletons \in SUBSET instances
        /\ (instances \cup singletons) \cap interfaces \in SUBSET interfaces
    OBVIOUS
  <2> QED
    BY <1>2, <1>4, <2>1, FS_Subset
<1> DEFINE a == Cardinality(instances)    b == Cardinality(singletons)    c == Cardinality(interfaces)
           d == Cardinality(instances \cap singletons)    u == Cardinality(instances \cup singletons)
           e == Cardinality((instances \cup singletons) \cap interfaces)
           m == Cardinality(ModuleNames)    i == Cardinality(InterfaceNames)
<1>10. {a, b, c, d, e, m, i} \subseteq Nat
  BY <1>1, <1>2, <1>3, <1>4, <1>9, FS_CardinalityType
<1>11. a <= m /\ b <= m /\ c <= i /\ u = a + b - d /\ Cardinality(Declared) = u + c - e
       /\ Calls(program) = 2 * m + i
  BY <1>2, <1>3, <1>4, <1>6, <1>7, <1>8
<1> HIDE DEF a, b, c, d, e, u, m, i
<1>12. Cardinality(Declared) <= Calls(program) /\ Cardinality(Declared) \in Int /\ Calls(program) \in Nat
  BY <1>10, <1>11
<1> QED
  BY <1>8, <1>12, StackAssumption DEF ProgramOK

LEMMA AnsweredIsCached ==
  ASSUME TablesOK, NEW node, node.method \in Methods, node = Node(node.method, node.name), IsCached(node)
  PROVE  node \in Answered
  BY DEF TablesOK, IsCached, Answered

LEMMA SameDeclared ==
  ASSUME program' = program
  PROVE  Declared' = Declared /\ \A p : Misfits(p)' <=> Misfits(p)
<1>1. Declared' = Declared
  BY SameLookups DEF Declared
<1>2. \A p : Misfits(p)' <=> Misfits(p)
  BY SameLookups DEF Misfits
<1> QED
  BY <1>1, <1>2

\* What is judged of an answer depends on nothing but the program.
LEMMA SameJudgement ==
  ASSUME program' = program
  PROVE  \A node, result : Judged(node, result)' <=> Judged(node, result)
<1>1. \A nodes : (HasCycle(nodes)' <=> HasCycle(nodes)) /\ (HasFault(nodes)' <=> HasFault(nodes))
  <2>1. \A nodes : HasCycle(nodes)' <=> HasCycle(nodes)
    BY SameParents, SameAbove DEF HasCycle, Cyclic
  <2>2. \A nodes : HasFault(nodes)' <=> HasFault(nodes)
    BY SameParents DEF HasFault
  <2> QED
    BY <2>1, <2>2
<1>2. \A nodes, result : IsRight(nodes, result)' <=> IsRight(nodes, result)
  <2> SUFFICES ASSUME NEW nodes, NEW result
               PROVE  IsRight(nodes, result)' <=> IsRight(nodes, result)
    OBVIOUS
  <2>1. Cyclic(nodes)' = Cyclic(nodes)
    BY SameParents, SameAbove DEF Cyclic
  <2>2. HasFault(nodes)' <=> HasFault(nodes)
    BY <1>1
  <2> QED
    BY <2>1, <2>2 DEF IsRight, IsRightFor, Singletons
<1> QED
  BY <1>2, SameAbove DEF Judged

-----------------------------------------------------------------------------
(* The running calls go up, one from the other.                            *)

IsWay(way) ==
  /\ IsSeq(way) /\ Len(way) <= StackLimit + 1
  /\ \A i \in DOMAIN way : i + 1 \in DOMAIN way => way[i + 1] \in Parents(way[i])

LEMMA WaysGoUp ==
  ASSUME NEW way, IsWay(way), way # <<>>
  PROVE  /\ \A i \in DOMAIN way : way[i] \in Above({way[1]})
         /\ \A i, j \in DOMAIN way : i < j => way[j] \in Above(Parents(way[i]))
<1>1. DOMAIN way = 1..Len(way) /\ Len(way) \in Nat /\ Len(way) # 0 /\ Len(way) - 1 \in 0..StackLimit
  BY IsSeqBasics, StackAssumption DEF IsWay
<1>2. \A i \in 1..Len(way) : i + 1 \in 1..Len(way) => way[i + 1] \in Parents(way[i])
  BY <1>1 DEF IsWay
<1>3. ASSUME NEW i \in DOMAIN way
      PROVE  way[i] \in Above({way[1]})
  <2> DEFINE k == Len(way) - 1
             c == [n \in 0..k |-> way[n + 1]]
  <2>1. c[0] \in {way[1]} /\ c[i - 1] = way[i] /\ k \in 0..StackLimit /\ i - 1 \in 0..k
    BY <1>1
  <2>2. ASSUME NEW n \in 1..k PROVE c[n] \in Parents(c[n - 1])
    <3>1. n \in 1..Len(way) /\ n + 1 \in 1..Len(way) /\ c[n] = way[n + 1] /\ c[n - 1] = way[n]
      BY <1>1
    <3> QED
      BY <1>2, <3>1
  <2> HIDE DEF k, c
  <2> QED
    BY <2>1, <2>2, PathsGoUp
<1>4. ASSUME NEW i \in DOMAIN way, NEW j \in DOMAIN way, i < j
      PROVE  way[j] \in Above(Parents(way[i]))
  <2> DEFINE k == j - i - 1
             c == [n \in 0..k |-> way[i + 1 + n]]
  <2>1. i \in 1..Len(way) /\ j \in 1..Len(way) /\ Len(way) \in Nat /\ Len(way) <= StackLimit + 1
    BY <1>1 DEF IsWay
  <2>2. k \in Nat /\ k <= StackLimit /\ i + 1 + k = j /\ i + 1 + 0 = i + 1 /\ i + 1 \in 1..Len(way)
    BY <1>4, <2>1, StackAssumption
  <2>3. /\ k \in 0..StackLimit /\ k \in 0..k
        /\ c[0] = way[i + 1] /\ c[k] = way[j] /\ i \in 1..Len(way) /\ i + 1 \in 1..Len(way)
    <3> HIDE DEF k
    <3> QED
      BY <2>1, <2>2, StackAssumption
  <2>4. c[0] \in Parents(way[i])
    BY <1>2, <2>3
  <2>5. ASSUME NEW n \in 1..k PROVE c[n] \in Parents(c[n - 1])
    <3>1. /\ i + n \in 1..Len(way) /\ i + n + 1 \in 1..Len(way)
          /\ c[n] = way[i + n + 1] /\ c[n - 1] = way[i + n]
      BY <1>1, <1>4
    <3> QED
      BY <1>2, <3>1
  <2> HIDE DEF k, c
  <2> QED
    BY <2>3, <2>4, <2>5, PathsGoUp
<1> QED
  BY <1>3, <1>4

\* What a running call waits for is above it.
LEMMA AwaitedIsParent ==
  ASSUME NEW frame, FrameOK(frame), NEW node, Awaits(frame, node)
  PROVE  Head(frame.todo) \in PartsOf(frame.node) /\ node \in Parents(frame.node)
<1>1. Head(frame.todo) \in Values(frame.todo)
  BY IsSeqTail DEF FrameOK, Awaits, Values
<1>2. Head(frame.todo) \in PartsOf(frame.node)
  BY <1>1 DEF FrameOK, Awaits, PartsOf
<1> QED
  BY <1>2 DEF FrameOK, Awaits, Parents

LEMMA RunningIsAWay ==
  ASSUME FramesOK, ChainOK
  PROVE  /\ IsWay(Running) /\ Len(Running) = Len(stack) /\ DOMAIN Running = DOMAIN stack
         /\ stack # <<>> => Running # <<>> /\ Running[1] = goal
<1>1. IsSeq(Running) /\ Len(Running) = Len(stack) /\ DOMAIN Running = DOMAIN stack
  BY MappedIsSeq DEF ChainOK, Running
<1>2. ASSUME NEW i \in DOMAIN stack, i + 1 \in DOMAIN stack
      PROVE  Running[i + 1] \in Parents(Running[i])
  <2>1. FrameOK(stack[i]) /\ Awaits(stack[i], stack[i + 1].node)
    BY <1>2 DEF FramesOK, ChainOK
  <2>2. stack[i + 1].node \in Parents(stack[i].node)
    BY <2>1, AwaitedIsParent
  <2> QED
    BY <1>2, <2>2 DEF Running
<1>3. Len(stack) \in Nat /\ DOMAIN stack = 1..Len(stack) /\ (stack = <<>> <=> Len(stack) = 0)
      /\ (Running = <<>> <=> Len(Running) = 0)
  BY <1>1, IsSeqBasics DEF ChainOK
<1>4. IsWay(Running)
  BY <1>1, <1>2, <1>3, StackAssumption DEF IsWay, ChainOK
<1>5. stack # <<>> => Running # <<>> /\ Running[1] = goal
  BY <1>1, <1>3 DEF ChainOK, Running
<1> QED
  BY <1>1, <1>4, <1>5

\* The call for the next part goes on from there.
LEMMA CallIsAWay ==
  ASSUME FramesOK, ChainOK, stack # <<>>, NEW node, Awaits(Top, node)
  PROVE  IsWay(Append(Running, node)) /\ Append(Running, node)[1] = goal
<1>1. IsWay(Running) /\ Len(Running) = Len(stack) /\ DOMAIN Running = DOMAIN stack /\ Running[1] = goal
  BY RunningIsAWay
<1>2. Len(stack) \in Nat /\ Len(stack) # 0 /\ DOMAIN stack = 1..Len(stack) /\ Len(stack) <= StackLimit
  BY IsSeqBasics DEF ChainOK
<1> DEFINE way == Append(Running, node)
           n == Len(stack)
<1>3. /\ IsSeq(way) /\ Len(way) = n + 1 /\ DOMAIN way = DOMAIN Running \cup {n + 1}
      /\ \A i \in DOMAIN Running : way[i] = Running[i]
      /\ way[n + 1] = node
  BY <1>1, IsSeqAppend DEF IsWay
<1> HIDE DEF way
<1>4. node \in Parents(Running[n])
  <2>1. FrameOK(Top) /\ Running[n] = Top.node
    BY <1>2 DEF FramesOK, Top, Running
  <2> QED
    BY <2>1, AwaitedIsParent
<1>5. ASSUME NEW i \in DOMAIN way, i + 1 \in DOMAIN way
      PROVE  way[i + 1] \in Parents(way[i])
  <2>1. CASE i = n
    <3>1. n \in DOMAIN Running
      BY <1>1, <1>2
    <3>2. way[n] = Running[n]
      BY <1>3, <3>1
    <3> QED
      BY <1>3, <1>4, <2>1, <3>2
  <2>2. CASE i # n
    <3>1. i \in DOMAIN Running /\ i + 1 \in DOMAIN Running
      BY <1>1, <1>2, <1>3, <1>5, <2>2
    <3> QED
      BY <1>1, <1>3, <3>1 DEF IsWay
  <2> QED
    BY <2>1, <2>2
<1> QED
  BY <1>1, <1>2, <1>3, <1>5, StackAssumption DEF IsWay, way

-----------------------------------------------------------------------------
(* The lists of what is being built.                                       *)

\* A call is put at the end of the last list.
LEMMA ListsGrow ==
  ASSUME NEW lists, NEW list, NEW node,
         IsSeq(lists), \A i \in DOMAIN lists : ListOK(lists[i]) /\ IsAlone(lists[i]),
         list = <<>> \/ ListOK(list), node \notin Values(list),
         node.method = "singleton_ancestors" => list = <<>>
  PROVE  /\ ListsOK(Append(lists, Append(list, node)))
         /\ Concat(Append(lists, Append(list, node))) = Append(Concat(lists) \o list, node)
<1> DEFINE longer == Append(list, node)
           r == Append(lists, longer)
<1>1. IsSeq(list) /\ Len(list) \in Nat /\ DOMAIN list = 1..Len(list) /\ (list = <<>> => Len(list) = 0)
  BY IsSeqEmpty, IsSeqBasics DEF ListOK
<1>2. /\ IsSeq(longer) /\ Len(longer) = Len(list) + 1 /\ DOMAIN longer = DOMAIN list \cup {Len(list) + 1}
      /\ longer[Len(list) + 1] = node /\ \A j \in DOMAIN list : longer[j] = list[j]
  BY <1>1, IsSeqAppend
<1>3. ListOK(longer)
  <2>1. longer # <<>>
    BY <1>1, <1>2, IsSeqBasics
  <2>2. ASSUME NEW j \in DOMAIN longer, NEW k \in DOMAIN longer, j # k
        PROVE  longer[j] # longer[k]
    <3>1. \A i \in DOMAIN list : longer[i] # node
      BY <1>2 DEF Values
    <3>2. CASE j \in DOMAIN list /\ k \in DOMAIN list
      BY <1>1, <1>2, <2>2, <3>2 DEF ListOK
    <3>3. CASE j \notin DOMAIN list \/ k \notin DOMAIN list
      BY <1>2, <2>2, <3>1, <3>3
    <3> QED
      BY <3>2, <3>3
  <2>3. ASSUME NEW j \in DOMAIN longer, longer[j].method = "singleton_ancestors"
        PROVE  j = 1
    <3>1. CASE j \in DOMAIN list
      BY <1>1, <1>2, <2>3, <3>1 DEF ListOK
    <3>2. CASE j \notin DOMAIN list
      BY <1>1, <1>2, <2>3, <3>2
    <3> QED
      BY <3>1, <3>2
  <2> QED
    BY <1>2, <2>1, <2>2, <2>3 DEF ListOK
<1> HIDE DEF longer
<1>4. /\ IsSeq(r) /\ Len(r) = Len(lists) + 1 /\ DOMAIN r = DOMAIN lists \cup {Len(lists) + 1}
      /\ r[Len(lists) + 1] = longer /\ \A i \in DOMAIN lists : r[i] = lists[i]
  BY IsSeqAppend
<1> HIDE DEF r
<1>5. ListsOK(r)
  BY <1>3, <1>4 DEF ListsOK
<1>6. \A i \in DOMAIN lists : IsSeq(lists[i])
  BY DEF ListOK
<1>7. Concat(r) = Concat(lists) \o longer
  BY <1>2, <1>6, ConcatOneMore DEF r
<1>8. Concat(lists) \o longer = Append(Concat(lists) \o list, node)
  BY <1>1, <1>6, ValuesOfConcat, JoinAppend DEF longer
<1> QED
  BY <1>5, <1>7, <1>8 DEF r, longer

\* The last list and those before it
LEMMA LastList ==
  ASSUME NEW lists, ListsOK(lists), lists # <<>>
  PROVE  LET before == Shorter(lists)
             list == lists[Len(lists)]
         IN  /\ lists = Append(before, list)
             /\ IsSeq(before) /\ \A i \in DOMAIN before : ListOK(before[i]) /\ IsAlone(before[i])
             /\ ListOK(list)
             /\ Concat(lists) = Concat(before) \o list
             /\ IsSeq(Concat(before))
<1> DEFINE before == Shorter(lists)
           list == lists[Len(lists)]
<1>1. /\ Len(lists) \in DOMAIN lists /\ IsSeq(before) /\ lists = Append(before, list)
      /\ \A i \in DOMAIN before : i \in DOMAIN lists /\ i # Len(lists) /\ before[i] = lists[i]
  BY IsSeqLast DEF ListsOK
<1> HIDE DEF before
<1>2. \A i \in DOMAIN before : ListOK(before[i]) /\ IsAlone(before[i])
  BY <1>1 DEF ListsOK
<1>3. ListOK(list)
  BY <1>1 DEF ListsOK
<1> HIDE DEF list
<1>4. Concat(Append(before, list)) = Concat(before) \o list /\ IsSeq(Concat(before))
  BY <1>1, <1>2, <1>3, ConcatOneMore, ValuesOfConcat DEF ListOK
<1> QED
  BY <1>1, <1>2, <1>3, <1>4 DEF before, list

\* A new list, or the list that is in use, gets one more.
LEMMA EnteringLists ==
  ASSUME NEW lists, NEW node, ListsOK(lists),
         NEW inUse,
         \/ inUse = Append(lists, <<>>) /\ \A i \in DOMAIN lists : IsAlone(lists[i])
         \/ /\ inUse = lists /\ lists # <<>> /\ node \notin Values(lists[Len(lists)])
            /\ node.method # "singleton_ancestors"
  PROVE  LET longer == [inUse EXCEPT ![Len(inUse)] = Append(@, node)]
         IN  ListsOK(longer) /\ Concat(longer) = Append(Concat(lists), node)
<1> DEFINE longer == [inUse EXCEPT ![Len(inUse)] = Append(@, node)]
           n == Len(inUse)
<1>1. CASE inUse = Append(lists, <<>>) /\ \A i \in DOMAIN lists : IsAlone(lists[i])
  <2>1. /\ IsSeq(inUse) /\ Len(inUse) = Len(lists) + 1 /\ inUse[Len(inUse)] = <<>>
        /\ Shorter(inUse) = lists /\ inUse # <<>>
    <3>1. IsSeq(inUse) /\ Len(inUse) = Len(lists) + 1 /\ inUse[Len(lists) + 1] = <<>>
      BY <1>1, IsSeqAppend DEF ListsOK
    <3>2. Len(lists) \in Nat
      BY IsSeqBasics DEF ListsOK
    <3>3. inUse # <<>>
      BY <3>1, <3>2, IsSeqBasics
    <3> QED
      BY <1>1, <3>1, <3>3, ShorterAppend DEF ListsOK
  <2>2. longer = Append(lists, Append(<<>>, node))
    BY <2>1, IsSeqLast
  <2>3. /\ ListsOK(Append(lists, Append(<<>>, node)))
        /\ Concat(Append(lists, Append(<<>>, node))) = Append(Concat(lists) \o <<>>, node)
    <3>1. IsSeq(lists) /\ \A i \in DOMAIN lists : ListOK(lists[i]) /\ IsAlone(lists[i])
      BY <1>1 DEF ListsOK
    <3>2. ASSUME NEW nothing, nothing = <<>>, node \notin Values(nothing)
          PROVE  /\ ListsOK(Append(lists, Append(nothing, node)))
                 /\ Concat(Append(lists, Append(nothing, node))) = Append(Concat(lists) \o nothing, node)
      <4>1. nothing = <<>> \/ ListOK(nothing)
        BY <3>2
      <4>2. node.method = "singleton_ancestors" => nothing = <<>>
        BY <3>2
      <4> QED
        BY ONLY <3>1, <3>2, <4>1, <4>2, ListsGrow, ZenonT(30)
    <3>3. node \notin Values(<<>>)
      BY ValuesOfEmpty
    <3> QED
      BY <3>2, <3>3
  <2>4. Concat(lists) \o <<>> = Concat(lists)
    <3> DEFINE all == Concat(lists)
    <3>1. IsSeq(all)
      BY ValuesOfConcat DEF ListsOK, ListOK
    <3> HIDE DEF all
    <3>2. all \o <<>> = all
      BY <3>1 DEF IsSeq
    <3> QED
      BY <3>2 DEF all
  <2> QED
    BY <2>2, <2>3, <2>4
<1>2. CASE /\ inUse = lists /\ lists # <<>> /\ node \notin Values(lists[Len(lists)])
           /\ node.method # "singleton_ancestors"
  <2> DEFINE before == Shorter(lists)
             list == lists[Len(lists)]
  <2>1. /\ lists = Append(before, list)
        /\ IsSeq(before) /\ \A i \in DOMAIN before : ListOK(before[i]) /\ IsAlone(before[i])
        /\ ListOK(list) /\ Concat(lists) = Concat(before) \o list
    BY <1>2, LastList
  <2>2. longer = Append(before, Append(list, node))
    BY <1>2, IsSeqLast DEF ListsOK
  <2> HIDE DEF before, longer
  <2>3. /\ ListsOK(Append(before, Append(list, node)))
        /\ Concat(Append(before, Append(list, node))) = Append(Concat(before) \o list, node)
    BY <1>2, <2>1, ListsGrow
  <2> QED
    BY <2>1, <2>2, <2>3 DEF longer
<1> QED
  BY <1>1, <1>2

\* The last of the last list is taken away, and the list with it when nothing is left.
LEMMA PoppedLists ==
  ASSUME ListsOK(building), building # <<>>
  PROVE  ListsOK(Popped) /\ \E node : Concat(building) = Append(Concat(Popped), node)
<1> DEFINE before == Shorter(building)
           list == building[Len(building)]
           rest == Shorter(list)
           node == list[Len(list)]
<1>1. /\ building = Append(before, list)
      /\ IsSeq(before) /\ \A i \in DOMAIN before : ListOK(before[i]) /\ IsAlone(before[i])
      /\ ListOK(list) /\ Concat(building) = Concat(before) \o list /\ IsSeq(Concat(before))
  BY LastList
<1>2. \A e : [building EXCEPT ![Len(building)] = e] = Append(before, e)
  BY IsSeqLast DEF ListsOK
<1>3. Popped = IF Len(list) = 1 THEN before ELSE Append(before, rest)
  BY <1>2 DEF Popped
<1> HIDE DEF before, list
<1>4. /\ IsSeq(rest) /\ Len(rest) = Len(list) - 1 /\ list = Append(rest, node)
      /\ \A i \in DOMAIN rest : i \in DOMAIN list /\ rest[i] = list[i]
      /\ Len(list) \in Nat /\ Len(list) # 0
  BY <1>1, IsSeqLast, IsSeqBasics DEF ListOK
<1> HIDE DEF rest, node
<1>5. Concat(building) = Append(Concat(before) \o rest, node)
  BY <1>1, <1>4, JoinAppend
<1>6. CASE Len(list) = 1
  <2>1. rest = <<>>
    BY <1>4, <1>6, IsSeqBasics
  <2> DEFINE all == Concat(before)
  <2>2. all \o rest = all
    <3>1. IsSeq(all)
      BY <1>1
    <3> HIDE DEF all
    <3> QED
      BY <2>1, <3>1 DEF IsSeq
  <2>3. ListsOK(before)
    BY <1>1 DEF ListsOK
  <2> QED
    BY <1>3, <1>5, <1>6, <2>2, <2>3
<1>7. CASE Len(list) # 1
  <2>1. rest # <<>>
    BY <1>4, <1>7, IsSeqBasics
  <2>2. ListOK(rest)
    BY <1>1, <1>4, <2>1 DEF ListOK
  <2> DEFINE r == Append(before, rest)
  <2>3. /\ IsSeq(r) /\ Len(r) = Len(before) + 1 /\ DOMAIN r = DOMAIN before \cup {Len(before) + 1}
        /\ r[Len(before) + 1] = rest /\ \A i \in DOMAIN before : r[i] = before[i]
    BY <1>1, IsSeqAppend
  <2>4. Concat(r) = Concat(before) \o rest
    <3>1. \A i \in DOMAIN before : IsSeq(before[i])
      BY <1>1 DEF ListOK
    <3> QED
      BY ONLY <1>1, <1>4, <3>1, ConcatOneMore
  <2> HIDE DEF r
  <2>5. ListsOK(r)
    BY <1>1, <2>2, <2>3 DEF ListsOK
  <2> QED
    BY <1>3, <1>5, <1>7, <2>4, <2>5 DEF r
<1> QED
  BY <1>6, <1>7

LEMMA RunningIsASeq ==
  ASSUME IsSeq(stack)
  PROVE  IsSeq(Running) /\ Len(Running) = Len(stack) /\ DOMAIN Running = DOMAIN stack
  BY MappedIsSeq DEF Running

\* The innermost call is the last of the last list.
LEMMA TopIsLast ==
  ASSUME BuildingOK, IsSeq(stack), stack # <<>>
  PROVE  /\ building # <<>>
         /\ LET list == building[Len(building)]
            IN  ListOK(list) /\ Len(list) \in DOMAIN list /\ list[Len(list)] = Top.node
<1>1. IsSeq(Running) /\ Len(Running) = Len(stack) /\ Len(stack) \in Nat /\ Len(stack) # 0 /\ DOMAIN stack = 1..Len(stack)
  BY RunningIsASeq, IsSeqBasics
<1>2. building # <<>>
  BY <1>1, ConcatEmpty, IsSeqEmpty DEF BuildingOK
<1> DEFINE before == Concat(Shorter(building))
           list == building[Len(building)]
           rest == Shorter(list)
<1>3. ListOK(list) /\ Running = before \o list /\ IsSeq(before)
  BY <1>2, LastList DEF BuildingOK
<1> HIDE DEF before, list
<1>4. Len(list) \in DOMAIN list /\ IsSeq(rest) /\ list = Append(rest, list[Len(list)])
  BY <1>3, IsSeqLast DEF ListOK
<1> HIDE DEF rest
<1>5. Running = Append(before \o rest, list[Len(list)]) /\ IsSeq(before \o rest)
  <2> DEFINE node == list[Len(list)]
  <2>1. list = Append(rest, node) /\ Running = before \o list
    BY <1>3, <1>4
  <2> HIDE DEF node
  <2>2. before \o Append(rest, node) = Append(before \o rest, node) /\ IsSeq(before \o rest)
    BY <1>3, <1>4, JoinAppend, ValuesOfJoin
  <2>3. Running = Append(before \o rest, node)
    BY <2>1, <2>2
  <2> QED
    BY <2>2, <2>3 DEF node
<1> DEFINE all == before \o rest
<1> HIDE DEF all
<1>6. IsSeq(all) /\ Running = Append(all, list[Len(list)])
  BY <1>5 DEF all
<1>7. Len(Running) = Len(all) + 1 /\ Running[Len(all) + 1] = list[Len(list)]
  BY <1>6, IsSeqAppend
<1>8. Running[Len(stack)] = Top.node
  BY <1>1 DEF Running, Top
<1> QED
  BY <1>1, <1>2, <1>3, <1>4, <1>7, <1>8 DEF list

\* What is in a list is a running call.
LEMMA ListedIsRunning ==
  ASSUME BuildingOK, IsSeq(stack), NEW i \in DOMAIN building, NEW node \in Values(building[i])
  PROVE  \E k \in DOMAIN stack : stack[k].node = node
<1>1. node \in Values(Concat(building))
  BY ValuesOfConcat DEF BuildingOK, ListsOK, ListOK
<1>2. node \in Values(Running)
  BY <1>1 DEF BuildingOK
<1> QED
  BY <1>2 DEF Running, Values

\* Only a singleton is running twice.
LEMMA TwiceIsSingleton ==
  ASSUME BuildingOK, IsSeq(stack), NEW i \in DOMAIN stack, NEW j \in DOMAIN stack, i # j, stack[i].node = stack[j].node
  PROVE  stack[i].node.method = "singleton_ancestors"
<1> DEFINE S == UNION {Values(building[n]) : n \in DOMAIN building}
<1>1. \A n \in DOMAIN building : IsSeq(building[n]) /\ Values(building[n]) \subseteq S
  BY DEF BuildingOK, ListsOK, ListOK
<1> HIDE DEF S
<1>2. building \in Seq(Seq(S))
  BY <1>1, SequencesOfSequences DEF BuildingOK, ListsOK
<1>3. PICK at : IsLayout(at, building)
  BY <1>2, ConcatLayout
<1>4. DOMAIN Concat(building) = DOMAIN stack /\ \A k \in DOMAIN stack : Concat(building)[k] = stack[k].node
  BY RunningIsASeq DEF BuildingOK, Running
<1>5. PICK x \in Positions(building), y \in Positions(building) : at[x] = i /\ at[y] = j
  BY <1>3, <1>4 DEF IsLayout
<1>6. building[x[1]][x[2]] = stack[i].node /\ building[y[1]][y[2]] = stack[j].node
  BY <1>3, <1>4, <1>5 DEF IsLayout
<1>7. /\ x[1] \in DOMAIN building /\ x[2] \in DOMAIN building[x[1]] /\ x = <<x[1], x[2]>>
      /\ y[1] \in DOMAIN building /\ y[2] \in DOMAIN building[y[1]] /\ y = <<y[1], y[2]>>
  BY DEF Positions
<1>8. x[1] # y[1] \/ x[2] # y[2]
  BY <1>5, <1>7
<1>9. ASSUME NEW n \in DOMAIN building, n # Len(building), NEW k \in DOMAIN building[n]
      PROVE  building[n][k].method = "singleton_ancestors"
  <2>1. IsAlone(building[n]) /\ IsSeq(building[n])
    BY <1>9 DEF BuildingOK, ListsOK, ListOK
  <2>2. DOMAIN building[n] = 1..1
    BY <2>1, IsSeqBasics DEF IsAlone
  <2> QED
    BY <2>1, <2>2 DEF IsAlone
<1>10. CASE x[1] = Len(building) /\ y[1] = Len(building)
  <2>1. x[2] # y[2] /\ building[x[1]][x[2]] = building[x[1]][y[2]] /\ ListOK(building[x[1]])
    BY <1>6, <1>7, <1>8, <1>10 DEF BuildingOK, ListsOK
  <2> QED
    BY <1>7, <1>10, <2>1 DEF ListOK
<1> QED
  BY <1>6, <1>7, <1>9, <1>10

-----------------------------------------------------------------------------
(* What a step leaves alone.                                               *)

LEMMA ProgramStays ==
  ASSUME ProgramOK, program' = program
  PROVE  ProgramOK'
  BY DEF ProgramOK

LEMMA AnswersStay ==
  ASSUME TablesOK, AnswersOK, program' = program, caches' = caches, DOMAIN children' = DOMAIN children
  PROVE  /\ TablesOK' /\ AnswersOK' /\ Answered' = Answered
         /\ \A frame : FrameOK(frame)' <=> FrameOK(frame)
<1>1. Answered' = Answered
  BY SameDeclared DEF Answered, IsCached
<1>2. TablesOK'
  BY SameDeclared, SameLookups DEF TablesOK
<1>3. AnswersOK'
  BY <1>1, SameParents, SameAbove DEF AnswersOK
<1>4. \A frame : FrameOK(frame)' <=> FrameOK(frame)
  BY <1>1, SameDeclared, SameParents, SameParts DEF FrameOK
<1> QED
  BY <1>1, <1>2, <1>3, <1>4

LEMMA AskedStays ==
  ASSUME AskedOK, program' = program, goal' = goal, requests' = requests,
         context_constants_cache' = context_constants_cache, child_constants_cache' = child_constants_cache
  PROVE  AskedOK'
<1>1. \A name : HasEntry(name)' <=> HasEntry(name)
  BY SameLookups DEF HasEntry
<1> QED
  BY <1>1, SameLookups DEF AskedOK, Request

LEMMA AnswerStays ==
  ASSUME AnswerOK, program' = program, answer' = answer
  PROVE  AnswerOK'
  BY SameJudgement DEF AnswerOK, Node0

-----------------------------------------------------------------------------
(* What is raised is right.                                                *)

LEMMA RaisedIsRaised ==
  \A e : /\ Raised(e).is # "value"
         /\ \A f : Raised(e) = Raised(f) <=> e = f
  BY DEF Raised

LEMMA FaultIsRight ==
  ASSUME NEW error, error \notin {"RecursiveAncestorError", "SystemStackError"}, HasFault(Above({goal}))
  PROVE  Judged(goal, Raised(error))
  BY RaisedIsRaised DEF Judged, IsRight, IsRightFor

LEMMA FaultAbove ==
  ASSUME NEW node \in Above({goal}), ~IsSound(node) \/ IsMisapplied(node),
         NEW error, error \notin {"RecursiveAncestorError", "SystemStackError"}
  PROVE  Judged(goal, Raised(error))
  BY FaultIsRight DEF HasFault

LEMMA RecursionIsRight ==
  ASSUME NEW node \in Above({goal}), node.method # "singleton_ancestors", node \in Above(Parents(node))
  PROVE  Judged(goal, Raised("RecursiveAncestorError"))
<1>1. Cyclic(Above({goal})) # Singletons(Cyclic(Above({goal})))
  BY DEF Cyclic, Singletons
<1> QED
  BY <1>1, RaisedIsRaised DEF Judged, IsRight, IsRightFor

LEMMA OverflowIsRight ==
  ASSUME NEW node \in Above({goal}), node.method = "singleton_ancestors", node \in Above(Parents(node))
  PROVE  Judged(goal, Raised("SystemStackError"))
<1>1. Singletons(Cyclic(Above({goal}))) # {}
  BY DEF Cyclic, Singletons
<1> QED
  BY <1>1, RaisedIsRaised DEF Judged, IsRight, IsRightFor

LEMMA NothingRuns ==
  ASSUME stack' = <<>>
  PROVE  FramesOK' /\ ChainOK' /\ Running' = <<>>
<1>1. IsSeq(stack') /\ Len(stack') = 0 /\ DOMAIN stack' = {}
  BY IsSeqEmpty
<1>2. ChainOK'
  BY <1>1, StackAssumption DEF ChainOK
<1>3. FramesOK'
  BY <1>1 DEF FramesOK
<1>4. Running' = <<>>
  <2> DEFINE r == Running'
  <2>1. r = [i \in DOMAIN stack' |-> stack'[i].node]
    BY DEF Running
  <2>2. IsSeq(r) /\ Len(r) = 0
    BY <1>1, <2>1, MappedIsSeq
  <2> HIDE DEF r
  <2>3. r = <<>>
    BY <2>2, IsSeqBasics
  <2> QED
    BY <2>3 DEF r
<1> QED
  BY <1>2, <1>3, <1>4

LEMMA NothingIsBuilt == ListsOK(<<>>) /\ Concat(<<>>) = <<>>
  BY ConcatEmpty, IsSeqEmpty DEF ListsOK

LEMMA RaiseKeeps ==
  ASSUME IInv, NEW error, goal # NoGoal, Raise(error), UNCHANGED <<resolverVars, requests, answer>>,
         Judged(goal, Raised(error))
  PROVE  IInv'
<1>1. /\ program' = program /\ caches' = caches /\ goal' = goal /\ children' = children
      /\ requests' = requests /\ answer' = answer
      /\ context_constants_cache' = context_constants_cache /\ child_constants_cache' = child_constants_cache
      /\ stack' = <<>> /\ building' = <<>> /\ failure' = error
  BY DEF Raise, resolverVars
<1>2. ProgramOK' /\ TablesOK' /\ AnswersOK' /\ AskedOK' /\ AnswerOK'
  BY <1>1, ProgramStays, AnswersStay, AskedStays, AnswerStays DEF IInv
<1>3. FramesOK' /\ ChainOK' /\ Running' = <<>>
  BY <1>1, NothingRuns
<1>4. BuildingOK'
  BY <1>1, <1>3, NothingIsBuilt DEF BuildingOK
<1>5. FailureOK'
  <2>1. Judged(goal, Raised(error))'
    BY <1>1, SameJudgement
  <2> QED
    BY <1>1, <2>1 DEF FailureOK
<1> QED
  BY <1>2, <1>3, <1>4, <1>5 DEF IInv

-----------------------------------------------------------------------------
(* A method is called.                                                     *)

\* Where a call comes from: from outside, or from the innermost call that is running.
Comes(node) ==
  IF stack = <<>> THEN node = goal ELSE Awaits(Top, node)

\* The lists that are passed to it, and those there were.
Given(inUse, lists, node) ==
  /\ ListsOK(lists) /\ Concat(lists) = Running
  /\ \/ inUse = Append(lists, <<>>) /\ \A i \in DOMAIN lists : IsAlone(lists[i])
     \/ inUse = lists /\ lists = building /\ lists # <<>> /\ node.method # "singleton_ancestors"

LEMMA ComingGoesUp ==
  ASSUME IInv, NEW node, Comes(node)
  PROVE  /\ node \in Above({goal})
         /\ \A i \in DOMAIN stack : stack[i].node \in Above({goal})
         /\ \A i, j \in DOMAIN stack : i < j => stack[j].node \in Above(Parents(stack[i].node))
         /\ \A i \in DOMAIN stack : node \in Above(Parents(stack[i].node))
<1> DEFINE way == Append(Running, node)
           n == Len(stack)
<1>1. IsSeq(Running) /\ Len(Running) = n /\ DOMAIN Running = DOMAIN stack
      /\ n \in Nat /\ DOMAIN stack = 1..n /\ (stack = <<>> <=> n = 0)
  BY RunningIsASeq, IsSeqBasics DEF IInv, ChainOK
<1>2. /\ IsSeq(way) /\ Len(way) = n + 1 /\ DOMAIN way = DOMAIN stack \cup {n + 1}
      /\ way[n + 1] = node /\ \A i \in DOMAIN stack : way[i] = stack[i].node
  <2>1. /\ IsSeq(way) /\ Len(way) = n + 1 /\ DOMAIN way = DOMAIN Running \cup {n + 1}
        /\ way[n + 1] = node /\ \A i \in DOMAIN Running : way[i] = Running[i]
    BY <1>1, IsSeqAppend
  <2> HIDE DEF way
  <2> QED
    BY <1>1, <2>1 DEF Running
<1> HIDE DEF way, n
<1>3. IsWay(way) /\ way[1] = goal
  <2>1. CASE stack = <<>>
    <3>1. DOMAIN way = {1} /\ way[1] = goal /\ Len(way) = 1
      BY <1>1, <1>2, <2>1 DEF Comes
    <3> QED
      BY <1>2, <3>1, StackAssumption DEF IsWay
  <2>2. CASE stack # <<>>
    BY <2>2, CallIsAWay DEF IInv, Comes, way
  <2> QED
    BY <2>1, <2>2
<1>4. way # <<>>
  BY <1>1, <1>2, IsSeqBasics
<1>5. /\ \A i \in DOMAIN way : way[i] \in Above({goal})
      /\ \A i, j \in DOMAIN way : i < j => way[j] \in Above(Parents(way[i]))
  BY <1>3, <1>4, WaysGoUp
<1>6. \A i \in DOMAIN stack : i < n + 1
  BY <1>1
<1> QED
  BY <1>2, <1>5, <1>6

\* The stack has no room left: more calls are running than there are methods and names.
LEMMA FullStackRepeats ==
  ASSUME IInv, Len(stack) = StackLimit
  PROVE  \E i, j \in DOMAIN stack : i < j /\ stack[i].node = stack[j].node
<1> DEFINE S == 1..StackLimit
           f == [i \in S |-> stack[i].node]
<1>1. DOMAIN stack = S /\ S \subseteq Nat
  BY IsSeqBasics DEF IInv, ChainOK
<1>2. f \in [S -> Declared]
  BY <1>1 DEF IInv, FramesOK, FrameOK
<1>3. IsFiniteSet(S) /\ Cardinality(S) = StackLimit
  BY FS_Interval, StackAssumption
<1>4. IsFiniteSet(Declared) /\ Cardinality(Declared) < StackLimit
  BY DeclaredIsSmall DEF IInv
<1> HIDE DEF S, f
<1>5. \E x, y \in S : x # y /\ f[x] = f[y]
  BY <1>2, <1>3, <1>4, FS_PigeonHole
<1>6. PICK x \in S, y \in S : x # y /\ f[x] = f[y]
  BY <1>5
<1>7. stack[x].node = stack[y].node
  BY <1>6 DEF f
<1>8. x < y \/ y < x
  BY <1>1, <1>6
<1> QED
  BY <1>1, <1>7, <1>8

LEMMA OverflowKeeps ==
  ASSUME IInv, NEW node, Comes(node), goal # NoGoal, Len(stack) = StackLimit,
         Raise("SystemStackError"), UNCHANGED <<resolverVars, requests, answer>>
  PROVE  IInv'
<1>1. PICK i \in DOMAIN stack, j \in DOMAIN stack : i < j /\ stack[i].node = stack[j].node
  BY FullStackRepeats
<1> DEFINE again == stack[i].node
<1>2. again.method = "singleton_ancestors"
  <2>1. i # j
    BY <1>1, IsSeqBasics DEF IInv, ChainOK
  <2> QED
    BY <1>1, <2>1, TwiceIsSingleton DEF IInv, ChainOK
<1>3. again \in Above({goal}) /\ again \in Above(Parents(again))
  BY <1>1, ComingGoesUp
<1> HIDE DEF again
<1>4. Judged(goal, Raised("SystemStackError"))
  BY <1>2, <1>3, OverflowIsRight
<1> QED
  BY <1>4, RaiseKeeps

LEMMA RecursionKeeps ==
  ASSUME IInv, NEW node, Comes(node), goal # NoGoal, NEW inUse, NEW lists, Given(inUse, lists, node),
         node \in Values(inUse[Len(inUse)]),
         Raise("RecursiveAncestorError"), UNCHANGED <<resolverVars, requests, answer>>
  PROVE  IInv'
<1>1. inUse = building /\ building # <<>> /\ node.method # "singleton_ancestors"
  <2>1. ASSUME inUse = Append(lists, <<>>)
        PROVE  inUse[Len(inUse)] = <<>>
    <3>1. IsSeq(lists)
      BY DEF Given, ListsOK
    <3> QED
      BY <2>1, <3>1, IsSeqAppend
  <2> QED
    BY <2>1, ValuesOfEmpty DEF Given
<1>2. Len(building) \in DOMAIN building
  BY <1>1, IsSeqLast DEF IInv, BuildingOK, ListsOK
<1>3. PICK k \in DOMAIN stack : stack[k].node = node
  BY <1>1, <1>2, ListedIsRunning DEF IInv, ChainOK
<1>4. node \in Above({goal}) /\ node \in Above(Parents(node))
  BY <1>3, ComingGoesUp
<1>5. Judged(goal, Raised("RecursiveAncestorError"))
  BY <1>1, <1>4, RecursionIsRight
<1> QED
  BY <1>5, RaiseKeeps

LEMMA EnterFaultKeeps ==
  ASSUME IInv, NEW node, Comes(node), goal # NoGoal, ~IsSound(node),
         NEW error, error \notin {"RecursiveAncestorError", "SystemStackError"},
         Raise(error), UNCHANGED <<resolverVars, requests, answer>>
  PROVE  IInv'
<1>1. node \in Above({goal})
  BY ComingGoesUp
<1>2. Judged(goal, Raised(error))
  BY <1>1, FaultAbove
<1> QED
  BY <1>2, RaiseKeeps

\* The nodes of the running calls, with one more call.
LEMMA OneMoreRuns ==
  ASSUME IsSeq(stack), NEW frame, stack' = Append(stack, frame)
  PROVE  /\ IsSeq(stack') /\ Len(stack') = Len(stack) + 1 /\ DOMAIN stack' = DOMAIN stack \cup {Len(stack) + 1}
         /\ \A i \in DOMAIN stack : stack'[i] = stack[i]
         /\ stack'[Len(stack) + 1] = frame
         /\ Running' = Append(Running, frame.node)
<1> DEFINE n == Len(stack)
           longer == Append(stack, frame)
           r == Running'
           t == Append(Running, frame.node)
<1>1. /\ IsSeq(longer) /\ Len(longer) = n + 1 /\ DOMAIN longer = DOMAIN stack \cup {n + 1}
      /\ \A i \in DOMAIN stack : longer[i] = stack[i]
      /\ longer[n + 1] = frame
  BY IsSeqAppend
<1> HIDE DEF longer
<1>2. r = [i \in DOMAIN longer |-> longer[i].node]
  BY DEF Running, longer
<1>3. IsSeq(r) /\ Len(r) = n + 1 /\ DOMAIN r = DOMAIN longer
  BY <1>1, <1>2, MappedIsSeq
<1>4. /\ IsSeq(Running) /\ Len(Running) = n /\ DOMAIN Running = DOMAIN stack
      /\ \A i \in DOMAIN stack : Running[i] = stack[i].node
  BY RunningIsASeq DEF Running
<1>5. /\ IsSeq(t) /\ Len(t) = n + 1 /\ t[n + 1] = frame.node
      /\ \A i \in DOMAIN Running : t[i] = Running[i]
  BY <1>4, IsSeqAppend
<1> HIDE DEF r, t
<1>6. ASSUME NEW i \in DOMAIN r
      PROVE  r[i] = t[i]
  <2>1. CASE i = n + 1
    BY <1>1, <1>2, <1>3, <1>5, <2>1
  <2>2. CASE i \in DOMAIN stack
    <3>1. r[i] = stack[i].node
      BY <1>1, <1>2, <1>3, <2>2
    <3> QED
      BY <1>4, <1>5, <2>2, <3>1
  <2> QED
    BY <1>1, <1>3, <2>1, <2>2
<1>7. r = t
  BY <1>3, <1>5, <1>6, IsSeqEqual
<1> QED
  BY <1>1, <1>7 DEF longer, r, t

LEMMA CallKeeps ==
  ASSUME IInv, NEW node, Comes(node), goal # NoGoal, failure = "none",
         node.method \in Methods, node = Node(node.method, node.name), ~IsCached(node),
         NEW inUse, NEW lists, Given(inUse, lists, node), node \notin Values(inUse[Len(inUse)]),
         Len(stack) # StackLimit, IsDeclared(node), OneErrors(node) = <<>>,
         stack' = Append(stack, [node |-> node, todo |-> OneAncestors(node), ancestors |-> <<>>]),
         building' = [inUse EXCEPT ![Len(inUse)] = Append(@, node)],
         UNCHANGED <<program, caches, goal, failure>>, UNCHANGED <<resolverVars, requests, answer>>
  PROVE  IInv'
<1> DEFINE frame == [node |-> node, todo |-> OneAncestors(node), ancestors |-> <<>>]
           n == Len(stack)
<1>1. children' = children /\ context_constants_cache' = context_constants_cache
      /\ child_constants_cache' = child_constants_cache
  BY DEF resolverVars
<1>2. /\ ProgramOK' /\ TablesOK' /\ AnswersOK' /\ AskedOK' /\ AnswerOK'
      /\ \A f : FrameOK(f)' <=> FrameOK(f)
  BY <1>1, ProgramStays, AnswersStay, AskedStays, AnswerStays DEF IInv
<1>3. IsSeq(stack) /\ n \in Nat /\ DOMAIN stack = 1..n /\ (stack = <<>> <=> n = 0) /\ n <= StackLimit
  BY IsSeqBasics DEF IInv, ChainOK
<1>4. /\ frame.node = node /\ frame.todo = OneAncestors(node)
      /\ DOMAIN frame = {"node", "todo", "ancestors"}
  OBVIOUS
<1>5. FrameOK(frame)
  <2>1. node \in Declared \ Answered
    BY DeclaredNodes DEF Answered
  <2>2. IsSound(node)
    BY DEF IsSound
  <2>3. IsSeq(OneAncestors(node))
    BY PartsLead DEF Leads, IInv, ProgramOK
  <2>4. \A p \in PartsOf(node) : p \in Values(OneAncestors(node))
    BY DEF PartsOf
  <2> HIDE DEF frame
  <2> QED
    BY <1>4, <2>1, <2>2, <2>3, <2>4 DEF FrameOK
<1>6. stack' = Append(stack, frame)
  OBVIOUS
<1> HIDE DEF frame
<1>7. /\ IsSeq(stack') /\ Len(stack') = n + 1 /\ DOMAIN stack' = DOMAIN stack \cup {n + 1}
      /\ \A i \in DOMAIN stack : stack'[i] = stack[i]
      /\ stack'[n + 1] = frame /\ Running' = Append(Running, node)
  BY <1>3, <1>4, <1>6, OneMoreRuns
<1>8. FramesOK'
  <2>1. \A i \in DOMAIN stack' : FrameOK(stack'[i])
    BY <1>5, <1>7 DEF IInv, FramesOK
  <2> QED
    BY <1>2, <2>1 DEF FramesOK
<1>9. ChainOK'
  <2>1. Len(stack') <= StackLimit
    <3>1. n # StackLimit
      OBVIOUS
    <3> HIDE DEF n
    <3> QED
      BY <1>3, <1>7, <3>1, StackAssumption
  <2>2. stack'[1].node = goal
    <3>1. CASE stack = <<>>
      BY <1>3, <1>4, <1>7, <3>1 DEF Comes
    <3>2. CASE stack # <<>>
      BY <1>3, <1>7, <3>2 DEF IInv, ChainOK
    <3> QED
      BY <3>1, <3>2
  <2>3. ASSUME NEW i \in DOMAIN stack', i + 1 \in DOMAIN stack'
        PROVE  Awaits(stack'[i], stack'[i + 1].node)
    <3>1. CASE i + 1 = n + 1
      <4>1. i = n /\ i \in DOMAIN stack /\ stack # <<>> /\ stack'[i] = Top
        BY <1>3, <1>7, <2>3, <3>1 DEF Top
      <4> QED
        BY <1>4, <1>7, <3>1, <4>1 DEF Comes
    <3>2. CASE i + 1 # n + 1
      <4>1. i \in DOMAIN stack /\ i + 1 \in DOMAIN stack
        BY <1>3, <1>7, <2>3, <3>2
      <4> QED
        BY <1>7, <4>1 DEF IInv, ChainOK
    <3> QED
      BY <3>1, <3>2
  <2> QED
    BY <1>7, <2>1, <2>2, <2>3 DEF ChainOK
<1>10. BuildingOK'
  <2> DEFINE longer == [inUse EXCEPT ![Len(inUse)] = Append(@, node)]
  <2>1. ListsOK(longer) /\ Concat(longer) = Append(Concat(lists), node)
    BY EnteringLists DEF Given
  <2>2. building' = longer
    OBVIOUS
  <2> HIDE DEF longer
  <2> QED
    BY <1>7, <2>1, <2>2 DEF BuildingOK, Given
<1>11. FailureOK'
  BY DEF FailureOK
<1> QED
  BY <1>2, <1>8, <1>9, <1>10, <1>11 DEF IInv

LEMMA EnterKeeps ==
  ASSUME IInv, NEW node, Comes(node), goal # NoGoal, failure = "none",
         node.method \in Methods, node = Node(node.method, node.name), ~IsCached(node),
         NEW inUse, NEW lists, Given(inUse, lists, node),
         Enter(node, inUse), UNCHANGED <<resolverVars, requests, answer>>
  PROVE  IInv'
<1> DEFINE list == inUse[Len(inUse)]
<1>1. CASE Len(stack) = StackLimit
  BY <1>1, OverflowKeeps DEF Enter
<1>2. CASE Len(stack) # StackLimit /\ ~IsDeclared(node)
  <2>1. ~IsSound(node)
    BY <1>2 DEF IsSound
  <2>2. Raise("RuntimeError")
    BY <1>2 DEF Enter
  <2> QED
    BY <2>1, <2>2, EnterFaultKeeps
<1>3. CASE Len(stack) # StackLimit /\ IsDeclared(node) /\ node \in Values(list)
  <2>1. Raise("RecursiveAncestorError")
    BY <1>3 DEF Enter
  <2> QED
    BY <1>3, <2>1, RecursionKeeps
<1>4. CASE Len(stack) # StackLimit /\ IsDeclared(node) /\ node \notin Values(list) /\ OneErrors(node) # <<>>
  <2>1. ~IsSound(node)
    BY <1>4 DEF IsSound
  <2>2. Raise(Head(OneErrors(node)))
    BY <1>4 DEF Enter
  <2>3. Head(OneErrors(node)) \in Faults
    BY <1>4, ErrorsOfNodes DEF IInv, ProgramOK
  <2>4. Head(OneErrors(node)) \notin {"RecursiveAncestorError", "SystemStackError"}
    BY <2>3 DEF Faults
  <2> QED
    BY <2>1, <2>2, <2>4, EnterFaultKeeps
<1>5. CASE Len(stack) # StackLimit /\ IsDeclared(node) /\ node \notin Values(list) /\ OneErrors(node) = <<>>
  <2>1. /\ stack' = Append(stack, [node |-> node, todo |-> OneAncestors(node), ancestors |-> <<>>])
        /\ building' = [inUse EXCEPT ![Len(inUse)] = Append(@, node)]
        /\ UNCHANGED <<program, caches, goal, failure>>
    BY <1>5 DEF Enter
  <2> QED
    BY <1>5, <2>1, CallKeeps
<1> QED
  BY <1>1, <1>2, <1>3, <1>4, <1>5

-----------------------------------------------------------------------------
(* An answer is taken.                                                     *)

LEMMA MisfitKeeps ==
  ASSUME IInv, stack # <<>>, Top.todo # <<>>, goal # NoGoal, Part1.kind # "itself", Misfits(Part1),
         Raise("InvalidTypeApplicationError"), UNCHANGED <<resolverVars, requests, answer>>
  PROVE  IInv'
<1>1. Len(stack) \in DOMAIN stack /\ Top = stack[Len(stack)]
  BY IsSeqLast DEF IInv, ChainOK, Top
<1>2. FrameOK(Top) /\ Awaits(Top, Callee(Part1))
  BY <1>1 DEF IInv, FramesOK, Awaits, Part1
<1>3. Top.node \in Above({goal})
  BY <1>1, <1>2, ComingGoesUp DEF Comes
<1>4. Part1 \in PartsOf(Top.node)
  BY <1>2, AwaitedIsParent DEF Part1
<1>5. IsMisapplied(Top.node)
  BY <1>2, <1>4 DEF IsMisapplied, Misfits, FrameOK
<1>6. Judged(goal, Raised("InvalidTypeApplicationError"))
  BY <1>3, <1>5, FaultAbove
<1> QED
  BY <1>6, RaiseKeeps

\* The innermost call has done one of its parts.
LEMMA PartIsDone ==
  ASSUME IInv, stack # <<>>, Top.todo # <<>>, Part1.kind # "itself" => IsCached(Callee(Part1)) /\ ~Misfits(Part1),
         NEW more
  PROVE  FrameOK([Top EXCEPT !.ancestors = more, !.todo = Tail(@)])
         /\ [Top EXCEPT !.ancestors = more, !.todo = Tail(@)].node = Top.node
<1> DEFINE frame == Top
           later == [frame EXCEPT !.ancestors = more, !.todo = Tail(@)]
<1>1. FrameOK(frame)
  BY IsSeqLast DEF IInv, ChainOK, FramesOK, Top
<1>2. frame.todo # <<>> /\ Part1 = Head(frame.todo)
  BY DEF Part1
<1>3. Part1.kind # "itself" => Part1 \in PartsOf(frame.node)
  BY <1>1, <1>2, AwaitedIsParent DEF Awaits
<1>4. Part1.kind # "itself" => Part1.method \in Methods
  <2>1. frame.node.method \in Methods /\ IsDeclared(frame.node)
    BY <1>1, DeclaredNodes DEF FrameOK
  <2>2. Leads(frame.node)
    BY <2>1, PartsLead DEF IInv, ProgramOK
  <2> QED
    BY <1>3, <2>2 DEF Leads
<1>5. Part1.kind # "itself" => Callee(Part1) \in Answered
  BY <1>4, AnsweredIsCached DEF IInv, Callee, Node
<1> HIDE DEF frame
<1>6. DOMAIN frame = {"node", "todo", "ancestors"}
  BY <1>1 DEF FrameOK
<1>7. /\ later.node = frame.node /\ later.todo = Tail(frame.todo)
      /\ DOMAIN later = {"node", "todo", "ancestors"}
  BY <1>6
<1> HIDE DEF later
<1>8. IsSeq(later.todo) /\ Values(frame.todo) = {Part1} \cup Values(later.todo)
  BY <1>1, <1>2, <1>7, ValuesOfTail DEF FrameOK
<1>9. ASSUME NEW p \in PartsOf(later.node), p \notin Values(later.todo)
      PROVE  Callee(p) \in Answered /\ ~Misfits(p)
  <2>1. p \in PartsOf(frame.node) /\ p.kind # "itself"
    BY <1>7, <1>9 DEF PartsOf
  <2>2. CASE p = Part1
    BY <1>5, <2>1, <2>2
  <2>3. CASE p # Part1
    BY <1>1, <1>8, <1>9, <2>1, <2>3 DEF FrameOK
  <2> QED
    BY <2>2, <2>3
<1>10. FrameOK(later)
  <2>1. /\ later.node \in Declared \ Answered /\ IsSound(later.node)
        /\ Values(later.todo) \subseteq Values(OneAncestors(later.node))
    BY <1>1, <1>7, <1>8 DEF FrameOK
  <2> QED
    BY <1>7, <1>8, <1>9, <2>1 DEF FrameOK
<1> QED
  BY <1>7, <1>10 DEF later, frame

\* The innermost call is changed, and still is for the same node.
LEMMA TopKeeps ==
  ASSUME IInv, stack # <<>>, goal # NoGoal, failure = "none",
         NEW frame, FrameOK(frame), frame.node = Top.node, stack' = [stack EXCEPT ![Len(stack)] = frame],
         UNCHANGED <<program, caches, building, goal, failure>>, UNCHANGED <<resolverVars, requests, answer>>
  PROVE  IInv'
<1> DEFINE n == Len(stack)
           later == [stack EXCEPT ![n] = frame]
<1>1. children' = children /\ context_constants_cache' = context_constants_cache
      /\ child_constants_cache' = child_constants_cache
  BY DEF resolverVars
<1>2. /\ ProgramOK' /\ TablesOK' /\ AnswersOK' /\ AskedOK' /\ AnswerOK'
      /\ \A f : FrameOK(f)' <=> FrameOK(f)
  BY <1>1, ProgramStays, AnswersStay, AskedStays, AnswerStays DEF IInv
<1>3. IsSeq(stack) /\ n \in DOMAIN stack /\ n \in Nat /\ DOMAIN stack = 1..n
  BY IsSeqLast, IsSeqBasics DEF IInv, ChainOK
<1>4. /\ IsSeq(later) /\ Len(later) = n /\ DOMAIN later = DOMAIN stack
      /\ later[n] = frame /\ \A i \in DOMAIN stack : i # n => later[i] = stack[i]
  BY <1>3, IsSeqExcept
<1>5. stack' = later
  OBVIOUS
<1> HIDE DEF later
<1>6. \A i \in DOMAIN stack : later[i].node = stack[i].node
  BY <1>4 DEF Top
<1>7. FramesOK'
  BY <1>2, <1>4, <1>5 DEF FramesOK, IInv
<1>8. ChainOK'
  <2>1. later # <<>>
    BY <1>3, <1>4, IsSeqEmpty
  <2>2. later[1].node = goal
    <3>1. 1 \in DOMAIN stack /\ stack[1].node = goal
      BY <1>3 DEF IInv, ChainOK
    <3> QED
      BY <1>6, <3>1
  <2>3. ASSUME NEW i \in DOMAIN later, i + 1 \in DOMAIN later
        PROVE  Awaits(later[i], later[i + 1].node)
    <3>1. i \in DOMAIN stack /\ i + 1 \in DOMAIN stack /\ i # n
      BY <1>3, <1>4, <2>3
    <3>2. later[i] = stack[i] /\ later[i + 1].node = stack[i + 1].node
      BY <1>4, <1>6, <3>1
    <3> QED
      BY <3>1, <3>2 DEF IInv, ChainOK
  <2>4. Len(later) <= StackLimit
    BY <1>4 DEF IInv, ChainOK
  <2> QED
    BY <1>4, <1>5, <2>2, <2>3, <2>4 DEF ChainOK
<1>9. BuildingOK'
  <2>1. Running' = Running
    BY <1>4, <1>5, <1>6 DEF Running
  <2> QED
    BY <2>1 DEF IInv, BuildingOK
<1>10. FailureOK'
  BY DEF FailureOK
<1> QED
  BY <1>2, <1>7, <1>8, <1>9, <1>10 DEF IInv

LEMMA TakePartKeeps ==
  ASSUME IInv, TakePart, UNCHANGED <<resolverVars, requests, answer>>
  PROVE  IInv'
<1>1. /\ goal # NoGoal /\ failure = "none" /\ stack # <<>> /\ Top.todo # <<>>
      /\ Part1.kind # "itself" => IsCached(Callee(Part1))
  BY DEF TakePart, Working
<1>2. CASE IsApplied /\ ~Applies(ParamsOf(Part1.name), Part1.args)
  <2>1. Raise("InvalidTypeApplicationError")
    BY <1>2 DEF TakePart
  <2>2. Part1.kind # "itself" /\ Misfits(Part1)
    BY <1>2 DEF IsApplied, Misfits
  <2> QED
    BY <1>1, <2>1, <2>2, MisfitKeeps
<1>3. CASE ~(IsApplied /\ ~Applies(ParamsOf(Part1.name), Part1.args))
  <2> DEFINE more == Prefix \o Top.ancestors
             frame == [Top EXCEPT !.ancestors = more, !.todo = Tail(@)]
  <2>1. Part1.kind # "itself" => ~Misfits(Part1)
    BY <1>3 DEF IsApplied, Misfits
  <2>2. FrameOK(frame) /\ frame.node = Top.node
    BY <1>1, <2>1, PartIsDone
  <2>3. stack' = [stack EXCEPT ![Len(stack)] = frame] /\ UNCHANGED <<program, caches, building, goal, failure>>
    BY <1>3 DEF TakePart
  <2> HIDE DEF frame
  <2> QED
    BY <1>1, <2>2, <2>3, TopKeeps
<1> QED
  BY <1>2, <1>3

-----------------------------------------------------------------------------
(* A call returns.                                                         *)

\* The call that has done all its parts has parents that have answers, and is not above them.
LEMMA DoneIsSettled ==
  ASSUME IInv, NEW frame, FrameOK(frame), frame.todo = <<>>
  PROVE  LET node == frame.node
         IN  /\ node \in Declared \ Answered /\ IsSound(node) /\ ~IsMisapplied(node)
             /\ Parents(node) \subseteq Answered /\ node \notin Above(Parents(node))
<1> DEFINE node == frame.node
<1>1. node \in Declared \ Answered /\ IsSound(node)
  BY DEF FrameOK
<1>2. \A p \in PartsOf(node) : Callee(p) \in Answered /\ ~Misfits(p)
  BY ValuesOfEmpty DEF FrameOK
<1> HIDE DEF node
<1>3. ~IsMisapplied(node)
  BY <1>2 DEF IsMisapplied, Misfits
<1>4. Parents(node) \subseteq Answered
  <2>1. FollowsSelfTypes(node)
    BY <1>1, DeclaredNodes, PartsLead DEF IInv, ProgramOK
  <2> QED
    BY <1>1, <1>2, <2>1 DEF Parents, FollowsSelfTypes
<1>5. Above(Parents(node)) \subseteq Answered
  BY <1>4, AboveStaysIn DEF IInv, AnswersOK
<1> QED
  BY <1>1, <1>3, <1>4, <1>5 DEF node

\* No other call that is running is for the same node.
LEMMA DoneIsOnce ==
  ASSUME IInv, stack # <<>>, Top.todo = <<>>, NEW i \in DOMAIN stack, i # Len(stack)
  PROVE  stack[i].node # Top.node
<1>1. i + 1 \in DOMAIN stack /\ Len(stack) \in DOMAIN stack
  BY IsSeqBasics DEF IInv, ChainOK
<1>2. FrameOK(stack[i]) /\ FrameOK(stack[i + 1]) /\ FrameOK(Top)
  BY <1>1 DEF IInv, FramesOK, Top
<1>3. Awaits(stack[i], stack[i + 1].node)
  BY <1>1 DEF IInv, ChainOK
<1>4. stack[i + 1].node \in Parents(stack[i].node) /\ stack[i + 1].node \notin Answered
  BY <1>2, <1>3, AwaitedIsParent DEF FrameOK
<1>5. Parents(Top.node) \subseteq Answered
  BY <1>2, DoneIsSettled
<1> QED
  BY <1>4, <1>5

LEMMA ReturnAnswers ==
  ASSUME IInv, Return, NEW node, node = Top.node, node \in Declared
  PROVE  /\ Answered' = Answered \cup {node}
         /\ DOMAIN caches' = Methods
         /\ \A m \in Methods : \A n \in DOMAIN caches'[m] : n \in DOMAIN caches[m] \/ (m = node.method /\ n = node.name)
<1>1. node.method \in Methods /\ node = Node(node.method, node.name)
  BY DeclaredNodes
<1>2. program' = program
  BY DEF Return
<1>3. caches' = [caches EXCEPT ![node.method] =
                    [n \in DOMAIN @ \cup {node.name} |-> IF n = node.name THEN Top.ancestors ELSE @[n]]]
  BY DEF Return
<1>4. DOMAIN caches = Methods
  BY DEF IInv, TablesOK
<1>5. /\ DOMAIN caches' = Methods
      /\ \A m \in Methods : m # node.method => DOMAIN caches'[m] = DOMAIN caches[m]
      /\ DOMAIN caches'[node.method] = DOMAIN caches[node.method] \cup {node.name}
  BY <1>1, <1>3, <1>4
<1>6. \A other \in Declared : IsCached(other)' <=> IsCached(other) \/ other = node
  <2> SUFFICES ASSUME NEW other \in Declared
               PROVE  IsCached(other)' <=> IsCached(other) \/ other = node
    OBVIOUS
  <2>1. other.method \in Methods /\ other = Node(other.method, other.name)
    BY DeclaredNodes
  <2>2. other = node <=> other.method = node.method /\ other.name = node.name
    BY <1>1, <2>1
  <2> QED
    BY <1>5, <2>1, <2>2 DEF IsCached
<1>7. Answered' = Answered \cup {node}
  BY <1>2, <1>6, SameDeclared DEF Answered
<1> QED
  BY <1>5, <1>7

LEMMA ReturnSettles ==
  ASSUME IInv, Return, UNCHANGED resolverVars, NEW node, node = Top.node,
         node \in Declared, IsSound(node), ~IsMisapplied(node),
         Parents(node) \subseteq Answered, node \notin Above(Parents(node))
  PROVE  /\ TablesOK' /\ AnswersOK'
         /\ \A frame : FrameOK(frame) /\ frame.node # node => FrameOK(frame)'
<1>1. program' = program /\ children' = children
  BY DEF Return, resolverVars
<1>2. /\ Answered' = Answered \cup {node}
      /\ DOMAIN caches' = Methods
      /\ \A m \in Methods : \A n \in DOMAIN caches'[m] : n \in DOMAIN caches[m] \/ (m = node.method /\ n = node.name)
  BY ReturnAnswers
<1>3. TablesOK'
  <2>1. node = Node(node.method, node.name) /\ Declared' = Declared /\ ModuleNames' = ModuleNames
    BY <1>1, DeclaredNodes, SameDeclared, SameLookups
  <2> QED
    BY <1>1, <1>2, <2>1 DEF IInv, TablesOK
<1>4. AnswersOK'
  <2>1. \A other \in Answered \cup {node} :
           /\ IsSound(other) /\ ~IsMisapplied(other)
           /\ Parents(other) \subseteq Answered \cup {node}
           /\ other \notin Above(Parents(other))
    BY DEF IInv, AnswersOK
  <2> QED
    BY <1>1, <1>2, <2>1, SameParents, SameAbove DEF AnswersOK
<1>5. ASSUME NEW frame, FrameOK(frame), frame.node # node
      PROVE  FrameOK(frame)'
  <2>1. /\ Declared' = Declared /\ (\A p : Misfits(p)' <=> Misfits(p))
        /\ (IsSound(frame.node)' <=> IsSound(frame.node))
        /\ PartsOf(frame.node)' = PartsOf(frame.node)
        /\ OneAncestors(frame.node)' = OneAncestors(frame.node)
    BY <1>1, SameDeclared, SameParents, SameParts
  <2> QED
    BY <1>2, <1>5, <2>1 DEF FrameOK
<1> QED
  BY <1>3, <1>4, <1>5

LEMMA ReturnKeeps ==
  ASSUME IInv, Return, UNCHANGED <<resolverVars, requests, answer>>
  PROVE  IInv'
<1> DEFINE n == Len(stack)
           shorter == Shorter(stack)
<1>1. /\ goal # NoGoal /\ failure = "none" /\ stack # <<>> /\ Top.todo = <<>>
      /\ building' = Popped /\ stack' = shorter
      /\ program' = program /\ goal' = goal /\ failure' = failure
      /\ requests' = requests /\ answer' = answer /\ children' = children
      /\ context_constants_cache' = context_constants_cache /\ child_constants_cache' = child_constants_cache
  BY DEF Return, Working, resolverVars
<1>2. /\ IsSeq(stack) /\ n \in DOMAIN stack /\ n \in Nat /\ DOMAIN stack = 1..n /\ n # 0 /\ n <= StackLimit
      /\ FrameOK(Top)
  BY <1>1, IsSeqLast, IsSeqBasics DEF IInv, ChainOK, FramesOK, Top
<1>3. /\ Top.node \in Declared \ Answered /\ IsSound(Top.node) /\ ~IsMisapplied(Top.node)
      /\ Parents(Top.node) \subseteq Answered /\ Top.node \notin Above(Parents(Top.node))
  BY <1>1, <1>2, DoneIsSettled
<1>4. /\ TablesOK' /\ AnswersOK'
      /\ \A frame : FrameOK(frame) /\ frame.node # Top.node => FrameOK(frame)'
  BY <1>3, ReturnSettles
<1>5. ProgramOK' /\ AskedOK' /\ AnswerOK'
  BY <1>1, ProgramStays, AskedStays, AnswerStays DEF IInv
<1>6. /\ IsSeq(shorter) /\ Len(shorter) = n - 1
      /\ \A i \in DOMAIN shorter : i \in DOMAIN stack /\ i # n /\ shorter[i] = stack[i]
  BY <1>1, <1>2, IsSeqLast
<1> HIDE DEF shorter
<1>7. FramesOK'
  <2>1. \A i \in DOMAIN shorter : FrameOK(shorter[i]) /\ shorter[i].node # Top.node
    BY <1>1, <1>6, DoneIsOnce DEF IInv, FramesOK
  <2> QED
    BY <1>1, <1>4, <2>1 DEF FramesOK
<1>8. ChainOK'
  <2>1. Len(shorter) <= StackLimit
    BY <1>2, <1>6, StackAssumption
  <2>2. shorter # <<>> => shorter[1].node = goal
    <3>1. shorter # <<>> => 1 \in DOMAIN shorter
      BY <1>6, IsSeqTail
    <3> QED
      BY <1>1, <1>6, <3>1 DEF IInv, ChainOK
  <2>3. \A i \in DOMAIN shorter : i + 1 \in DOMAIN shorter => Awaits(shorter[i], shorter[i + 1].node)
    BY <1>6 DEF IInv, ChainOK
  <2> QED
    BY <1>1, <1>6, <2>1, <2>2, <2>3 DEF ChainOK
<1>9. BuildingOK'
  <2>1. building # <<>>
    BY <1>1, <1>2, TopIsLast DEF IInv
  <2>2. ListsOK(Popped) /\ \E node : Concat(building) = Append(Concat(Popped), node)
    BY <2>1, PoppedLists DEF IInv, BuildingOK
  <2> DEFINE rest == Concat(Popped)
             r == Running'
  <2>3. PICK node : Running = Append(rest, node)
    BY <2>2 DEF IInv, BuildingOK
  <2>4. IsSeq(rest)
    BY <2>2, ValuesOfConcat DEF ListsOK, ListOK
  <2> HIDE DEF rest
  <2>5. /\ IsSeq(Running) /\ Len(Running) = Len(rest) + 1
        /\ \A i \in DOMAIN rest : Running[i] = rest[i]
    BY <2>3, <2>4, IsSeqAppend
  <2>6. Len(Running) = n /\ \A i \in DOMAIN stack : Running[i] = stack[i].node
    BY <1>2, RunningIsASeq DEF Running
  <2>7. r = [i \in DOMAIN shorter |-> shorter[i].node]
    BY <1>1 DEF Running
  <2>8. IsSeq(r) /\ Len(r) = Len(shorter) /\ DOMAIN r = DOMAIN shorter
    BY <1>6, <2>7, MappedIsSeq
  <2>9. Len(rest) = Len(r) /\ DOMAIN rest = DOMAIN r
    <3>1. Len(rest) \in Nat /\ DOMAIN rest = 1..Len(rest) /\ DOMAIN r = 1..Len(r)
      BY <2>4, <2>8, IsSeqBasics
    <3>2. n = Len(rest) + 1 /\ Len(r) = n - 1 /\ n \in Nat
      BY <1>2, <1>6, <2>5, <2>6, <2>8
    <3> HIDE DEF n, r
    <3>3. Len(rest) = Len(r)
      BY <3>1, <3>2
    <3> QED
      BY <3>1, <3>3
  <2>10. \A i \in DOMAIN r : r[i] = rest[i]
    BY <1>6, <2>5, <2>6, <2>7, <2>8, <2>9
  <2>11. r = rest
    <3> HIDE DEF r
    <3> QED
      BY <2>4, <2>8, <2>9, <2>10, IsSeqEqual
  <2> QED
    BY <1>1, <2>2, <2>11 DEF BuildingOK, rest
<1>10. FailureOK'
  BY <1>1 DEF FailureOK
<1> QED
  BY <1>4, <1>5, <1>7, <1>8, <1>9, <1>10 DEF IInv

-----------------------------------------------------------------------------
(* The steps of the builder.                                               *)

LEMMA EnterGoalKeeps ==
  ASSUME IInv, EnterGoal, UNCHANGED <<resolverVars, requests, answer>>
  PROVE  IInv'
<1>1. goal # NoGoal /\ failure = "none" /\ stack = <<>> /\ ~IsCached(goal)
  BY DEF EnterGoal, Working
<1>2. goal.method \in Methods /\ goal = Node(goal.method, goal.name)
  BY <1>1 DEF IInv, AskedOK
<1>3. Comes(goal)
  BY <1>1 DEF Comes
<1> DEFINE inUse == << <<>> >>
           lists == <<>>
<1>4. Given(inUse, lists, goal)
  <2>1. Running = <<>>
    <3>1. Len(Running) = 0 /\ IsSeq(Running)
      BY <1>1, RunningIsASeq, IsSeqEmpty
    <3> QED
      BY <3>1, IsSeqBasics
  <2>2. inUse = Append(lists, <<>>) /\ DOMAIN lists = {}
    OBVIOUS
  <2>3. ListsOK(lists) /\ Concat(lists) = <<>>
    BY NothingIsBuilt
  <2> HIDE DEF inUse, lists
  <2> QED
    BY <2>1, <2>2, <2>3 DEF Given
<1>5. Enter(goal, inUse)
  BY DEF EnterGoal
<1> HIDE DEF inUse, lists
<1> QED
  BY <1>1, <1>2, <1>3, <1>4, <1>5, EnterKeeps

LEMMA EnterPartKeeps ==
  ASSUME IInv, EnterPart, UNCHANGED <<resolverVars, requests, answer>>
  PROVE  IInv'
<1> DEFINE node == Callee(Part1)
<1>1. /\ goal # NoGoal /\ failure = "none" /\ stack # <<>> /\ Top.todo # <<>>
      /\ Part1.kind # "itself" /\ ~IsCached(node) /\ Enter(node, Passed)
  BY DEF EnterPart, Working
<1>2. node = Node(node.method, node.name) /\ node.method = Part1.method
  BY DEF Callee, Node
<1>3. FrameOK(Top)
  BY <1>1, IsSeqLast DEF IInv, ChainOK, FramesOK, Top
<1>4. Awaits(Top, node)
  BY <1>1 DEF Awaits, Part1
<1>5. Part1 \in PartsOf(Top.node)
  BY <1>3, <1>4, AwaitedIsParent DEF Part1
<1>6. Leads(Top.node)
  BY <1>3, DeclaredNodes, PartsLead DEF FrameOK, IInv, ProgramOK
<1>7. /\ Part1.method \in Methods
      /\ Part1.method = "singleton_ancestors" => Top.node.method = "singleton_ancestors"
  BY <1>5, <1>6 DEF Leads
<1> HIDE DEF node
<1>8. Given(Passed, building, node)
  <2> DEFINE list == building[Len(building)]
  <2>1. /\ building # <<>> /\ ListOK(list) /\ Len(list) \in DOMAIN list /\ list[Len(list)] = Top.node
    BY <1>1, TopIsLast DEF IInv, ChainOK
  <2>2. ASSUME Part1.method = "singleton_ancestors"
        PROVE  \A i \in DOMAIN building : IsAlone(building[i])
    <3>1. IsAlone(list)
      BY <1>7, <2>1, <2>2 DEF ListOK, IsAlone
    <3> QED
      BY <3>1 DEF IInv, BuildingOK, ListsOK
  <2> QED
    BY <1>2, <2>1, <2>2 DEF Given, Passed, IInv, BuildingOK
<1>9. Comes(node)
  BY <1>1, <1>4 DEF Comes
<1> QED
  BY <1>1, <1>2, <1>7, <1>8, <1>9, EnterKeeps

LEMMA BuilderKeeps ==
  ASSUME IInv, BuilderNext, UNCHANGED <<resolverVars, requests, answer>>
  PROVE  IInv'
  BY EnterGoalKeeps, EnterPartKeeps, TakePartKeeps, ReturnKeeps DEF BuilderNext

-----------------------------------------------------------------------------
(* The steps of those who call it.                                         *)

LEMMA AskKeeps ==
  ASSUME IInv, NEW node, AskBuilder(node), UNCHANGED resolverVars,
         requests # <<>>, node.method \in Methods, node = Node(node.method, node.name),
         \/ Request.op \in Methods /\ node = Node(Request.op, Request.name)
         \/ /\ Request.op = "constants" /\ Request.context \notin DOMAIN context_constants_cache
            /\ LastModule(Request.context) # NoModule => HasEntry(LastModule(Request.context))
         \/ /\ Request.op = "children" /\ Normalized(Request.name) \notin DOMAIN child_constants_cache
            /\ HasEntry(Request.name)
  PROVE  IInv'
<1>1. /\ goal = NoGoal /\ goal' = node /\ program' = program /\ caches' = caches
      /\ stack' = stack /\ building' = building /\ failure' = failure /\ requests' = requests /\ answer' = answer
      /\ children' = children
      /\ context_constants_cache' = context_constants_cache /\ child_constants_cache' = child_constants_cache
  BY DEF AskBuilder, resolverVars
<1>2. stack = <<>> /\ failure = "none"
  BY <1>1 DEF IInv, FailureOK
<1>3. node # NoGoal
  BY DEF NoGoal, Node, Methods
<1>4. /\ ProgramOK' /\ TablesOK' /\ AnswersOK' /\ AnswerOK'
  BY <1>1, ProgramStays, AnswersStay, AnswerStays DEF IInv
<1>5. FramesOK' /\ ChainOK' /\ Running' = <<>>
  BY <1>1, <1>2, NothingRuns
<1>6. BuildingOK'
  <2>1. Running' = Running
    BY <1>1 DEF Running
  <2> QED
    BY <1>1, <2>1 DEF IInv, BuildingOK
<1>7. AskedOK'
  <2>1. \A name : HasEntry(name)' <=> HasEntry(name)
    BY <1>1, SameLookups DEF HasEntry
  <2> QED
    BY <1>1, <2>1, SameLookups DEF AskedOK, Request
<1>8. FailureOK'
  BY <1>1, <1>2, <1>3 DEF FailureOK
<1> QED
  BY <1>4, <1>5, <1>6, <1>7, <1>8 DEF IInv

LEMMA FinishKeeps ==
  ASSUME IInv, NEW result, Finish(result), stack = <<>>, DOMAIN children' = DOMAIN children,
         Request.op \in Methods => Judged(Node(Request.op, Request.name), result)
  PROVE  IInv'
<1>1. /\ answer' = [request |-> Request, result |-> result]
      /\ goal' = NoGoal /\ failure' = "none"
      /\ program' = program /\ caches' = caches /\ stack' = stack /\ building' = building
  BY DEF Finish
<1>2. ProgramOK' /\ TablesOK' /\ AnswersOK'
  BY <1>1, ProgramStays, AnswersStay DEF IInv
<1>3. FramesOK' /\ ChainOK'
  BY <1>1, NothingRuns
<1>4. BuildingOK'
  <2>1. Running' = Running
    BY <1>1 DEF Running
  <2> QED
    BY <1>1, <2>1 DEF IInv, BuildingOK
<1>5. AskedOK' /\ FailureOK'
  BY <1>1 DEF AskedOK, FailureOK
<1>6. AnswerOK'
  <2>1. PICK node : node = Node(Request.op, Request.name)
    OBVIOUS
  <2>2. answer'.request = Request /\ answer'.result = result /\ Node0' = node
    BY <1>1, <2>1 DEF Node0
  <2>3. \A r : Judged(node, r)' <=> Judged(node, r)
    BY <1>1, SameJudgement
  <2>4. Request.op \in Methods => Judged(node, result)'
    BY <2>1, <2>3
  <2> SUFFICES ASSUME Request.op \in Methods
               PROVE  Judged(Node0, answer.result)'
    BY <2>2 DEF AnswerOK
  <2> QED
    BY <2>2, <2>4
<1> QED
  BY <1>2, <1>3, <1>4, <1>5, <1>6 DEF IInv

\* Nothing is above what has an answer but what has one.
LEMMA AnswerIsRight ==
  ASSUME IInv, NEW node \in Answered, NEW value
  PROVE  Judged(node, Answer(value))
<1>1. Above({node}) \subseteq Answered
  BY AboveStaysIn DEF IInv, AnswersOK
<1>2. ~HasFault(Above({node})) /\ ~HasCycle(Above({node}))
  BY <1>1 DEF IInv, AnswersOK, HasFault, HasCycle, Cyclic
<1>3. \A nodes, result : result.is = "value" /\ ~HasFault(nodes) /\ ~HasCycle(nodes) => IsRight(nodes, result)
  BY DEF IsRight, IsRightFor, HasCycle, Raised
<1>4. Answer(value).is = "value"
  BY DEF Answer
<1> QED
  BY <1>2, <1>3, <1>4 DEF Judged

\* What the builder works for
LEMMA WorksFor ==
  ASSUME IInv
  PROVE  /\ goal # NoGoal /\ Request.op \in Methods => goal = Node(Request.op, Request.name)
         /\ goal # NoGoal /\ Request.op = "constants" =>
               /\ Request.context \notin DOMAIN context_constants_cache
               /\ LastModule(Request.context) # NoModule => HasEntry(LastModule(Request.context))
         /\ goal # NoGoal /\ Request.op = "children" =>
               Normalized(Request.name) \notin DOMAIN child_constants_cache /\ HasEntry(Request.name)
         /\ goal # NoGoal => Request.op \in Methods \cup {"constants", "children"}
         /\ goal = NoGoal => stack = <<>>
  BY DEF IInv, AskedOK, FailureOK, Methods

LEMMA AncestorsKeep ==
  ASSUME IInv, AskAncestors \/ AnswerAncestors \/ Reraise
  PROVE  IInv'
<1>1. CASE AskAncestors
  <2> DEFINE node == Node(Request.op, Request.name)
  <2>1. /\ requests # <<>> /\ Request.op \in Methods /\ AskBuilder(node) /\ UNCHANGED resolverVars
    BY <1>1 DEF AskAncestors
  <2>2. node.method \in Methods /\ node = Node(node.method, node.name)
    BY <2>1 DEF Node
  <2> QED
    BY <2>1, <2>2, AskKeeps
<1>2. CASE AnswerAncestors
  <2>1. /\ Request.op \in Methods /\ goal # NoGoal /\ stack = <<>> /\ IsCached(goal)
        /\ Finish(Answer(Cached(goal))) /\ children' = children
    BY <1>2 DEF AnswerAncestors, HasReturned, resolverVars
  <2>2. goal.method \in Methods /\ goal = Node(goal.method, goal.name) /\ goal = Node(Request.op, Request.name)
    BY <2>1, WorksFor DEF IInv, AskedOK
  <2>3. goal \in Answered
    BY <2>1, <2>2, AnsweredIsCached DEF IInv
  <2>4. Judged(goal, Answer(Cached(goal)))
    BY <2>3, AnswerIsRight
  <2> QED
    BY <2>1, <2>2, <2>4, FinishKeeps
<1>3. CASE Reraise
  <2>1. failure # "none" /\ Finish(Raised(failure)) /\ children' = children
    BY <1>3 DEF Reraise, HasRaised, resolverVars
  <2>2. goal # NoGoal /\ stack = <<>> /\ Judged(goal, Raised(failure))
    BY <2>1 DEF IInv, FailureOK
  <2> QED
    BY <2>1, <2>2, WorksFor, FinishKeeps
<1> QED
  BY <1>1, <1>2, <1>3

LEMMA InstanceIsNode == \A name : /\ InstanceOf(name).method \in Methods
                                  /\ InstanceOf(name) = Node(InstanceOf(name).method, InstanceOf(name).name)
  BY DEF InstanceOf, Node, Methods

\* An answer to another question
LEMMA OthersFinish ==
  ASSUME IInv, NEW result, Finish(result), stack = <<>>, DOMAIN children' = DOMAIN children, Request.op \notin Methods
  PROVE  IInv'
  BY FinishKeeps

LEMMA ConstantsKeep ==
  ASSUME IInv, RecallConstants \/ RaiseConstants \/ AskConstants \/ LoadContextConstants
  PROVE  IInv'
<1>1. requests # <<>> /\ Request.op = "constants" /\ Request.op \notin Methods
  BY DEF RecallConstants, RaiseConstants, AskConstants, LoadContextConstants, IsAsked, Methods
<1>2. CASE RecallConstants
  <2>1. stack = <<>>
    BY <1>1, <1>2, WorksFor DEF RecallConstants
  <2>2. children' = children /\ \E result : Finish(result)
    BY <1>2 DEF RecallConstants, resolverVars
  <2> QED
    BY <1>1, <2>1, <2>2, OthersFinish
<1>3. CASE RaiseConstants
  <2>1. stack = <<>>
    BY <1>1, <1>3, WorksFor DEF RaiseConstants
  <2>2. children' = children /\ \E result : Finish(result)
    BY <1>3 DEF RaiseConstants, resolverVars
  <2> QED
    BY <1>1, <2>1, <2>2, OthersFinish
<1>4. CASE AskConstants
  <2>1. /\ Request.context \notin DOMAIN context_constants_cache
        /\ LastModule(Request.context) # NoModule => HasEntry(LastModule(Request.context))
        /\ AskBuilder(InstanceOf(ScopeOf(Request.context))) /\ UNCHANGED resolverVars
    BY <1>4 DEF AskConstants
  <2> QED
    BY <1>1, <2>1, InstanceIsNode, AskKeeps
<1>5. CASE LoadContextConstants
  <2>1. stack = <<>> /\ children' = WithToplevel(ScopeOf(Request.context))
    BY <1>5 DEF LoadContextConstants, HasReturned
  <2>2. DOMAIN children' = DOMAIN children
    BY <2>1 DEF WithToplevel
  <2>3. \E result : Finish(result)
    BY <1>5 DEF LoadContextConstants
  <2> QED
    BY <1>1, <2>1, <2>2, <2>3, OthersFinish
<1> QED
  BY <1>2, <1>3, <1>4, <1>5

LEMMA ChildrenKeep ==
  ASSUME IInv, RecallChildren \/ AskChildren \/ LoadChildConstants
  PROVE  IInv'
<1>1. requests # <<>> /\ Request.op = "children" /\ Request.op \notin Methods
  BY DEF RecallChildren, AskChildren, LoadChildConstants, IsAsked, Methods
<1>2. CASE RecallChildren
  <2>1. stack = <<>>
    BY <1>1, <1>2, WorksFor DEF RecallChildren
  <2>2. children' = children /\ \E result : Finish(result)
    BY <1>2 DEF RecallChildren, resolverVars
  <2> QED
    BY <1>1, <2>1, <2>2, OthersFinish
<1>3. CASE AskChildren
  <2>1. /\ Normalized(Request.name) \notin DOMAIN child_constants_cache /\ HasEntry(Request.name)
        /\ AskBuilder(InstanceOf(Normalized(Request.name))) /\ UNCHANGED resolverVars
    BY <1>3 DEF AskChildren
  <2> QED
    BY <1>1, <2>1, InstanceIsNode, AskKeeps
<1>4. CASE LoadChildConstants
  <2>1. stack = <<>>
    BY <1>1, <1>4, WorksFor DEF LoadChildConstants, HasReturned
  <2>2. children' = children /\ \E result : Finish(result)
    BY <1>4 DEF LoadChildConstants
  <2> QED
    BY <1>1, <2>1, <2>2, OthersFinish
<1> QED
  BY <1>2, <1>3, <1>4

LEMMA AliasesKeep ==
  ASSUME IInv, AnswerCircular \/ AnswerRegular
  PROVE  IInv'
<1>1. requests # <<>> /\ Request.op \in {"circular", "regular"} /\ Request.op \notin Methods
  BY DEF AnswerCircular, AnswerRegular, IsAsked, Methods
<1>2. stack = <<>>
  BY <1>1, WorksFor
<1>3. children' = children /\ \E result : Finish(result)
  BY DEF AnswerCircular, AnswerRegular, resolverVars
<1> QED
  BY <1>1, <1>2, <1>3, OthersFinish

LEMMA RestKeeps ==
  ASSUME IInv, UNCHANGED vars
  PROVE  IInv'
<1>1. /\ program' = program /\ caches' = caches /\ stack' = stack /\ building' = building
      /\ goal' = goal /\ failure' = failure /\ requests' = requests /\ answer' = answer /\ children' = children
      /\ context_constants_cache' = context_constants_cache /\ child_constants_cache' = child_constants_cache
  BY DEF vars, builderVars, resolverVars
<1>2. /\ ProgramOK' /\ TablesOK' /\ AnswersOK' /\ AskedOK' /\ AnswerOK'
      /\ \A f : FrameOK(f)' <=> FrameOK(f)
  BY <1>1, ProgramStays, AnswersStay, AskedStays, AnswerStays DEF IInv
<1>3. FramesOK' /\ ChainOK'
  BY <1>1, <1>2 DEF IInv, FramesOK, ChainOK
<1>4. BuildingOK'
  BY <1>1 DEF IInv, BuildingOK, Running
<1>5. FailureOK'
  BY <1>1, SameJudgement DEF IInv, FailureOK
<1> QED
  BY <1>2, <1>3, <1>4, <1>5 DEF IInv

-----------------------------------------------------------------------------
(* The theorems.                                                           *)

LEMMA InitIsRight == Init => IInv
<1> SUFFICES ASSUME Init
             PROVE  IInv
  OBVIOUS
<1>1. /\ program \in {case.program : case \in Cases}
      /\ caches = [m \in Methods |-> <<>>] /\ children = NewChildren
      /\ stack = <<>> /\ building = <<>> /\ goal = NoGoal /\ failure = "none" /\ answer = None
  BY DEF Init, ResolverInit, BuilderInit
<1>2. ProgramOK
  BY <1>1, CasesAssumption DEF ProgramOK
<1>3. DOMAIN caches = Methods /\ \A m \in Methods : DOMAIN caches[m] = {}
  BY <1>1, IsSeqEmpty
<1>4. TablesOK
  BY <1>1, <1>3 DEF TablesOK, NewChildren
<1>5. Answered = {}
  BY <1>3, DeclaredNodes DEF Answered, IsCached
<1>6. AnswersOK
  BY <1>5 DEF AnswersOK
<1>7. IsSeq(stack) /\ Len(stack) = 0 /\ DOMAIN stack = {}
  BY <1>1, IsSeqEmpty
<1>8. FramesOK /\ ChainOK
  BY <1>1, <1>7, StackAssumption DEF FramesOK, ChainOK
<1>9. BuildingOK
  <2>1. IsSeq(Running) /\ Len(Running) = 0
    BY <1>7, RunningIsASeq
  <2>2. Running = <<>>
    BY <2>1, IsSeqEmpty
  <2> QED
    BY <1>1, <2>2, NothingIsBuilt DEF BuildingOK
<1>10. AskedOK /\ FailureOK /\ AnswerOK
  BY <1>1 DEF AskedOK, FailureOK, AnswerOK
<1> QED
  BY <1>2, <1>4, <1>6, <1>8, <1>9, <1>10 DEF IInv

LEMMA NextKeeps == IInv /\ [Next]_vars => IInv'
<1> SUFFICES ASSUME IInv, [Next]_vars
             PROVE  IInv'
  OBVIOUS
<1>1. CASE UNCHANGED vars
  BY <1>1, RestKeeps
<1>2. CASE BuilderNext /\ UNCHANGED <<resolverVars, requests, answer>>
  BY <1>2, BuilderKeeps
<1>3. CASE AskAncestors \/ AnswerAncestors \/ Reraise
  BY <1>3, AncestorsKeep
<1>4. CASE RecallConstants \/ RaiseConstants \/ AskConstants \/ LoadContextConstants
  BY <1>4, ConstantsKeep
<1>5. CASE RecallChildren \/ AskChildren \/ LoadChildConstants
  BY <1>5, ChildrenKeep
<1>6. CASE AnswerCircular \/ AnswerRegular
  BY <1>6, AliasesKeep
<1>7. CASE Rest
  BY <1>7, RestKeeps DEF Rest
<1> QED
  BY <1>1, <1>2, <1>3, <1>4, <1>5, <1>6, <1>7 DEF Next, ResolverNext

\* What holds of the builder in every state: what it keeps is sound, as is all that it was made
\* of; what it is doing is a way up from what it was asked for, and is what its lists have; and
\* what it raised or answered is what there is above what it was asked for.
THEOREM Invariance == Spec => []IInv
<1>1. Init => IInv
  BY InitIsRight
<1>2. IInv /\ [Next]_vars => IInv'
  BY NextKeeps
<1> QED
  BY <1>1, <1>2, PTL DEF Spec

\* The lists of what is being built (building_ancestors, ancestor_builder.rb) are, one after
\* the other, the running calls, whatever was raised before; no list has a node twice; and an
\* answer is kept for nothing but what is declared and sound.
THEOREM TypeOKAlways == Spec => []TypeOK
<1>1. IInv => TypeOK
  <2> SUFFICES ASSUME IInv
               PROVE  TypeOK
    OBVIOUS
  <2>1. Len(stack) <= StackLimit /\ Concat(building) = [i \in DOMAIN stack |-> stack[i].node]
    BY DEF IInv, ChainOK, BuildingOK, Running
  <2>2. \A i \in DOMAIN building :
          /\ building[i] # <<>>
          /\ \A j, k \in DOMAIN building[i] : j # k => building[i][j] # building[i][k]
    BY DEF IInv, BuildingOK, ListsOK, ListOK
  <2>3. ASSUME NEW m \in Methods, NEW n \in DOMAIN caches[m]
        PROVE  IsSound(Node(m, n))
    <3>1. Node(m, n).method = m /\ Node(m, n).name = n
      BY DEF Node
    <3>2. Node(m, n) \in Answered
      BY <3>1 DEF IInv, TablesOK, Answered, IsCached
    <3> QED
      BY <3>2 DEF IInv, AnswersOK
  <2> QED
    BY <2>1, <2>2, <2>3 DEF IInv, TablesOK, TypeOK
<1> QED
  BY <1>1, Invariance, PTL

\* An ancestor builder that is asked for ancestors, any number of times and in any order, of
\* any environment, answers when there is neither a cycle nor a fault above what it is asked for;
\* raises RecursiveAncestorError when nodes other than singletons are in a cycle, runs out of
\* stack when singletons are, and raises another error only when there is a fault; and keeps
\* nothing of a call that raised that would make a later one answer otherwise
\* (instance_ancestors, singleton_ancestors, interface_ancestors).
THEOREM CyclesAreRefusedAlways == Spec => []CyclesAreRefused
<1>1. IInv => CyclesAreRefused
  BY DEF IInv, AnswerOK, IsAncestors, Judged, CyclesAreRefused
<1> QED
  BY <1>1, Invariance, PTL

-----------------------------------------------------------------------------
(* The order of paths.                                                     *)

\* The place a path takes at a step; behind its end, 0.
PlaceAt(path, i) == IF i \in DOMAIN path.places THEN path.places[i] ELSE 0
IsPath(path) ==
  /\ IsSeq(path.places) /\ \A i \in DOMAIN path.places : path.places[i] \in Int /\ path.places[i] # 0
  /\ DOMAIN path.ancestor = {"node", "args", "source"}

\* Where they part, the first one takes the smaller place.
Ahead(p, q) ==
  \E i \in Nat \ {0} : PlaceAt(p, i) < PlaceAt(q, i) /\ \A j \in 1..(i - 1) : PlaceAt(p, j) = PlaceAt(q, j)

\* Paths, each of them ahead of those behind it.
IsOrder(s) ==
  /\ IsSeq(s) /\ \A i \in DOMAIN s : IsPath(s[i])
  /\ \A i, j \in DOMAIN s : i < j => Ahead(s[i], s[j])
AncestorsOf(s) == [i \in DOMAIN s |-> s[i].ancestor]

LEMMA PlacesAreIntegers ==
  ASSUME NEW p, IsPath(p)
  PROVE  \A i \in Nat \ {0} : PlaceAt(p, i) \in Int /\ (PlaceAt(p, i) # 0 <=> i \in 1..Len(p.places))
<1>1. DOMAIN p.places = 1..Len(p.places)
  BY IsSeqBasics DEF IsPath
<1> QED
  BY <1>1 DEF IsPath, PlaceAt

LEMMA AheadIsBefore ==
  ASSUME NEW p, NEW q, IsPath(p), IsPath(q), Ahead(p, q)
  PROVE  Before(p, q) /\ ~Before(q, p) /\ p # q
<1> DEFINE k == Len(p.places)
           l == Len(q.places)
           D == {j \in 1..(k + l) : PlaceAt(p, j) # PlaceAt(q, j)}
           E == {j \in 1..(l + k) : PlaceAt(q, j) # PlaceAt(p, j)}
<1>1. k \in Nat /\ l \in Nat
  BY IsSeqBasics DEF IsPath
<1>2. PICK i \in Nat \ {0} : PlaceAt(p, i) < PlaceAt(q, i) /\ \A j \in 1..(i - 1) : PlaceAt(p, j) = PlaceAt(q, j)
  BY DEF Ahead
<1>3. /\ PlaceAt(p, i) \in Int /\ (PlaceAt(p, i) # 0 <=> i \in 1..k)
      /\ PlaceAt(q, i) \in Int /\ (PlaceAt(q, i) # 0 <=> i \in 1..l)
  BY PlacesAreIntegers
<1> HIDE DEF k, l
<1>4. E = D
  <2>1. k + l = l + k
    BY <1>1
  <2> QED
    BY <2>1
<1>5. i \in D /\ \A j \in D : i <= j
  <2>1. PlaceAt(p, i) # PlaceAt(q, i)
    BY <1>2, <1>3
  <2>2. i \in 1..k \/ i \in 1..l
    BY <1>3, <2>1
  <2>3. i \in 1..(k + l)
    BY <1>1, <2>2
  <2>4. ASSUME NEW j \in D PROVE i <= j
    <3>1. j \in Nat /\ j >= 1 /\ PlaceAt(p, j) # PlaceAt(q, j)
      BY <1>1
    <3>2. j \notin 1..(i - 1)
      BY <1>2, <3>1
    <3> QED
      BY <3>1, <3>2
  <2> QED
    BY <2>1, <2>3, <2>4
<1>6. D \subseteq Nat
  BY <1>1
<1> HIDE DEF D
<1>7. Min(D) = i
  <2>1. \A x \in D : (\A y \in D : x <= y) => x = i
    BY <1>5, <1>6
  <2> QED
    BY <1>5, <2>1 DEF Min
<1>8. Before(p, q) <=> PlaceAt(p, Min(D)) < PlaceAt(q, Min(D))
  BY DEF Before, PlaceAt, D, k, l
<1>9. Before(q, p) <=> PlaceAt(q, Min(E)) < PlaceAt(p, Min(E))
  BY DEF Before, PlaceAt, E, k, l
<1> QED
  BY <1>2, <1>3, <1>4, <1>7, <1>8, <1>9

\* A path that begins with a step, and goes on.
GoesOn(p, a, q) == a \in Int /\ IsSeq(q.places) /\ p.places = <<a>> \o q.places

LEMMA PlacesBehind ==
  ASSUME NEW p, NEW q, NEW a, GoesOn(p, a, q)
  PROVE  /\ IsSeq(p.places) /\ PlaceAt(p, 1) = a
         /\ \A i \in Nat \ {0} : PlaceAt(p, i + 1) = PlaceAt(q, i)
<1> DEFINE one == <<a>>
           s == q.places
           t == one \o s
<1>0. a \in Int /\ IsSeq(q.places) /\ p.places = <<a>> \o q.places
  BY DEF GoesOn
<1>1. IsSeq(one) /\ Len(one) = 1 /\ DOMAIN one = {1} /\ one[1] = a
  BY ValuesOfOne
<1>2. IsJoin(t, one, s) /\ Len(s) \in Nat /\ DOMAIN s = 1..Len(s)
  BY <1>0, <1>1, IsSeqJoin, IsSeqBasics
<1>3. p.places = t
  BY <1>0
<1> HIDE DEF one, s, t
<1>4. /\ IsSeq(t) /\ DOMAIN t = 1..(1 + Len(s))
      /\ t[1] = a /\ \A i \in 1..Len(s) : t[1 + i] = s[i]
  BY <1>1, <1>2 DEF IsJoin
<1>5. PlaceAt(p, 1) = a
  BY <1>2, <1>3, <1>4 DEF PlaceAt
<1>6. ASSUME NEW i \in Nat \ {0}
      PROVE  PlaceAt(p, i + 1) = PlaceAt(q, i)
  <2>1. (i + 1 \in DOMAIN t <=> i \in DOMAIN s) /\ i + 1 = 1 + i
    BY <1>2, <1>4
  <2>2. i \in DOMAIN s => t[i + 1] = s[i]
    BY <1>2, <1>4, <2>1
  <2> QED
    BY <1>3, <2>1, <2>2 DEF PlaceAt, s
<1> QED
  BY <1>3, <1>4, <1>5, <1>6

LEMMA BehindIsOrdered ==
  ASSUME NEW p, NEW q, NEW r, NEW s, NEW a, GoesOn(p, a, q), GoesOn(r, a, s), Ahead(q, s)
  PROVE  Ahead(p, r)
<1>1. PICK i \in Nat \ {0} : PlaceAt(q, i) < PlaceAt(s, i) /\ \A j \in 1..(i - 1) : PlaceAt(q, j) = PlaceAt(s, j)
  BY DEF Ahead
<1>2. GoesOn(p, a, q) /\ GoesOn(r, a, s)
  OBVIOUS
<1>3. PlaceAt(p, 1) = a /\ \A j \in Nat \ {0} : PlaceAt(p, j + 1) = PlaceAt(q, j)
  BY ONLY <1>2, PlacesBehind
<1>4. PlaceAt(r, 1) = a /\ \A j \in Nat \ {0} : PlaceAt(r, j + 1) = PlaceAt(s, j)
  BY ONLY <1>2, PlacesBehind
<1>5. PlaceAt(p, i + 1) < PlaceAt(r, i + 1)
  BY <1>1, <1>3, <1>4
<1>6. ASSUME NEW j \in 1..i
      PROVE  PlaceAt(p, j) = PlaceAt(r, j)
  <2>1. CASE j = 1
    BY <1>3, <1>4, <2>1
  <2>2. CASE j # 1
    <3>1. j - 1 \in Nat \ {0} /\ j - 1 \in 1..(i - 1) /\ (j - 1) + 1 = j
      BY <1>6, <2>2
    <3> QED
      BY <1>1, <1>3, <1>4, <3>1
  <2> QED
    BY <2>1, <2>2
<1>7. i + 1 \in Nat \ {0} /\ (i + 1) - 1 = i
  OBVIOUS
<1> QED
  BY <1>5, <1>6, <1>7 DEF Ahead

\* Paths that part at the first step.
LEMMA PartsAtOnce ==
  ASSUME NEW p, NEW q, PlaceAt(p, 1) < PlaceAt(q, 1)
  PROVE  Ahead(p, q)
<1>1. 1 \in Nat \ {0} /\ 1..(1 - 1) = {}
  OBVIOUS
<1> QED
  BY <1>1 DEF Ahead

\* As many as there are.
LEMMA FirstOfOrder ==
  ASSUME NEW s, IsSeq(s), \A i, j \in DOMAIN s : i < j => s[i] # s[j]
  PROVE  \A m \in 0..Len(s) : IsFiniteSet({s[i] : i \in 1..m}) /\ Cardinality({s[i] : i \in 1..m}) = m
<1> DEFINE First(m) == {s[i] : i \in 1..m}
           P == {m \in Nat : m <= Len(s) => IsFiniteSet(First(m)) /\ Cardinality(First(m)) = m}
<1>1. Len(s) \in Nat /\ DOMAIN s = 1..Len(s)
  BY IsSeqBasics
<1>2. 0 \in P
  <2>1. First(0) = {}
    OBVIOUS
  <2> QED
    BY <2>1, FS_EmptySet
<1>3. ASSUME NEW m \in Nat, m \in P
      PROVE  m + 1 \in P
  <2> SUFFICES ASSUME m + 1 <= Len(s)
               PROVE  IsFiniteSet(First(m + 1)) /\ Cardinality(First(m + 1)) = m + 1
    OBVIOUS
  <2>1. First(m + 1) = First(m) \cup {s[m + 1]}
    <3>1. 1..(m + 1) = (1..m) \cup {m + 1}
      OBVIOUS
    <3> QED
      BY <3>1
  <2>2. s[m + 1] \notin First(m)
    <3>1. m + 1 \in DOMAIN s /\ \A i \in 1..m : i \in DOMAIN s /\ i < m + 1
      BY <1>1
    <3> QED
      BY <3>1
  <2>3. IsFiniteSet(First(m)) /\ Cardinality(First(m)) = m
    BY <1>1, <1>3
  <2> HIDE DEF First
  <2> QED
    BY <2>1, <2>2, <2>3, FS_AddElement
<1> HIDE DEF P
<1>4. \A m \in Nat : m \in P
  BY <1>2, <1>3, SetInduction
<1> QED
  BY <1>1, <1>4 DEF P

\* Sorting puts paths in order.
LEMMA SortedIsOrder ==
  ASSUME NEW s, IsOrder(s)
  PROVE  Sorted(Values(s)) = AncestorsOf(s)
<1> DEFINE P == Values(s)
           n == Len(s)
           Lower(p) == {q \in P : q # p /\ Before(q, p)}
           Rank(p) == Cardinality(Lower(p)) + 1
<1>1. n \in Nat /\ DOMAIN s = 1..n /\ IsSeq(s)
  BY IsSeqBasics DEF IsOrder
<1>2. \A i, j \in DOMAIN s : i < j => Before(s[i], s[j]) /\ ~Before(s[j], s[i]) /\ s[i] # s[j]
  BY AheadIsBefore DEF IsOrder
<1>3. \A m \in 0..n : Cardinality({s[i] : i \in 1..m}) = m
  <2>1. IsSeq(s) /\ \A i, j \in DOMAIN s : i < j => s[i] # s[j]
    BY <1>1, <1>2
  <2>2. \A m \in 0..Len(s) : IsFiniteSet({s[i] : i \in 1..m}) /\ Cardinality({s[i] : i \in 1..m}) = m
    BY ONLY <2>1, FirstOfOrder
  <2> QED
    BY <2>2
<1>4. P = {s[i] : i \in 1..n}
  BY <1>1 DEF Values
<1> HIDE DEF n, P
<1>5. ASSUME NEW k \in 1..n
      PROVE  Rank(s[k]) = k
  <2>1. \A i \in 1..n : i < k \/ i = k \/ k < i
    BY <1>1
  <2>2. \A i \in 1..n : s[i] \in Lower(s[k]) <=> i < k
    <3>1. ASSUME NEW i \in 1..n, i < k PROVE s[i] \in Lower(s[k])
      BY <1>1, <1>2, <1>4, <3>1
    <3>2. ASSUME NEW i \in 1..n, ~(i < k) PROVE s[i] \notin Lower(s[k])
      BY <1>1, <1>2, <1>4, <2>1, <3>2
    <3> QED
      BY <3>1, <3>2
  <2>3. \A i \in 1..(k - 1) : i \in 1..n /\ i < k
    BY <1>1
  <2>4. \A i \in 1..n : i < k => i \in 1..(k - 1)
    BY <1>1
  <2>5. Lower(s[k]) = {s[i] : i \in 1..(k - 1)}
    <3>1. Lower(s[k]) \subseteq P
      OBVIOUS
    <3> HIDE DEF Lower
    <3> QED
      BY <1>4, <2>2, <2>3, <2>4, <3>1
  <2>6. k - 1 \in 0..n /\ (k - 1) + 1 = k
    BY <1>1
  <2> HIDE DEF Lower
  <2> QED
    BY <1>3, <2>5, <2>6
<1>6. Cardinality(P) = n
  BY <1>1, <1>3, <1>4
<1>7. Sorted(P) = [k \in 1..Cardinality(P) |-> (CHOOSE p \in P : Rank(p) = k).ancestor]
  BY DEF Sorted
<1> HIDE DEF Rank
<1>8. ASSUME NEW k \in 1..n
      PROVE  (CHOOSE p \in P : Rank(p) = k) = s[k]
  <2>1. s[k] \in P /\ Rank(s[k]) = k
    BY <1>4, <1>5
  <2>2. \A p \in P : Rank(p) = k => p = s[k]
    <3> SUFFICES ASSUME NEW i \in 1..n, Rank(s[i]) = k PROVE s[i] = s[k]
      BY <1>4
    <3> QED
      BY <1>5
  <2> QED
    BY <2>1, <2>2
<1> QED
  BY <1>1, <1>6, <1>7, <1>8 DEF AncestorsOf, P

-----------------------------------------------------------------------------
(* The order of parts.                                                     *)

\* Super classes and self types are first, then what is included, then the class itself,
\* then what is prepended.
PartKinds == {"self type", "super", "include", "extend", "itself", "prepend"}
Follows(p, q) ==
  /\ p.kind \in PartKinds /\ q.kind \in PartKinds
  /\ q.kind \in {"self type", "super"} => p.kind = "self type"
  /\ q.kind \in {"include", "extend", "itself"} => p.kind \notin {"itself", "prepend"}
InOrder(parts) ==
  /\ IsSeq(parts) /\ \A p \in Values(parts) : p.kind \in PartKinds
  /\ \A i, j \in DOMAIN parts : i < j => Follows(parts[i], parts[j])

LEMMA JoinInOrder ==
  ASSUME NEW s, NEW t, InOrder(s), InOrder(t), \A p \in Values(s), q \in Values(t) : Follows(p, q)
  PROVE  InOrder(s \o t) /\ Values(s \o t) = Values(s) \cup Values(t)
<1> DEFINE r == s \o t
<1>1. IsSeq(s) /\ IsSeq(t)
  BY DEF InOrder
<1>2. IsJoin(r, s, t) /\ IsSeq(r) /\ Values(r) = Values(s) \cup Values(t)
  BY <1>1, IsSeqJoin, ValuesOfJoin
<1>3. /\ Len(s) \in Nat /\ DOMAIN s = 1..Len(s) /\ Len(t) \in Nat /\ DOMAIN t = 1..Len(t)
  BY <1>1, IsSeqBasics
<1> HIDE DEF r
<1>4. /\ DOMAIN r = 1..(Len(s) + Len(t))
      /\ \A i \in 1..Len(s) : r[i] = s[i]
      /\ \A i \in 1..Len(t) : r[Len(s) + i] = t[i]
  BY <1>2 DEF IsJoin
<1>5. ASSUME NEW i \in DOMAIN r, NEW j \in DOMAIN r, i < j
      PROVE  Follows(r[i], r[j])
  <2>1. CASE j \in 1..Len(s)
    <3>1. i \in 1..Len(s)
      BY <1>3, <1>4, <1>5, <2>1
    <3> QED
      BY <1>3, <1>4, <1>5, <2>1, <3>1 DEF InOrder
  <2>2. CASE i \notin 1..Len(s)
    <3>1. /\ i - Len(s) \in 1..Len(t) /\ j - Len(s) \in 1..Len(t) /\ i - Len(s) < j - Len(s)
          /\ Len(s) + (i - Len(s)) = i /\ Len(s) + (j - Len(s)) = j
      <4> DEFINE k == Len(s)
                 l == Len(t)
      <4>1. /\ k \in Nat /\ l \in Nat /\ i \in 1..(k + l) /\ j \in 1..(k + l) /\ i < j /\ i \notin 1..k
        BY <1>3, <1>4, <1>5, <2>2
      <4> HIDE DEF k, l
      <4>2. i - k \in 1..l /\ j - k \in 1..l /\ i - k < j - k /\ k + (i - k) = i /\ k + (j - k) = j
        BY ONLY <4>1
      <4> QED
        BY ONLY <4>2 DEF k, l
    <3>2. r[i] = t[i - Len(s)] /\ r[j] = t[j - Len(s)]
      BY <1>4, <3>1
    <3> QED
      BY <1>3, <3>1, <3>2 DEF InOrder
  <2>3. CASE i \in 1..Len(s) /\ j \notin 1..Len(s)
    <3>1. j - Len(s) \in 1..Len(t) /\ Len(s) + (j - Len(s)) = j
      BY <1>3, <1>4, <1>5, <2>3
    <3>2. r[i] = s[i] /\ r[j] = t[j - Len(s)]
      BY <1>4, <2>3, <3>1
    <3>3. r[i] \in Values(s) /\ r[j] \in Values(t)
      BY <1>3, <2>3, <3>1, <3>2 DEF Values
    <3> QED
      BY <3>3
  <2> QED
    BY <2>1, <2>2, <2>3
<1>6. \A p \in Values(r) : p.kind \in PartKinds
  BY <1>2 DEF InOrder
<1> QED
  BY <1>2, <1>5, <1>6 DEF InOrder, r

LEMMA OfOneKind ==
  ASSUME NEW s, IsSeq(s), NEW kind \in PartKinds \ {"super", "itself"}, \A p \in Values(s) : p.kind = kind
  PROVE  InOrder(s)
<1>1. \A i \in DOMAIN s : s[i].kind = kind
  BY DEF Values
<1>2. \A p, q : p.kind = kind /\ q.kind = kind => Follows(p, q)
  BY DEF Follows
<1>3. kind \in PartKinds
  OBVIOUS
<1> QED
  BY <1>1, <1>2, <1>3 DEF InOrder

LEMMA OneInOrder ==
  ASSUME NEW p, p.kind \in PartKinds
  PROVE  InOrder(<<p>>) /\ Values(<<p>>) = {p}
<1>1. IsSeq(<<p>>) /\ Values(<<p>>) = {p}
  BY ValuesOfOne
<1>2. DOMAIN <<p>> = {1}
  OBVIOUS
<1> QED
  BY <1>1, <1>2 DEF InOrder

LEMMA MixedInKind ==
  ASSUME NEW entry, NEW kind, IsDecls(entry.decls, kind), NEW of
  PROVE  IsSeq(MixedIn(entry, of)) /\ \A p \in Values(MixedIn(entry, of)) : p.kind = of
<1> DEFINE mixins == Mixins(entry, {of})
           some == Subsequence(mixins, {i \in DOMAIN mixins : ~IsInterface(mixins[i].name)})
           AlignedMixin(i, m) ==
             [kind |-> m.kind, name |-> m.name, language |-> entry.decls[i].language,
              args |-> IF entry.decls[i].language = "rbs" /\ m.kind # "extend"
                       THEN Aligned(m.args, entry.decls[i], entry) ELSE m.args]
           OfDecl(i) == [j \in DOMAIN entry.decls[i].mixins |-> AlignedMixin(i, entry.decls[i].mixins[j])]
           all == Concat([i \in DOMAIN entry.decls |-> OfDecl(i)])
<1>1. IsSeq(mixins) /\ IsSeq(MixedIn(entry, of))
  BY MixinsAreASeq, MixedInIsASeq
<1>2. \A m \in Values(mixins) : m.kind = of
  <2>1. mixins = Subsequence(all, {i \in DOMAIN all : all[i].kind \in {of}})
    BY DEF Mixins, OfKinds
  <2>2. IsSeq(all)
    <3> DEFINE seqs == [i \in DOMAIN entry.decls |-> OfDecl(i)]
    <3>1. IsSeq(seqs)
      BY MappedIsSeq DEF IsDecls
    <3>2. \A i \in DOMAIN seqs : IsSeq(seqs[i])
      <4> SUFFICES ASSUME NEW i \in DOMAIN entry.decls PROVE IsSeq(OfDecl(i))
        OBVIOUS
      <4>1. IsSeq(entry.decls[i].mixins)
        BY DEF IsDecls, Values
      <4> QED
        BY <4>1, MappedIsSeq
    <3> QED
      BY ONLY <3>1, <3>2, ValuesOfConcat
  <2> HIDE DEF all, mixins
  <2>3. Values(mixins) = {all[i] : i \in {j \in DOMAIN all : all[j].kind \in {of}} \cap DOMAIN all}
    BY <2>1, <2>2, ValuesOfSubsequence
  <2> QED
    BY <2>3
<1> HIDE DEF mixins
<1>3. IsSeq(some) /\ Values(some) \subseteq Values(mixins)
  <2>1. IsSeq(some) /\ Values(some) = {mixins[i] : i \in {j \in DOMAIN mixins : ~IsInterface(mixins[j].name)} \cap DOMAIN mixins}
    BY <1>1, ValuesOfSubsequence
  <2> HIDE DEF some
  <2> QED
    BY <2>1 DEF Values
<1>4. MixedIn(entry, of) = [i \in DOMAIN some |-> AsPart(some[i], Normalized(some[i].name))]
  BY DEF MixedIn, AsParts, Modules, mixins
<1> HIDE DEF some
<1>5. \A m, name : AsPart(m, name).kind = m.kind
  BY DEF AsPart, Part
<1>6. \A i \in DOMAIN some : some[i].kind = of
  BY <1>2, <1>3 DEF Values
<1> QED
  BY <1>1, <1>4, <1>5, <1>6 DEF Values

LEMMA ItselfInOrder == InOrder(<<Itself>>) /\ Values(<<Itself>>) = {Itself} /\ Itself.kind = "itself"
<1>1. Itself.kind \in PartKinds
  BY ItselfIsNoCall DEF PartKinds
<1> QED
  BY <1>1, OneInOrder, ItselfIsNoCall

LEMMA InstancePartsInOrder ==
  ASSUME IsEnvironment(program), NEW name \in ModuleNames
  PROVE  InOrder(OneInstanceAncestors(name)) /\ Itself \in Values(OneInstanceAncestors(name))
<1> DEFINE entry == program.class_decls[name]
           first == IF entry.kind = "module" THEN SelfTypesAsParts(entry)
                    ELSE IF name = BasicObject THEN <<>> ELSE <<SuperAsPart(entry)>>
           included == MixedIn(entry, "include")
           prepended == MixedIn(entry, "prepend")
<1>1. IsDecls(entry.decls, entry.kind)
  BY DEF IsEnvironment, ModuleNames, Range
<1>2. InOrder(first) /\ \A p \in Values(first) : p.kind \in {"self type", "super"}
  <2> DEFINE super == SuperAsPart(entry)
             self_types == SelfTypesAsParts(entry)
             followed == FollowedSelfTypes(entry)
  <2>1. super.kind = "super"
    BY DEF SuperAsPart, Part
  <2>2. InOrder(<<super>>) /\ Values(<<super>>) = {super}
    <3>1. super.kind \in PartKinds
      BY <2>1 DEF PartKinds
    <3> HIDE DEF super
    <3> QED
      BY <3>1, OneInOrder
  <2>3. IsSeq(self_types) /\ \A p \in Values(self_types) : p.kind = "self type"
    <3>1. IsSeq(self_types)
      BY <1>1, SelfTypesAreParts
    <3>2. self_types = [i \in DOMAIN followed |->
                          Part("self type", "instance_ancestors", Normalized(followed[i].name), followed[i].args, "rbs")]
      BY DEF SelfTypesAsParts
    <3> HIDE DEF self_types, followed
    <3>3. \A i \in DOMAIN self_types : self_types[i].kind = "self type"
      BY <3>2 DEF Part
    <3> QED
      BY <3>1, <3>3 DEF Values
  <2>4. InOrder(self_types)
    <3> HIDE DEF self_types
    <3> QED
      BY <2>3, OfOneKind DEF PartKinds
  <2>5. InOrder(<<>>) /\ Values(<<>>) = {}
    BY ValuesOfEmpty, IsSeqEmpty DEF InOrder
  <2> HIDE DEF super, self_types, entry
  <2> QED
    BY <2>1, <2>2, <2>3, <2>4, <2>5 DEF super, self_types
<1>3. /\ InOrder(included) /\ \A p \in Values(included) : p.kind = "include"
      /\ InOrder(prepended) /\ \A p \in Values(prepended) : p.kind = "prepend"
  BY <1>1, MixedInKind, OfOneKind DEF PartKinds
<1>4. InOrder(<<Itself>>) /\ Values(<<Itself>>) = {Itself} /\ Itself.kind = "itself"
  BY ItselfInOrder
<1>5. OneInstanceAncestors(name) = first \o included \o <<Itself>> \o prepended
  BY DEF OneInstanceAncestors
<1> DEFINE own == <<Itself>>
<1> HIDE DEF entry, first, included, prepended, own
<1>6. /\ \A p \in Values(first), q \in Values(included) : Follows(p, q)
      /\ \A p \in Values(first) \cup Values(included), q \in Values(own) : Follows(p, q)
      /\ \A p \in Values(first) \cup Values(included) \cup Values(own), q \in Values(prepended) : Follows(p, q)
  <2>1. Values(own) = {Itself} /\ \A p \in Values(own) : p.kind = "itself"
    BY <1>4 DEF own
  <2>2. /\ \A p \in Values(first) : p.kind = "self type" \/ p.kind = "super"
        /\ \A p \in Values(included) : p.kind = "include"
        /\ \A p \in Values(prepended) : p.kind = "prepend"
    BY <1>2, <1>3
  <2> QED
    BY ONLY <2>1, <2>2 DEF Follows, PartKinds
<1>7. InOrder(first \o included) /\ Values(first \o included) = Values(first) \cup Values(included)
  BY ONLY <1>2, <1>3, <1>6, JoinInOrder
<1>8. /\ InOrder(first \o included \o own)
      /\ Values(first \o included \o own) = Values(first) \cup Values(included) \cup Values(own)
  <2>1. InOrder(own)
    BY <1>4 DEF own
  <2> QED
    BY ONLY <1>6, <1>7, <2>1, JoinInOrder
<1>9. /\ InOrder(first \o included \o own \o prepended)
      /\ Values(first \o included \o own \o prepended) =
           Values(first) \cup Values(included) \cup Values(own) \cup Values(prepended)
  BY ONLY <1>3, <1>6, <1>8, JoinInOrder
<1>10. OneInstanceAncestors(name) = first \o included \o own \o prepended /\ Itself \in Values(own)
  BY <1>4, <1>5 DEF own
<1> QED
  BY ONLY <1>9, <1>10

LEMMA SingletonPartsInOrder ==
  ASSUME IsEnvironment(program), NEW name \in ModuleNames
  PROVE  InOrder(OneSingletonAncestors(name)) /\ Itself \in Values(OneSingletonAncestors(name))
<1> DEFINE entry == program.class_decls[name]
           extended == MixedIn(entry, "extend")
<1>1. InOrder(extended) /\ \A p \in Values(extended) : p.kind = "extend"
  <2>1. IsDecls(entry.decls, entry.kind)
    BY DEF IsEnvironment, ModuleNames, Range
  <2> QED
    BY <2>1, MixedInKind, OfOneKind DEF PartKinds
<1>2. PICK super : OneSingletonAncestors(name) = <<super>> \o extended \o <<Itself>> /\ super.kind = "super"
  <2> DEFINE super == CASE entry.kind = "module" -> Part("super", "instance_ancestors", Module, <<>>, "rbs")
                        [] name = BasicObject -> Part("super", "instance_ancestors", Class, <<>>, "rbs")
                        [] OTHER -> Part("super", "singleton_ancestors", Normalized(SuperOf(entry).name), <<>>, "rbs")
  <2>1. OneSingletonAncestors(name) = <<super>> \o extended \o <<Itself>>
    BY DEF OneSingletonAncestors
  <2>2. super.kind = "super"
    BY DEF Part
  <2> HIDE DEF super, extended
  <2> QED
    BY <2>1, <2>2
<1> DEFINE own == <<Itself>>
           first == <<super>>
<1>3. /\ InOrder(own) /\ Values(own) = {Itself} /\ Itself.kind = "itself"
      /\ InOrder(first) /\ Values(first) = {super}
  <2>1. super.kind \in PartKinds
    BY <1>2 DEF PartKinds
  <2> QED
    BY <2>1, OneInOrder, ItselfInOrder
<1>4. OneSingletonAncestors(name) = first \o extended \o own
  BY <1>2
<1> HIDE DEF extended, entry, own, first
<1>5. /\ \A p \in Values(first), q \in Values(extended) : Follows(p, q)
      /\ \A p \in Values(first) \cup Values(extended), q \in Values(own) : Follows(p, q)
  <2>1. /\ \A p \in Values(first) : p.kind = "super"
        /\ \A p \in Values(extended) : p.kind = "extend"
        /\ \A p \in Values(own) : p.kind = "itself"
    BY <1>1, <1>2, <1>3
  <2> QED
    BY ONLY <2>1 DEF Follows, PartKinds
<1>6. InOrder(first \o extended) /\ Values(first \o extended) = Values(first) \cup Values(extended)
  BY ONLY <1>1, <1>3, <1>5, JoinInOrder
<1>7. /\ InOrder(first \o extended \o own)
      /\ Values(first \o extended \o own) = Values(first) \cup Values(extended) \cup Values(own)
  BY ONLY <1>3, <1>5, <1>6, JoinInOrder
<1> QED
  BY <1>3, <1>4, <1>7

LEMMA InterfacePartsInOrder ==
  ASSUME IsEnvironment(program), NEW name \in InterfaceNames
  PROVE  InOrder(OneInterfaceAncestors(name)) /\ Itself \in Values(OneInterfaceAncestors(name))
<1> DEFINE included == IncludedInterfaces(name)
           AsInclude(m) == Part("include", "interface_ancestors", m.name, NormalizeArgs(ParamsOf(m.name), m.args), "rbs")
           parts == [i \in DOMAIN included |-> AsInclude(included[i])]
<1>1. OneInterfaceAncestors(name) = parts \o <<Itself>>
  BY DEF OneInterfaceAncestors
<1>2. IsSeq(included)
  BY InterfaceParts
<1>3. IsSeq(parts) /\ \A p \in Values(parts) : p.kind = "include"
  <2>1. \A m : AsInclude(m).kind = "include"
    BY DEF Part
  <2> HIDE DEF included, AsInclude
  <2>2. IsSeq(parts)
    BY <1>2, MappedIsSeq
  <2> QED
    BY <2>1, <2>2 DEF Values
<1> HIDE DEF parts
<1>4. InOrder(parts)
  BY <1>3, OfOneKind DEF PartKinds
<1> DEFINE own == <<Itself>>
<1>5. InOrder(own) /\ Values(own) = {Itself} /\ Itself.kind = "itself"
  BY ItselfInOrder
<1> HIDE DEF own
<1>6. \A p \in Values(parts), q \in Values(own) : Follows(p, q)
  <2>1. (\A p \in Values(parts) : p.kind = "include") /\ \A p \in Values(own) : p.kind = "itself"
    BY <1>3, <1>5
  <2> QED
    BY ONLY <2>1 DEF Follows, PartKinds
<1>7. InOrder(parts \o own) /\ Values(parts \o own) = Values(parts) \cup Values(own)
  BY ONLY <1>4, <1>5, <1>6, JoinInOrder
<1> QED
  BY <1>1, <1>5, <1>7 DEF own

LEMMA PartsInOrder ==
  ASSUME IsEnvironment(program), NEW node, node.method \in Methods, IsDeclared(node)
  PROVE  InOrder(OneAncestors(node)) /\ Itself \in Values(OneAncestors(node))
<1>1. CASE node.method = "instance_ancestors"
  <2>1. node.name \in ModuleNames /\ OneAncestors(node) = OneInstanceAncestors(node.name)
    BY <1>1 DEF IsDeclared, OneAncestors
  <2> QED
    BY <2>1, InstancePartsInOrder
<1>2. CASE node.method = "singleton_ancestors"
  <2>1. node.name \in ModuleNames /\ OneAncestors(node) = OneSingletonAncestors(node.name)
    BY <1>2 DEF IsDeclared, OneAncestors
  <2> QED
    BY <2>1, SingletonPartsInOrder
<1>3. CASE node.method = "interface_ancestors"
  <2>1. node.name \in InterfaceNames /\ OneAncestors(node) = OneInterfaceAncestors(node.name)
    BY <1>3 DEF IsDeclared, OneAncestors
  <2> QED
    BY <2>1, InterfacePartsInOrder
<1> QED
  BY <1>1, <1>2, <1>3 DEF Methods

\* The place of a part; that of the class itself is 0.
PlaceOf(node, i) ==
  IF OneAncestors(node)[i].kind = "itself" THEN 0 ELSE Place(OneAncestors(node), i)
Counted(node) == {i \in DOMAIN OneAncestors(node) : OneAncestors(node)[i].kind # "self type"}

LEMMA PlacesDescend ==
  ASSUME IsEnvironment(program), NEW node, node.method \in Methods, IsDeclared(node)
  PROVE  /\ \A i \in Counted(node) : PlaceOf(node, i) \in Int
         /\ \A i \in Counted(node) : PlaceOf(node, i) = 0 <=> OneAncestors(node)[i].kind = "itself"
         /\ \A i, j \in Counted(node) : i < j => PlaceOf(node, j) < PlaceOf(node, i)
<1> DEFINE parts == OneAncestors(node)
           n == Len(parts)
<1>1. InOrder(parts)
  BY PartsInOrder
<1>2. n \in Nat /\ DOMAIN parts = 1..n
  BY <1>1, IsSeqBasics DEF InOrder
<1> HIDE DEF parts, n
<1> DEFINE P(i) == PlaceOf(node, i)
<1>4. ASSUME NEW i \in Counted(node)
      PROVE  /\ i \in 1..n
             /\ \/ parts[i].kind = "super" /\ P(i) = 2 * n + i
                \/ parts[i].kind \in {"include", "extend"} /\ P(i) = 2 * n - i
                \/ parts[i].kind = "itself" /\ P(i) = 0
                \/ parts[i].kind = "prepend" /\ P(i) = -i
  <2>1. i \in DOMAIN parts /\ parts[i].kind # "self type"
    BY DEF Counted, parts
  <2>2. parts[i].kind \in PartKinds
    BY <1>1, <2>1 DEF InOrder, Values
  <2>3. P(i) = IF parts[i].kind = "itself" THEN 0 ELSE Place(parts, i)
    BY DEF PlaceOf, parts
  <2>4. CASE parts[i].kind = "super"
    BY <1>2, <2>1, <2>3, <2>4 DEF Place, n
  <2>5. CASE parts[i].kind \in {"include", "extend"}
    BY <1>2, <2>1, <2>3, <2>5 DEF Place, n
  <2>6. CASE parts[i].kind = "itself"
    BY <1>2, <2>1, <2>3, <2>6 DEF Place
  <2>7. CASE parts[i].kind = "prepend"
    BY <1>2, <2>1, <2>3, <2>7 DEF Place
  <2> QED
    BY <2>1, <2>2, <2>4, <2>5, <2>6, <2>7 DEF PartKinds
<1> HIDE DEF P
<1>5. ASSUME NEW i \in Counted(node), NEW j \in Counted(node), i < j
      PROVE  P(j) < P(i)
  <2>1. Follows(parts[i], parts[j])
    BY <1>1, <1>2, <1>4, <1>5 DEF InOrder
  <2> DEFINE k == parts[i].kind
             l == parts[j].kind
  <2>2. /\ l \in {"self type", "super"} => k = "self type"
        /\ l \in {"include", "extend", "itself"} => k \notin {"itself", "prepend"}
    BY <2>1 DEF Follows
  <2>3. /\ i \in 1..n /\ j \in 1..n
        /\ \/ k = "super" /\ P(i) = 2 * n + i
           \/ k \in {"include", "extend"} /\ P(i) = 2 * n - i
           \/ k = "itself" /\ P(i) = 0
           \/ k = "prepend" /\ P(i) = -i
        /\ \/ l = "super" /\ P(j) = 2 * n + j
           \/ l \in {"include", "extend"} /\ P(j) = 2 * n - j
           \/ l = "itself" /\ P(j) = 0
           \/ l = "prepend" /\ P(j) = -j
    BY <1>4
  <2> DEFINE a == P(i)
             b == P(j)
             A1 == a = 2 * n + i
             A2 == a = 2 * n - i
             A3 == a = 0
             A4 == a = -i
             B1 == b = 2 * n + j
             B2 == b = 2 * n - j
             B3 == b = 0
             B4 == b = -j
  <2>4. /\ (k = "super" /\ A1) \/ (k \in {"include", "extend"} /\ A2) \/ (k = "itself" /\ A3) \/ (k = "prepend" /\ A4)
        /\ (l = "super" /\ B1) \/ (l \in {"include", "extend"} /\ B2) \/ (l = "itself" /\ B3) \/ (l = "prepend" /\ B4)
    BY <2>3
  <2> HIDE DEF k, l, A1, A2, A3, A4, B1, B2, B3, B4
  <2>5. \/ A1 /\ (B2 \/ B3 \/ B4)
        \/ A2 /\ (B2 \/ B3 \/ B4)
        \/ A3 /\ B4
        \/ A4 /\ B4
    BY ONLY <2>2, <2>4
  <2> HIDE DEF a, b
  <2>6. i \in 1..n /\ j \in 1..n /\ i < j
    BY <1>5, <2>3
  <2>7. b < a
    BY ONLY <1>2, <2>5, <2>6 DEF A1, A2, A3, A4, B2, B3, B4
  <2> QED
    BY <2>7 DEF a, b
<1>6. \A i \in Counted(node) : P(i) \in Int /\ (P(i) = 0 <=> parts[i].kind = "itself")
  BY <1>2, <1>4
<1> QED
  BY <1>5, <1>6 DEF P, parts

-----------------------------------------------------------------------------
(* The paths of a node are made of those of the nodes one step up.         *)

\* f is the recursive function of AllPaths, as far as m.
PathsUpTo(f, m) ==
  f = [n \in 0..m |-> IF n = 0 THEN [x \in Declared |-> {SelfPath(x)}] ELSE LongerPaths(f[n - 1])]

LEMMA PathsExist == \A m \in Nat : \E f : PathsUpTo(f, m)
<1> DEFINE P == {m \in Nat : \E f : PathsUpTo(f, m)}
           start == [x \in Declared |-> {SelfPath(x)}]
<1>1. 0 \in P
  <2> DEFINE f == [n \in 0..0 |-> start]
  <2>1. PathsUpTo(f, 0)
    BY DEF PathsUpTo
  <2> QED
    BY <2>1
<1>2. ASSUME NEW m \in Nat, m \in P
      PROVE  m + 1 \in P
  <2>1. PICK f : PathsUpTo(f, m)
    BY <1>2
  <2> DEFINE g == [n \in 0..(m + 1) |-> IF n = m + 1 THEN LongerPaths(f[m]) ELSE f[n]]
  <2>2. \A n \in 0..m : g[n] = f[n]
    OBVIOUS
  <2>3. \A n \in 0..m : f[n] = IF n = 0 THEN start ELSE LongerPaths(f[n - 1])
    BY <2>1 DEF PathsUpTo
  <2> HIDE DEF start
  <2>4. \A n \in 0..(m + 1) : g[n] = IF n = 0 THEN start ELSE LongerPaths(g[n - 1])
    BY <2>2, <2>3
  <2>5. PathsUpTo(g, m + 1)
    BY <2>4 DEF PathsUpTo, start
  <2> QED
    BY <2>5
<1> HIDE DEF P
<1>3. \A m \in Nat : m \in P
  BY <1>1, <1>2, SetInduction
<1> QED
  BY <1>3 DEF P

LEMMA PathsDefined == \E f : PathsUpTo(f, StackLimit) /\ AllPaths = f[StackLimit]
<1>1. \E f : PathsUpTo(f, StackLimit)
  BY PathsExist, StackAssumption
<1> QED
  BY <1>1 DEF AllPaths, PathsUpTo

LEMMA PathsStep ==
  ASSUME NEW f, PathsUpTo(f, StackLimit)
  PROVE  /\ f[0] = [x \in Declared |-> {SelfPath(x)}]
         /\ \A n \in Nat : n + 1 <= StackLimit => f[n + 1] = LongerPaths(f[n])
<1>1. \A n \in 0..StackLimit :
        f[n] = IF n = 0 THEN [x \in Declared |-> {SelfPath(x)}] ELSE LongerPaths(f[n - 1])
  BY DEF PathsUpTo
<1> QED
  BY <1>1, StackAssumption

\* Where a path begins.
CalleeAt(node, i) == Callee(OneAncestors(node)[i])
Begun(node, further) == {SelfPath(node)} \cup UNION {PathsVia(node, i, further) : i \in Taken(node)}

LEMMA BegunDepends ==
  ASSUME NEW node, NEW f, NEW g, \A i \in Taken(node) : f[CalleeAt(node, i)] = g[CalleeAt(node, i)]
  PROVE  Begun(node, f) = Begun(node, g)
<1>1. \A i \in Taken(node) : PathsVia(node, i, f) = PathsVia(node, i, g)
  BY DEF PathsVia, BegunWith, CalleeAt
<1> QED
  BY <1>1 DEF Begun

\* Nodes can be ranked below the height of the stack, what they call below them.
IsRanking(rank, A) ==
  /\ A \subseteq Declared /\ rank \in [A -> Nat]
  /\ \A x \in A : /\ rank[x] < StackLimit
                  /\ \A i \in Taken(x) : CalleeAt(x, i) \in A /\ rank[CalleeAt(x, i)] < rank[x]

LEMMA PathsBegin ==
  ASSUME NEW A, NEW rank, IsRanking(rank, A), NEW node \in A
  PROVE  Paths(node) = Begun(node, AllPaths)
<1>1. PICK f : PathsUpTo(f, StackLimit) /\ AllPaths = f[StackLimit]
  BY PathsDefined
<1>2. PathsUpTo(f, StackLimit)
  BY <1>1
<1>3. /\ f[0] = [x \in Declared |-> {SelfPath(x)}]
      /\ \A n \in Nat : n + 1 <= StackLimit => f[n + 1] = LongerPaths(f[n])
  BY ONLY <1>2, PathsStep
<1>4. /\ A \subseteq Declared /\ rank \in [A -> Nat]
      /\ \A x \in A : /\ rank[x] < StackLimit
                      /\ \A i \in Taken(x) : CalleeAt(x, i) \in A /\ rank[CalleeAt(x, i)] < rank[x]
  BY DEF IsRanking
<1>5. \A n \in Nat, x \in A : n + 1 <= StackLimit => f[n + 1][x] = Begun(x, f[n])
  BY <1>3, <1>4 DEF LongerPaths, Begun
<1> DEFINE Settled(n) == \A x \in A : rank[x] <= n =>
                            \A k \in Nat : n <= k /\ k <= StackLimit => f[k][x] = f[StackLimit][x]
           P == {n \in Nat : Settled(n)}
\* A node that calls none
<1>6. ASSUME NEW x \in A, rank[x] = 0, NEW k \in Nat, k <= StackLimit
      PROVE  f[k][x] = {SelfPath(x)}
  <2>1. Taken(x) = {}
    <3> SUFFICES ASSUME NEW i \in Taken(x) PROVE FALSE
      OBVIOUS
    <3>1. rank[CalleeAt(x, i)] \in Nat /\ rank[CalleeAt(x, i)] < 0
      BY <1>4, <1>6
    <3> QED
      BY <3>1
  <2>2. CASE k = 0
    BY <1>3, <1>4, <2>2
  <2>3. CASE k # 0
    <3>1. k - 1 \in Nat /\ (k - 1) + 1 = k
      BY <2>3
    <3>2. f[k][x] = Begun(x, f[k - 1])
      BY <1>5, <1>6, <3>1
    <3> QED
      BY <2>1, <3>2 DEF Begun
  <2> QED
    BY <2>2, <2>3
<1>7. StackLimit \in Nat /\ StackLimit - 1 \in Nat /\ (StackLimit - 1) + 1 = StackLimit
  BY StackAssumption
<1>8. 0 \in P
  <2>1. ASSUME NEW x \in A, rank[x] <= 0
        PROVE  rank[x] = 0
    BY <1>4, <2>1
  <2>2. Settled(0)
    <3> SUFFICES ASSUME NEW x \in A, rank[x] <= 0, NEW k \in Nat, k <= StackLimit
                 PROVE  f[k][x] = f[StackLimit][x]
      OBVIOUS
    <3>1. rank[x] = 0
      BY <2>1
    <3>2. f[k][x] = {SelfPath(x)}
      BY <1>6, <3>1
    <3>3. f[StackLimit][x] = {SelfPath(x)}
      BY <1>6, <1>7, <3>1
    <3> QED
      BY <3>2, <3>3
  <2> HIDE DEF Settled
  <2> QED
    BY <2>2
<1>9. ASSUME NEW n \in Nat, n \in P
      PROVE  n + 1 \in P
  <2>1. Settled(n)
    BY <1>9
  <2> SUFFICES ASSUME NEW x \in A, rank[x] <= n + 1, NEW k \in Nat, n + 1 <= k, k <= StackLimit
               PROVE  f[k][x] = f[StackLimit][x]
    OBVIOUS
  <2>2. \A i \in Taken(x) : CalleeAt(x, i) \in A /\ rank[CalleeAt(x, i)] <= n
    BY <1>4
  <2>3. \A l \in Nat : n <= l /\ l <= StackLimit => Begun(x, f[l]) = Begun(x, f[StackLimit])
    <3> SUFFICES ASSUME NEW l \in Nat, n <= l, l <= StackLimit
                 PROVE  Begun(x, f[l]) = Begun(x, f[StackLimit])
      OBVIOUS
    <3>1. \A i \in Taken(x) : f[l][CalleeAt(x, i)] = f[StackLimit][CalleeAt(x, i)]
      BY <2>1, <2>2
    <3> QED
      BY <3>1, BegunDepends
  <2>4. /\ k - 1 \in Nat /\ n <= k - 1 /\ k - 1 <= StackLimit /\ (k - 1) + 1 = k
        /\ n <= StackLimit - 1 /\ StackLimit - 1 <= StackLimit
    BY <1>7
  <2>5. f[k][x] = Begun(x, f[k - 1]) /\ f[StackLimit][x] = Begun(x, f[StackLimit - 1])
    BY <1>5, <1>7, <2>4
  <2>6. Begun(x, f[k - 1]) = Begun(x, f[StackLimit]) /\ Begun(x, f[StackLimit - 1]) = Begun(x, f[StackLimit])
    BY <1>7, <2>3, <2>4
  <2> QED
    BY <2>5, <2>6
<1> HIDE DEF P
<1>10. \A n \in Nat : Settled(n)
  <2>1. \A n \in Nat : n \in P
    BY <1>8, <1>9, SetInduction
  <2> QED
    BY <2>1 DEF P
<1>11. \A i \in Taken(node) : f[StackLimit - 1][CalleeAt(node, i)] = f[StackLimit][CalleeAt(node, i)]
  <2> TAKE i \in Taken(node)
  <2> DEFINE c == CalleeAt(node, i)
  <2>1. c \in A /\ rank[c] \in Nat /\ rank[c] < rank[node] /\ rank[node] \in Nat /\ rank[node] < StackLimit
    BY <1>4
  <2> HIDE DEF c
  <2>2. rank[c] <= StackLimit - 1 /\ StackLimit - 1 <= StackLimit
    BY <1>7, <2>1
  <2>3. f[StackLimit - 1][c] = f[StackLimit][c]
    BY <1>7, <1>10, <2>1, <2>2
  <2> QED
    BY <2>3 DEF c
<1>12. f[StackLimit][node] = Begun(node, f[StackLimit - 1])
  BY <1>5, <1>7
<1>13. Begun(node, f[StackLimit - 1]) = Begun(node, f[StackLimit])
  BY <1>11, BegunDepends
<1> QED
  BY <1>1, <1>12, <1>13 DEF Paths

\* The paths depend on nothing but the program.
LEMMA SameBegun ==
  ASSUME program' = program
  PROVE  /\ \A node : Taken(node)' = Taken(node) /\ SelfPath(node)' = SelfPath(node)
         /\ \A node, i, further : PathsVia(node, i, further)' = PathsVia(node, i, further)
         /\ \A further : LongerPaths(further)' = LongerPaths(further)
<1>1. \A node : Taken(node)' = Taken(node) /\ SelfPath(node)' = SelfPath(node)
  <2>1. \A node : Taken(node)' = Taken(node)
    <3> TAKE node
    <3> DEFINE parts == OneAncestors(node)
    <3>1. parts' = parts
      BY SameParts
    <3>2. Taken(node)' = {i \in DOMAIN parts' : parts'[i].kind \notin {"itself", "self type"}}
      BY DEF Taken, TakenOf
    <3>3. Taken(node) = {i \in DOMAIN parts : parts[i].kind \notin {"itself", "self type"}}
      BY DEF Taken, TakenOf
    <3> HIDE DEF parts
    <3> QED
      BY <3>1, <3>2, <3>3
  <2>2. \A name : NamesOf(ParamsOf(name))' = NamesOf(ParamsOf(name))
    BY SameLookups
  <2>3. \A node : SelfAncestor(node)' = SelfAncestor(node)
    BY <2>2 DEF SelfAncestor
  <2> QED
    BY <2>1, <2>3 DEF SelfPath
<1>2. \A part, place, path : Along(part, place, path)' = Along(part, place, path)
  <2>1. \A part, a, isLast : Through(part, a, isLast)' = Through(part, a, isLast)
    BY SameLookups DEF Through
  <2> QED
    BY <2>1 DEF Along
<1>3. \A node, i, further : PathsVia(node, i, further)' = PathsVia(node, i, further)
  BY <1>2, SameParts DEF PathsVia, BegunWith
<1>4. \A further : LongerPaths(further)' = LongerPaths(further)
  BY <1>1, <1>3, SameDeclared DEF LongerPaths
<1> QED
  BY <1>1, <1>3, <1>4

LEMMA SamePaths ==
  ASSUME program' = program
  PROVE  AllPaths' = AllPaths /\ \A node : Paths(node)' = Paths(node)
<1> DEFINE start == [x \in Declared |-> {SelfPath(x)}]
<1>1. start' = start
  BY SameDeclared, SameBegun
<1>2. \A r : LongerPaths(r)' = LongerPaths(r)
  BY SameBegun
<1>3. PICK f : PathsUpTo(f, StackLimit) /\ AllPaths = f[StackLimit]
  BY PathsDefined
<1>4. PathsUpTo(f, StackLimit)'
  <2>1. f = [n \in 0..StackLimit |-> IF n = 0 THEN start ELSE LongerPaths(f[n - 1])]
    BY <1>3 DEF PathsUpTo
  <2> HIDE DEF start
  <2>2. f = [n \in 0..StackLimit |-> IF n = 0 THEN start' ELSE LongerPaths(f[n - 1])']
    BY <1>1, <1>2, <2>1
  <2> QED
    BY <2>2 DEF PathsUpTo, start
<1>5. PICK g : (PathsUpTo(g, StackLimit) /\ AllPaths = g[StackLimit])'
  BY <1>4 DEF AllPaths, PathsUpTo
<1>6. PathsUpTo(g, StackLimit)
  <2>1. g = [n \in 0..StackLimit |-> IF n = 0 THEN start' ELSE LongerPaths(g[n - 1])']
    BY <1>5 DEF PathsUpTo
  <2> HIDE DEF start
  <2>2. g = [n \in 0..StackLimit |-> IF n = 0 THEN start ELSE LongerPaths(g[n - 1])]
    BY <1>1, <1>2, <2>1
  <2> QED
    BY <2>2 DEF PathsUpTo, start
<1>7. PathsUpTo(f, StackLimit)
  BY <1>3
<1>8. /\ f[0] = g[0]
      /\ \A n \in Nat : n + 1 <= StackLimit => f[n + 1] = LongerPaths(f[n]) /\ g[n + 1] = LongerPaths(g[n])
  BY ONLY <1>6, <1>7, PathsStep
<1> DEFINE P == {n \in Nat : n <= StackLimit => f[n] = g[n]}
<1>9. 0 \in P
  BY <1>8
<1>10. ASSUME NEW n \in Nat, n \in P
      PROVE  n + 1 \in P
  <2>1. n + 1 <= StackLimit => n <= StackLimit /\ f[n + 1] = LongerPaths(f[n]) /\ g[n + 1] = LongerPaths(g[n])
    BY <1>8, StackAssumption
  <2> QED
    BY <1>10, <2>1
<1> HIDE DEF P
<1>11. StackLimit \in P
  BY <1>9, <1>10, SetInduction, StackAssumption
<1>12. AllPaths' = AllPaths
  BY <1>3, <1>5, <1>11, StackAssumption DEF P
<1> QED
  BY <1>12 DEF Paths

-----------------------------------------------------------------------------
(* What a part puts in front of an answer.                                 *)

\* The paths of a part that is put in front.
LEMMA OrderInFront ==
  ASSUME NEW s, NEW t, IsOrder(s), IsOrder(t),
         \A p \in Values(s), q \in Values(t) : PlaceAt(p, 1) < PlaceAt(q, 1)
  PROVE  /\ IsOrder(s \o t) /\ Values(s \o t) = Values(s) \cup Values(t)
         /\ AncestorsOf(s \o t) = AncestorsOf(s) \o AncestorsOf(t)
<1> DEFINE r == s \o t
           as == AncestorsOf(s)
           at == AncestorsOf(t)
           ar == AncestorsOf(r)
           joined == as \o at
<1>1. IsSeq(s) /\ IsSeq(t)
  BY DEF IsOrder
<1>2. IsJoin(r, s, t) /\ IsSeq(r) /\ Values(r) = Values(s) \cup Values(t)
  BY <1>1, IsSeqJoin, ValuesOfJoin
<1>3. /\ Len(s) \in Nat /\ DOMAIN s = 1..Len(s) /\ Len(t) \in Nat /\ DOMAIN t = 1..Len(t)
  BY <1>1, IsSeqBasics
<1> HIDE DEF r
<1>4. /\ DOMAIN r = 1..(Len(s) + Len(t)) /\ Len(r) = Len(s) + Len(t)
      /\ \A i \in 1..Len(s) : r[i] = s[i]
      /\ \A i \in 1..Len(t) : r[Len(s) + i] = t[i]
  <2>1. /\ DOMAIN r = 1..(Len(s) + Len(t))
        /\ \A i \in 1..Len(s) : r[i] = s[i]
        /\ \A i \in 1..Len(t) : r[Len(s) + i] = t[i]
    BY <1>2 DEF IsJoin
  <2>2. Len(r) \in Nat /\ DOMAIN r = 1..Len(r)
    BY <1>2, IsSeqBasics
  <2>3. Len(r) = Len(s) + Len(t)
    <3> DEFINE m == Len(r)
               n == Len(s) + Len(t)
    <3>1. m \in Nat /\ n \in Nat /\ 1..m = 1..n
      BY <1>3, <2>1, <2>2
    <3> HIDE DEF m, n
    <3>2. m = n
      BY <3>1
    <3> QED
      BY <3>2 DEF m, n
  <2> QED
    BY <2>1, <2>3
\* An index is one of s, or one of t behind them.
<1>5. \A i \in DOMAIN r : \/ i \in 1..Len(s) /\ r[i] = s[i]
                          \/ /\ i \notin 1..Len(s) /\ i - Len(s) \in 1..Len(t) /\ r[i] = t[i - Len(s)]
                             /\ Len(s) + (i - Len(s)) = i
  <2> SUFFICES ASSUME NEW i \in DOMAIN r, i \notin 1..Len(s)
               PROVE  i - Len(s) \in 1..Len(t) /\ r[i] = t[i - Len(s)] /\ Len(s) + (i - Len(s)) = i
    BY <1>4
  <2>1. i - Len(s) \in 1..Len(t) /\ Len(s) + (i - Len(s)) = i
    BY <1>3, <1>4
  <2> QED
    BY <1>4, <2>1
<1>6. \A i \in DOMAIN r : IsPath(r[i])
  BY <1>3, <1>5 DEF IsOrder
<1>7. ASSUME NEW i \in DOMAIN r, NEW j \in DOMAIN r, i < j
      PROVE  Ahead(r[i], r[j])
  <2>1. CASE i \in 1..Len(s) /\ j \in 1..Len(s)
    BY <1>3, <1>4, <1>7, <2>1 DEF IsOrder
  <2>2. CASE i \notin 1..Len(s) /\ j \notin 1..Len(s)
    <3>1. i - Len(s) < j - Len(s)
      BY <1>3, <1>4, <1>7
    <3> QED
      BY <1>3, <1>5, <2>2, <3>1 DEF IsOrder
  <2>3. CASE i \in 1..Len(s) /\ j \notin 1..Len(s)
    <3>1. r[i] \in Values(s) /\ r[j] \in Values(t)
      BY <1>3, <1>5, <2>3 DEF Values
    <3> QED
      BY <3>1, PartsAtOnce
  <2>4. ~(i \notin 1..Len(s) /\ j \in 1..Len(s))
    BY <1>3, <1>4, <1>7
  <2> QED
    BY <2>1, <2>2, <2>3, <2>4
<1>8. IsOrder(r)
  BY <1>2, <1>6, <1>7 DEF IsOrder
<1>9. /\ IsSeq(as) /\ Len(as) = Len(s) /\ DOMAIN as = DOMAIN s
      /\ IsSeq(at) /\ Len(at) = Len(t) /\ DOMAIN at = DOMAIN t
      /\ IsSeq(ar) /\ Len(ar) = Len(r) /\ DOMAIN ar = DOMAIN r
  BY <1>1, <1>2, MappedIsSeq DEF AncestorsOf
<1>10. /\ \A i \in DOMAIN s : as[i] = s[i].ancestor
       /\ \A i \in DOMAIN t : at[i] = t[i].ancestor
       /\ \A i \in DOMAIN r : ar[i] = r[i].ancestor
  BY DEF AncestorsOf
<1>11. IsJoin(joined, as, at) /\ IsSeq(joined)
  BY <1>9, IsSeqJoin, ValuesOfJoin
<1> HIDE DEF as, at, ar, joined
<1>12. /\ DOMAIN joined = DOMAIN r
       /\ \A i \in 1..Len(s) : joined[i] = as[i]
       /\ \A i \in 1..Len(t) : joined[Len(s) + i] = at[i]
  BY <1>4, <1>9, <1>11 DEF IsJoin
<1>13. Len(joined) = Len(ar)
  <2>1. Len(joined) \in Nat /\ DOMAIN joined = 1..Len(joined) /\ Len(ar) \in Nat /\ DOMAIN ar = 1..Len(ar)
    BY <1>9, <1>11, IsSeqBasics
  <2> DEFINE m == Len(joined)
             n == Len(ar)
  <2>2. m \in Nat /\ n \in Nat /\ 1..m = 1..n
    BY <1>9, <1>12, <2>1
  <2> HIDE DEF m, n
  <2>3. m = n
    BY <2>2
  <2> QED
    BY <2>3 DEF m, n
<1>14. \A i \in DOMAIN ar : ar[i] = joined[i]
  <2> SUFFICES ASSUME NEW i \in DOMAIN r PROVE r[i].ancestor = joined[i]
    BY <1>9, <1>10
  <2>1. CASE i \in 1..Len(s) /\ r[i] = s[i]
    BY <1>3, <1>10, <1>12, <2>1
  <2>2. CASE i - Len(s) \in 1..Len(t) /\ r[i] = t[i - Len(s)] /\ Len(s) + (i - Len(s)) = i
    BY <1>3, <1>10, <1>12, <2>2
  <2> QED
    BY <1>5, <2>1, <2>2
<1>15. ar = joined
  BY <1>9, <1>11, <1>13, <1>14, IsSeqEqual
<1> QED
  BY <1>2, <1>8, <1>15 DEF r, as, at, ar, joined

\* Only the end of a path has no source, but for singletons, and it is the node itself.
EndsRight(node, p) ==
  /\ p.ancestor.source = NoSource <=> p.places = <<>>
  /\ p.places = <<>> => p.ancestor.node = node
IsOrderFor(s, node, paths) ==
  /\ IsOrder(s) /\ Values(s) = paths
  /\ node.method # "singleton_ancestors" => \A p \in paths : EndsRight(node, p)

LEMMA SelfInOrder ==
  ASSUME NEW node
  PROVE  /\ IsOrderFor(<<SelfPath(node)>>, node, {SelfPath(node)})
         /\ AncestorsOf(<<SelfPath(node)>>) = <<SelfAncestor(node)>>
         /\ PlaceAt(SelfPath(node), 1) = 0
<1> DEFINE p == SelfPath(node)
           a == SelfAncestor(node)
<1>1. p.places = <<>> /\ p.ancestor = a
  BY DEF SelfPath
<1>2. DOMAIN a = {"node", "args", "source"} /\ a.source = NoSource /\ a.node = node
  BY DEF SelfAncestor, Ancestor
<1> HIDE DEF p, a
<1>3. IsPath(p)
  BY <1>1, <1>2, IsSeqEmpty DEF IsPath
<1>4. IsSeq(<<p>>) /\ Values(<<p>>) = {p}
  BY ValuesOfOne
<1>5. DOMAIN <<p>> = {1} /\ <<p>>[1] = p
  OBVIOUS
<1>6. IsOrder(<<p>>)
  BY <1>3, <1>4, <1>5 DEF IsOrder
<1>7. EndsRight(node, p)
  BY <1>1, <1>2 DEF EndsRight
<1>8. AncestorsOf(<<p>>) = <<a>>
  <2>1. AncestorsOf(<<p>>) = [i \in {1} |-> a]
    BY <1>1, <1>5 DEF AncestorsOf
  <2>2. <<a>> = [i \in {1} |-> a]
    OBVIOUS
  <2> QED
    BY <2>1, <2>2
<1>9. PlaceAt(p, 1) = 0
  BY <1>1, IsSeqEmpty DEF PlaceAt
<1> QED
  BY <1>4, <1>6, <1>7, <1>8, <1>9 DEF IsOrderFor, p, a

\* What a part makes of the end of a path is what it makes of an ancestor.
LEMMA ThroughApplied ==
  ASSUME NEW part, part.method # "singleton_ancestors", NEW p, IsPath(p), EndsRight(Callee(part), p)
  PROVE  Through(part, p.ancestor, p.places = <<>>) =
           FillSource([p.ancestor EXCEPT !.args = Substituted(@, NamesOf(ParamsOf(part.name)), part.args)], part)
<1> DEFINE a == p.ancestor
           args == Substituted(a.args, NamesOf(ParamsOf(part.name)), part.args)
           b == [a EXCEPT !.args = args]
           source == SourceOf(part)
<1>1. DOMAIN a = {"node", "args", "source"}
  BY DEF IsPath
<1>2. /\ a.source = NoSource <=> p.places = <<>>
      /\ p.places = <<>> => a.node = Callee(part)
  BY DEF EndsRight
<1> DEFINE through == Through(part, a, p.places = <<>>)
<1>3. /\ p.places = <<>> => through = [b EXCEPT !.source = source]
      /\ p.places # <<>> => through = [b EXCEPT !.source = b.source]
  BY DEF Through
<1>4. FillSource(b, part) = IF b.node = Callee(part) /\ b.source = NoSource
                            THEN [b EXCEPT !.source = source] ELSE b
  BY DEF FillSource
<1> HIDE DEF a, args, source, through
<1>5. b.node = a.node /\ b.source = a.source /\ DOMAIN b = DOMAIN a
  BY <1>1
<1>6. b = [x \in DOMAIN a |-> IF x = "args" THEN args ELSE a[x]]
  OBVIOUS
<1> HIDE DEF b
<1>7. [b EXCEPT !.source = b.source] = b
  BY <1>6
<1>8. through = FillSource(b, part)
  BY <1>2, <1>3, <1>4, <1>5, <1>7
<1> QED
  BY <1>8 DEF through, b, args, a

\* The paths that begin with a part are in the order of those of its callee.
LEMMA BlockInOrder ==
  ASSUME NEW part, part.kind \in PartKinds, NEW place \in Int, place # 0,
         NEW s, NEW paths, IsOrderFor(s, Callee(part), paths), Cached(Callee(part)) = AncestorsOf(s),
         NEW t, t = [k \in DOMAIN s |-> Along(part, place, s[k])]
  PROVE  /\ IsOrder(t) /\ Values(t) = {Along(part, place, p) : p \in paths}
         /\ AncestorsOf(t) = Applied(part)
         /\ \A p \in Values(t) : PlaceAt(p, 1) = place
         /\ part.method # "singleton_ancestors" =>
               \A p \in Values(t) : p.places # <<>> /\ p.ancestor.source # NoSource
<1> DEFINE one == <<place>>
<1>1. /\ IsSeq(s) /\ Values(s) = paths /\ \A k \in DOMAIN s : IsPath(s[k])
      /\ \A j, k \in DOMAIN s : j < k => Ahead(s[j], s[k])
  BY DEF IsOrderFor, IsOrder
<1>2. IsSeq(t) /\ DOMAIN t = DOMAIN s
  BY <1>1, MappedIsSeq
<1>3. ASSUME NEW k \in DOMAIN s
      PROVE  /\ t[k].places = <<place>> \o s[k].places
             /\ t[k].ancestor = Through(part, s[k].ancestor, s[k].places = <<>>)
  BY DEF Along
<1>4. IsSeq(one) /\ Values(one) = {place} /\ DOMAIN one = {1} /\ Len(one) = 1 /\ one[1] = place
  BY ValuesOfOne
<1>5. ASSUME NEW k \in DOMAIN s
      PROVE  /\ IsSeq(t[k].places) /\ PlaceAt(t[k], 1) = place
             /\ t[k].places # <<>>
             /\ \A i \in DOMAIN t[k].places : t[k].places[i] \in Int /\ t[k].places[i] # 0
  <2> DEFINE p == s[k].places
             q == t[k].places
             joined == one \o p
  <2>1. IsSeq(p) /\ \A i \in DOMAIN p : p[i] \in Int /\ p[i] # 0
    BY <1>1 DEF IsPath
  <2>2. IsSeq(q) /\ PlaceAt(t[k], 1) = place
    <3>1. GoesOn(t[k], place, s[k])
      BY <1>3, <2>1 DEF GoesOn
    <3> QED
      BY ONLY <3>1, PlacesBehind
  <2>3. q = joined
    BY <1>3
  <2> HIDE DEF one
  <2>4. IsSeq(joined) /\ Values(joined) = Values(one) \cup Values(p)
    BY <1>4, <2>1, ValuesOfJoin
  <2> HIDE DEF joined
  <2>5. \A i \in DOMAIN q : q[i] \in {place} \cup Values(p)
    BY <1>4, <2>3, <2>4 DEF Values
  <2>6. \A e \in {place} \cup Values(p) : e \in Int /\ e # 0
    BY <2>1 DEF Values
  <2>7. q # <<>>
    BY <1>4, <2>3, <2>4, ValuesOfEmpty
  <2> QED
    BY <2>2, <2>5, <2>6, <2>7
<1>6. ASSUME NEW k \in DOMAIN s
      PROVE  DOMAIN t[k].ancestor = {"node", "args", "source"}
  <2>1. DOMAIN s[k].ancestor = {"node", "args", "source"}
    BY <1>1 DEF IsPath
  <2> QED
    BY <1>3, <2>1 DEF Through
<1>7. \A k \in DOMAIN t : IsPath(t[k])
  BY <1>2, <1>5, <1>6 DEF IsPath
<1>8. ASSUME NEW j \in DOMAIN t, NEW k \in DOMAIN t, j < k
      PROVE  Ahead(t[j], t[k])
  <2>1. Ahead(s[j], s[k]) /\ IsSeq(s[j].places) /\ IsSeq(s[k].places)
    BY <1>1, <1>2, <1>8 DEF IsPath
  <2>2. t[j].places = <<place>> \o s[j].places /\ t[k].places = <<place>> \o s[k].places
    BY <1>2, <1>3
  <2> QED
    <3>1. GoesOn(t[j], place, s[j]) /\ GoesOn(t[k], place, s[k])
      BY <2>1, <2>2 DEF GoesOn
    <3> QED
      BY ONLY <2>1, <3>1, BehindIsOrdered
<1>9. IsOrder(t)
  BY <1>2, <1>7, <1>8 DEF IsOrder
<1>10. Values(t) = {Along(part, place, p) : p \in paths}
  BY <1>1, <1>2 DEF Values
<1>11. \A p \in Values(t) : PlaceAt(p, 1) = place /\ p.places # <<>>
  BY <1>2, <1>5 DEF Values
<1>12. AncestorsOf(t) = Applied(part)
  <2> DEFINE as == AncestorsOf(s)
             params == NamesOf(ParamsOf(part.name))
             Apply(a) == FillSource([a EXCEPT !.args = Substituted(@, params, part.args)], part)
  <2>1. AncestorsOf(t) = [k \in DOMAIN s |-> Through(part, s[k].ancestor, s[k].places = <<>>)]
    BY <1>2, <1>3 DEF AncestorsOf
  <2>2. DOMAIN as = DOMAIN s /\ \A k \in DOMAIN s : as[k] = s[k].ancestor
    BY DEF AncestorsOf
  <2>3. CASE part.method = "singleton_ancestors"
    <3>1. Applied(part) = as
      BY <2>3 DEF Applied
    <3>2. AncestorsOf(t) = [k \in DOMAIN s |-> s[k].ancestor]
      BY <2>1, <2>3 DEF Through
    <3> QED
      BY <3>1, <3>2 DEF AncestorsOf
  <2>4. CASE part.method # "singleton_ancestors"
    <3>1. Applied(part) = [k \in DOMAIN as |-> Apply(as[k])]
      BY <2>4 DEF Applied
    <3> HIDE DEF as
    <3>2. ASSUME NEW k \in DOMAIN s
          PROVE  Through(part, s[k].ancestor, s[k].places = <<>>) = Apply(s[k].ancestor)
      <4>1. IsPath(s[k])
        BY <1>1
      <4>2. EndsRight(Callee(part), s[k])
        <5>1. Callee(part).method # "singleton_ancestors"
          BY <2>4 DEF Callee, Node
        <5>2. s[k] \in paths
          BY <1>1 DEF Values
        <5> QED
          BY <5>1, <5>2 DEF IsOrderFor
      <4> QED
        BY <2>4, <4>1, <4>2, ThroughApplied
    <3> HIDE DEF Apply
    <3> QED
      BY <2>1, <2>2, <3>1, <3>2
  <2> QED
    BY <2>3, <2>4
<1>13. ASSUME part.method # "singleton_ancestors", NEW k \in DOMAIN s
       PROVE  t[k].ancestor.source # NoSource
  <2>1. DOMAIN s[k].ancestor = {"node", "args", "source"}
    BY <1>1 DEF IsPath
  <2>2. EndsRight(Callee(part), s[k])
    <3>1. Callee(part).method # "singleton_ancestors"
      BY <1>13 DEF Callee, Node
    <3>2. s[k] \in paths
      BY <1>1 DEF Values
    <3> QED
      BY <3>1, <3>2 DEF IsOrderFor
  <2>3. SourceOf(part) # NoSource
    <3>1. SourceOf(part).kind = part.kind /\ NoSource.kind = "none"
      BY DEF SourceOf, NoSource
    <3>2. part.kind # "none"
      BY DEF PartKinds
    <3> QED
      BY <3>1, <3>2
  <2>4. t[k].ancestor.source = IF s[k].places = <<>> THEN SourceOf(part) ELSE s[k].ancestor.source
    BY <1>3, <1>13, <2>1 DEF Through
  <2> QED
    BY <2>2, <2>3, <2>4 DEF EndsRight
<1>14. part.method # "singleton_ancestors" => \A p \in Values(t) : p.places # <<>> /\ p.ancestor.source # NoSource
  BY <1>2, <1>11, <1>13 DEF Values
<1> QED
  BY <1>9, <1>10, <1>11, <1>12, <1>14

-----------------------------------------------------------------------------
(* The paths of a call, part by part.                                      *)

\* What a part adds to the paths.
PathsAt(node, i) ==
  CASE OneAncestors(node)[i].kind = "itself" -> {SelfPath(node)}
    [] OneAncestors(node)[i].kind = "self type" -> {}
    [] OTHER -> PathsVia(node, i, AllPaths)

\* The paths that the first parts have, and a sequence of them in order.
DonePaths(node, d) == UNION {PathsAt(node, i) : i \in 1..d}
IsFront(s, node, d) ==
  /\ IsOrderFor(s, node, DonePaths(node, d))
  /\ \A p \in Values(s) : \E i \in Counted(node) : i <= d /\ PlaceAt(p, 1) = PlaceOf(node, i)

LEMMA NothingInOrder ==
  \A node : IsFront(<<>>, node, 0) /\ AncestorsOf(<<>>) = <<>>
<1> TAKE node
<1>1. DonePaths(node, 0) = {}
  BY DEF DonePaths
<1>2. IsSeq(<<>>) /\ DOMAIN <<>> = {} /\ Values(<<>>) = {}
  BY IsSeqEmpty, ValuesOfEmpty
<1>3. AncestorsOf(<<>>) = <<>>
  <2> DEFINE a == AncestorsOf(<<>>)
  <2>1. IsSeq(a) /\ Len(a) = 0
    BY <1>2, IsSeqEmpty, MappedIsSeq DEF AncestorsOf
  <2> HIDE DEF a
  <2>2. a = <<>>
    BY <2>1, IsSeqBasics
  <2> QED
    BY <2>2 DEF a
<1> QED
  BY <1>1, <1>2, <1>3 DEF IsFront, IsOrderFor, IsOrder

LEMMA DoneGrows ==
  ASSUME NEW node, NEW d \in Nat
  PROVE  DonePaths(node, d + 1) = PathsAt(node, d + 1) \cup DonePaths(node, d)
<1>1. 1..(d + 1) = (1..d) \cup {d + 1}
  OBVIOUS
<1> QED
  BY <1>1 DEF DonePaths

\* All parts have all the paths.
LEMMA AllAreDone ==
  ASSUME IsEnvironment(program), NEW node, node.method \in Methods, IsDeclared(node)
  PROVE  DonePaths(node, Len(OneAncestors(node))) = Begun(node, AllPaths)
<1> DEFINE parts == OneAncestors(node)
<1>1. InOrder(parts) /\ Itself \in Values(parts)
  BY PartsInOrder
<1>2. DOMAIN parts = 1..Len(parts)
  BY <1>1, IsSeqBasics DEF InOrder
<1>3. PICK j \in DOMAIN parts : parts[j] = Itself
  BY <1>1 DEF Values
<1>4. Taken(node) = {i \in DOMAIN parts : parts[i].kind \notin {"itself", "self type"}}
  BY DEF Taken, TakenOf
<1>5. \A i : PathsAt(node, i) = CASE parts[i].kind = "itself" -> {SelfPath(node)}
                                  [] parts[i].kind = "self type" -> {}
                                  [] OTHER -> PathsVia(node, i, AllPaths)
  BY DEF PathsAt
<1>6. DonePaths(node, Len(parts)) = UNION {PathsAt(node, i) : i \in DOMAIN parts}
  BY <1>2 DEF DonePaths
<1> HIDE DEF parts
<1>7. PathsAt(node, j) = {SelfPath(node)}
  BY <1>3, <1>5, ItselfIsNoCall
<1>8. \A i \in DOMAIN parts : i \notin Taken(node) => PathsAt(node, i) \subseteq {SelfPath(node)}
  BY <1>4, <1>5
<1>9. \A i \in Taken(node) : i \in DOMAIN parts /\ PathsAt(node, i) = PathsVia(node, i, AllPaths)
  BY <1>4, <1>5
<1>10. DonePaths(node, Len(parts)) \subseteq Begun(node, AllPaths)
  BY <1>6, <1>8, <1>9 DEF Begun
<1>11. Begun(node, AllPaths) \subseteq DonePaths(node, Len(parts))
  BY <1>3, <1>6, <1>7, <1>9 DEF Begun
<1> QED
  BY <1>10, <1>11 DEF parts

LEMMA FrontGrows ==
  ASSUME IsEnvironment(program), NEW node, node.method \in Methods, IsDeclared(node),
         NEW d \in Nat, d + 1 \in Counted(node), NEW s, IsFront(s, node, d),
         NEW t, IsOrderFor(t, node, PathsAt(node, d + 1)),
         \A p \in Values(t) : PlaceAt(p, 1) = PlaceOf(node, d + 1)
  PROVE  IsFront(t \o s, node, d + 1) /\ AncestorsOf(t \o s) = AncestorsOf(t) \o AncestorsOf(s)
<1> DEFINE r == t \o s
<1>1. /\ \A i \in Counted(node) : PlaceOf(node, i) \in Int
      /\ \A i, j \in Counted(node) : i < j => PlaceOf(node, j) < PlaceOf(node, i)
  BY PlacesDescend
<1>2. \A p \in Values(s) : \E i \in Counted(node) : i <= d /\ PlaceAt(p, 1) = PlaceOf(node, i)
  BY DEF IsFront
<1>3. ASSUME NEW p \in Values(t), NEW q \in Values(s)
      PROVE  PlaceAt(p, 1) < PlaceAt(q, 1)
  <2>1. PICK i \in Counted(node) : i <= d /\ PlaceAt(q, 1) = PlaceOf(node, i)
    BY <1>2
  <2>2. i < d + 1
    <3>1. i \in DOMAIN OneAncestors(node)
      BY DEF Counted
    <3>2. i \in Nat
      BY <3>1, PartsInOrder, IsSeqBasics DEF InOrder
    <3> QED
      BY <2>1, <3>2
  <2>3. PlaceOf(node, d + 1) < PlaceOf(node, i)
    BY <1>1, <2>2
  <2> QED
    BY <2>1, <2>3
<1>4. IsOrder(s) /\ IsOrder(t) /\ Values(s) = DonePaths(node, d) /\ Values(t) = PathsAt(node, d + 1)
  BY DEF IsFront, IsOrderFor
<1>5. /\ IsOrder(r) /\ Values(r) = Values(t) \cup Values(s)
      /\ AncestorsOf(r) = AncestorsOf(t) \o AncestorsOf(s)
  BY <1>3, <1>4, OrderInFront
<1> HIDE DEF r
<1>6. Values(r) = DonePaths(node, d + 1)
  BY <1>4, <1>5, DoneGrows
<1>7. node.method # "singleton_ancestors" => \A p \in DonePaths(node, d + 1) : EndsRight(node, p)
  BY <1>4, <1>5, <1>6 DEF IsFront, IsOrderFor
<1>8. \A p \in Values(r) : \E i \in Counted(node) : i <= d + 1 /\ PlaceAt(p, 1) = PlaceOf(node, i)
  <2>1. ASSUME NEW i \in Counted(node), i <= d
        PROVE  i <= d + 1
    <3>1. i \in DOMAIN OneAncestors(node)
      BY DEF Counted
    <3>2. i \in Nat
      BY <3>1, PartsInOrder, IsSeqBasics DEF InOrder
    <3> QED
      BY <2>1, <3>2
  <2>2. \A p \in Values(s) : \E i \in Counted(node) : i <= d + 1 /\ PlaceAt(p, 1) = PlaceOf(node, i)
    BY <1>2, <2>1
  <2>3. d + 1 <= d + 1
    OBVIOUS
  <2> QED
    BY <1>5, <2>2, <2>3
<1> QED
  BY <1>5, <1>6, <1>7, <1>8 DEF IsFront, IsOrderFor, r

\* The answer to a node has its paths in order.
Ordered(node) == \E s : IsOrderFor(s, node, Paths(node)) /\ Cached(node) = AncestorsOf(s)

LEMMA JoinEmpty ==
  ASSUME NEW s, IsSeq(s)
  PROVE  <<>> \o s = s
<1>1. PICK T : s \in Seq(T)
  BY CommonSeq
<1> QED
  BY <1>1

\* What a part puts in front of an answer.
PrefixOf(node, part) ==
  CASE part.kind = "itself" -> <<SelfAncestor(node)>>
    [] part.kind = "self type" -> <<>>
    [] OTHER -> Applied(part)
PutInFront(prefix, rest, all) == all = prefix \o rest

\* A call that takes the next part has the paths of one more.
LEMMA PartTaken ==
  ASSUME IsEnvironment(program), NEW node, node.method \in Methods, IsDeclared(node),
         NEW d \in Nat, NEW i \in DOMAIN OneAncestors(node), i = d + 1, NEW s, IsFront(s, node, d),
         NEW part, part = OneAncestors(node)[i],
         part.kind \notin {"itself", "self type"} => Ordered(Callee(part))
  PROVE  \E r : IsFront(r, node, i) /\ PutInFront(PrefixOf(node, part), AncestorsOf(s), AncestorsOf(r))
<1> DEFINE parts == OneAncestors(node)
           prefix == PrefixOf(node, part)
<1>1. InOrder(parts) /\ part.kind \in PartKinds
  BY PartsInOrder DEF InOrder, Values
<1>5. /\ IsEnvironment(program) /\ node.method \in Methods /\ IsDeclared(node)
      /\ d \in Nat /\ i = d + 1 /\ IsFront(s, node, d)
  OBVIOUS
<1>6. \A j \in Counted(node) : j \in Nat
  <2>1. DOMAIN parts = 1..Len(parts)
    BY <1>1, IsSeqBasics DEF InOrder
  <2>2. \A j \in DOMAIN parts : j \in Nat
    BY ONLY <2>1
  <2>3. Counted(node) \subseteq DOMAIN parts
    BY ONLY DEF Counted
  <2> QED
    BY ONLY <2>2, <2>3
<1>2. CASE part.kind = "self type"
  <2>1. PathsAt(node, i) = {}
    BY <1>2 DEF PathsAt
  <2>2. DonePaths(node, i) = DonePaths(node, d)
    BY <2>1, DoneGrows
  <2>3. \A j \in Counted(node) : j <= d => j <= i
    BY ONLY <1>5, <1>6
  <2>4. IsFront(s, node, i)
    BY <2>2, <2>3 DEF IsFront
  <2>5. prefix = <<>>
    BY <1>2 DEF PrefixOf
  <2>6. IsSeq(AncestorsOf(s))
    BY MappedIsSeq DEF IsFront, IsOrderFor, IsOrder, AncestorsOf
  <2>7. AncestorsOf(s) = prefix \o AncestorsOf(s)
    <3> DEFINE a == AncestorsOf(s)
    <3> HIDE DEF a
    <3>1. <<>> \o a = a
      BY <2>6, JoinEmpty DEF a
    <3> QED
      BY <2>5, <3>1 DEF a
  <2> QED
    BY <2>4, <2>7 DEF PutInFront
<1>3. CASE part.kind = "itself"
  <2>1. PathsAt(node, i) = {SelfPath(node)} /\ PlaceOf(node, i) = 0 /\ prefix = <<SelfAncestor(node)>>
    BY <1>3 DEF PathsAt, PlaceOf, PrefixOf
  <2>2. i \in Counted(node)
    BY <1>3 DEF Counted
  <2> DEFINE t == <<SelfPath(node)>>
  <2>3. /\ IsOrderFor(t, node, {SelfPath(node)})
        /\ AncestorsOf(t) = <<SelfAncestor(node)>>
        /\ PlaceAt(SelfPath(node), 1) = 0
    BY SelfInOrder
  <2> HIDE DEF t
  <2>4. \A p \in Values(t) : PlaceAt(p, 1) = PlaceOf(node, i)
    BY <2>1, <2>3 DEF IsOrderFor
  <2>5. IsOrderFor(t, node, PathsAt(node, i))
    BY <2>1, <2>3
  <2>6. IsFront(t \o s, node, i) /\ AncestorsOf(t \o s) = AncestorsOf(t) \o AncestorsOf(s)
    BY ONLY <1>5, <2>2, <2>4, <2>5, FrontGrows
  <2> QED
    BY <2>1, <2>3, <2>6 DEF PutInFront
<1>4. CASE part.kind \notin {"itself", "self type"}
  <2> DEFINE place == Place(parts, i)
             c == Callee(part)
  <2>1. i \in Counted(node) /\ i \in Taken(node) /\ PlaceOf(node, i) = place
    BY <1>4 DEF Counted, Taken, TakenOf, PlaceOf
  <2>2. place \in Int /\ place # 0
    BY <1>4, <2>1, PlacesDescend
  <2>3. PICK u : IsOrderFor(u, c, Paths(c)) /\ Cached(c) = AncestorsOf(u)
    BY <1>4 DEF Ordered
  <2> HIDE DEF place
  <2> DEFINE t == [k \in DOMAIN u |-> Along(part, place, u[k])]
  <2>4. /\ IsOrder(t) /\ Values(t) = {Along(part, place, p) : p \in Paths(c)}
        /\ AncestorsOf(t) = Applied(part)
        /\ \A p \in Values(t) : PlaceAt(p, 1) = place
        /\ part.method # "singleton_ancestors" =>
              \A p \in Values(t) : p.places # <<>> /\ p.ancestor.source # NoSource
    <3>1. t = [k \in DOMAIN u |-> Along(part, place, u[k])]
      OBVIOUS
    <3>2. IsOrderFor(u, Callee(part), Paths(c)) /\ Cached(Callee(part)) = AncestorsOf(u)
      BY <2>3
    <3> HIDE DEF t, c
    <3> QED
      BY ONLY <1>1, <2>2, <3>1, <3>2, BlockInOrder
  <2>5. PathsAt(node, i) = PathsVia(node, i, AllPaths)
    BY <1>4 DEF PathsAt
  <2>6. PathsAt(node, i) = {Along(part, place, p) : p \in Paths(c)}
    BY <2>5 DEF PathsVia, BegunWith, Paths, place
  <2>7. node.method # "singleton_ancestors" => part.method # "singleton_ancestors"
    <3>1. Leads(node)
      BY PartsLead
    <3>2. part \in PartsOf(node)
      BY <1>4 DEF PartsOf, Values
    <3> QED
      BY <3>1, <3>2 DEF Leads
  <2> HIDE DEF t, c
  <2>8. IsOrderFor(t, node, PathsAt(node, i))
    BY <2>4, <2>6, <2>7 DEF IsOrderFor, EndsRight
  <2>9. \A p \in Values(t) : PlaceAt(p, 1) = PlaceOf(node, i)
    BY <2>1, <2>4
  <2>10. IsFront(t \o s, node, i) /\ AncestorsOf(t \o s) = AncestorsOf(t) \o AncestorsOf(s)
    BY ONLY <1>5, <2>1, <2>8, <2>9, FrontGrows
  <2>11. prefix = Applied(part)
    BY <1>4 DEF PrefixOf
  <2> QED
    BY <2>4, <2>10, <2>11 DEF PutInFront
<1> QED
  BY <1>2, <1>3, <1>4

\* What is in order is its own sorting.
LEMMA OrderedIsLinear ==
  ASSUME NEW node, Ordered(node)
  PROVE  Cached(node) = Linearization(node)
<1>1. PICK s : IsOrderFor(s, node, Paths(node)) /\ Cached(node) = AncestorsOf(s)
  BY DEF Ordered
<1>2. IsOrder(s) /\ Values(s) = Paths(node)
  BY <1>1 DEF IsOrderFor
<1> QED
  BY <1>1, <1>2, SortedIsOrder DEF Linearization

-----------------------------------------------------------------------------
(* The invariant of the order.                                             *)

\* A running call has some of its parts still to do, and of the first ones it has the paths.
FrameOrdered(frame) ==
  \E d \in 0..Len(OneAncestors(frame.node)) : \E s :
     /\ Len(frame.todo) = Len(OneAncestors(frame.node)) - d
     /\ \A i \in DOMAIN frame.todo : frame.todo[i] = OneAncestors(frame.node)[d + i]
     /\ IsFront(s, frame.node, d) /\ frame.ancestors = AncestorsOf(s)

\* What has an answer is above what has had one earlier.
RanksOK ==
  \E rank : IsRanking(rank, Answered) /\ \A x \in Answered : rank[x] < Cardinality(Answered)
CachesOrdered == \A x \in Answered : Ordered(x)
FramesOrdered == \A i \in DOMAIN stack : FrameOrdered(stack[i])
AnswerOrdered ==
  answer # None /\ answer.request.op \in Methods /\ answer.result.is = "value" =>
    answer.result.value = Linearization(Node0)

Orderly == RanksOK /\ CachesOrdered /\ FramesOrdered /\ AnswerOrdered

LEMMA SameFronts ==
  ASSUME program' = program
  PROVE  /\ \A s, node, d : IsFront(s, node, d)' <=> IsFront(s, node, d)
         /\ \A frame : FrameOrdered(frame)' <=> FrameOrdered(frame)
         /\ \A node : Linearization(node)' = Linearization(node)
         /\ \A rank, A : IsRanking(rank, A)' <=> IsRanking(rank, A)
<1>1. /\ \A node : OneAncestors(node)' = OneAncestors(node)
      /\ \A node : Taken(node)' = Taken(node) /\ SelfPath(node)' = SelfPath(node)
      /\ \A node, i, further : PathsVia(node, i, further)' = PathsVia(node, i, further)
      /\ AllPaths' = AllPaths /\ \A node : Paths(node)' = Paths(node)
  BY SameParts, SameBegun, SamePaths
<1>2. \A node, i : PathsAt(node, i)' = PathsAt(node, i)
  <2> TAKE node, i
  <2> DEFINE via == PathsVia(node, i, AllPaths)
             parts == OneAncestors(node)
  <2>1. via' = via
    BY <1>1
  <2>2. parts' = parts
    BY <1>1
  <2>3. PathsAt(node, i) = CASE parts[i].kind = "itself" -> {SelfPath(node)}
                             [] parts[i].kind = "self type" -> {}
                             [] OTHER -> via
    BY DEF PathsAt
  <2>4. PathsAt(node, i)' = CASE parts'[i].kind = "itself" -> {SelfPath(node)'}
                              [] parts'[i].kind = "self type" -> {}
                              [] OTHER -> via'
    BY DEF PathsAt
  <2> HIDE DEF via, parts
  <2> QED
    BY <1>1, <2>1, <2>2, <2>3, <2>4
<1>3. \A node, d : DonePaths(node, d)' = DonePaths(node, d)
  BY <1>2 DEF DonePaths
<1>4. \A node : Counted(node)' = Counted(node) /\ \A i : PlaceOf(node, i)' = PlaceOf(node, i)
  BY <1>1 DEF Counted, PlaceOf
<1>5. \A s, node, d : IsFront(s, node, d)' <=> IsFront(s, node, d)
  BY <1>3, <1>4 DEF IsFront
<1>6. \A frame : FrameOrdered(frame)' <=> FrameOrdered(frame)
  BY <1>1, <1>5 DEF FrameOrdered
<1>7. \A node : Linearization(node)' = Linearization(node)
  BY <1>1 DEF Linearization
<1>8. \A rank, A : IsRanking(rank, A)' <=> IsRanking(rank, A)
  BY <1>1, SameDeclared DEF IsRanking, CalleeAt
<1> QED
  BY <1>5, <1>6, <1>7, <1>8

LEMMA OrderStays ==
  ASSUME Orderly, program' = program, caches' = caches
  PROVE  RanksOK' /\ CachesOrdered'
<1>1. Answered' = Answered
  BY SameDeclared DEF Answered, IsCached
<1>2. \A node : Ordered(node)' <=> Ordered(node)
  BY SamePaths DEF Ordered, Cached
<1>3. CachesOrdered'
  BY <1>1, <1>2 DEF Orderly, CachesOrdered
<1>4. RanksOK'
  BY <1>1, SameFronts DEF Orderly, RanksOK
<1> QED
  BY <1>3, <1>4

LEMMA AnswerOrderedStays ==
  ASSUME Orderly, program' = program, answer' = answer
  PROVE  AnswerOrdered'
<1>1. Node0' = Node0
  BY DEF Node0
<1>2. \A node : Linearization(node)' = Linearization(node)
  BY SameFronts
<1> QED
  BY <1>1, <1>2 DEF Orderly, AnswerOrdered

-----------------------------------------------------------------------------
(* What the steps of the builder do to the order.                          *)

LEMMA RaiseOrders ==
  ASSUME Orderly, NEW error, Raise(error), UNCHANGED <<resolverVars, requests, answer>>
  PROVE  Orderly'
<1>1. program' = program /\ caches' = caches /\ answer' = answer /\ stack' = <<>>
  BY DEF Raise
<1>2. FramesOrdered'
  BY <1>1, IsSeqEmpty DEF FramesOrdered
<1> QED
  BY <1>1, <1>2, OrderStays, AnswerOrderedStays DEF Orderly

\* A call has nothing when it begins.
LEMMA CallIsOrdered ==
  ASSUME ProgramOK, NEW node, node.method \in Methods, IsDeclared(node),
         NEW frame, frame = [node |-> node, todo |-> OneAncestors(node), ancestors |-> <<>>]
  PROVE  FrameOrdered(frame)
<1> DEFINE parts == OneAncestors(node)
           n == Len(parts)
<1>1. frame.node = node /\ frame.todo = parts /\ frame.ancestors = <<>>
  OBVIOUS
<1>2. n \in Nat /\ DOMAIN parts = 1..n
  BY PartsLead, IsSeqBasics DEF Leads, ProgramOK
<1>3. IsFront(<<>>, node, 0) /\ AncestorsOf(<<>>) = <<>>
  BY NothingInOrder
<1> HIDE DEF parts, n
<1>4. 0 \in 0..n /\ n = n - 0 /\ \A i \in 1..n : 0 + i = i
  BY <1>2
<1>5. Len(frame.todo) = n - 0 /\ \A i \in DOMAIN frame.todo : frame.todo[i] = parts[0 + i]
  BY <1>1, <1>2, <1>4 DEF n
<1> QED
  BY <1>1, <1>3, <1>4, <1>5 DEF FrameOrdered, parts, n

LEMMA EnterOrders ==
  ASSUME IInv, Orderly, NEW node, node.method \in Methods, NEW inUse, Enter(node, inUse),
         UNCHANGED <<resolverVars, requests, answer>>
  PROVE  Orderly'
<1> DEFINE frame == [node |-> node, todo |-> OneAncestors(node), ancestors |-> <<>>]
<1>1. CASE \E error : Raise(error)
  BY <1>1, RaiseOrders
<1>2. CASE /\ IsDeclared(node) /\ stack' = Append(stack, frame)
           /\ UNCHANGED <<program, caches, goal, failure>>
  <2>1. program' = program /\ caches' = caches /\ answer' = answer
    BY <1>2
  <2>2. FrameOrdered(frame)
    BY <1>2, CallIsOrdered DEF IInv
  <2>3. stack' = Append(stack, frame) /\ IsSeq(stack)
    BY <1>2 DEF IInv, ChainOK
  <2> HIDE DEF frame
  <2>4. /\ DOMAIN stack' = DOMAIN stack \cup {Len(stack) + 1}
        /\ \A i \in DOMAIN stack : stack'[i] = stack[i]
        /\ stack'[Len(stack) + 1] = frame
    BY <2>3, IsSeqAppend
  <2>5. \A i \in DOMAIN stack' : FrameOrdered(stack'[i])
    BY <2>2, <2>4 DEF Orderly, FramesOrdered
  <2>6. FramesOrdered'
    BY <2>1, <2>5, SameFronts DEF FramesOrdered
  <2> QED
    BY <2>1, <2>6, OrderStays, AnswerOrderedStays DEF Orderly
<1> QED
  BY <1>1, <1>2 DEF Enter

\* The call that takes its next part, whose answer is in order.
LEMMA PartIsOrdered ==
  ASSUME IInv, Orderly, stack # <<>>, Top.todo # <<>>, Part1.kind # "itself" => IsCached(Callee(Part1)),
         NEW frame, frame = [Top EXCEPT !.ancestors = Prefix \o @, !.todo = Tail(@)]
  PROVE  FrameOrdered(frame)
<1>1. FrameOK(Top) /\ FrameOrdered(Top)
  BY IsSeqLast DEF IInv, ChainOK, FramesOK, Orderly, FramesOrdered, Top
<1> DEFINE node == Top.node
           parts == OneAncestors(node)
           n == Len(parts)
           todo == Top.todo
<1>2. DOMAIN Top = {"node", "todo", "ancestors"} /\ IsSeq(todo) /\ todo # <<>>
  BY <1>1 DEF FrameOK
<1>3. frame.node = node /\ frame.todo = Tail(todo) /\ frame.ancestors = Prefix \o Top.ancestors
  BY <1>2
<1>4. node.method \in Methods /\ IsDeclared(node)
  BY <1>1, DeclaredNodes DEF FrameOK
<1>5. n \in Nat /\ DOMAIN parts = 1..n
  BY <1>4, PartsLead, IsSeqBasics DEF Leads, IInv, ProgramOK
<1>taken. PICK d \in 0..n : \E s :
             /\ Len(todo) = n - d
             /\ \A i \in DOMAIN todo : todo[i] = parts[d + i]
             /\ IsFront(s, node, d) /\ Top.ancestors = AncestorsOf(s)
  BY <1>1 DEF FrameOrdered
<1>6. PICK s :
         /\ Len(todo) = n - d
         /\ \A i \in DOMAIN todo : todo[i] = parts[d + i]
         /\ IsFront(s, node, d) /\ Top.ancestors = AncestorsOf(s)
  BY <1>taken
<1>7. /\ Len(todo) > 0 /\ 1 \in DOMAIN todo /\ Part1 = todo[1]
      /\ IsSeq(Tail(todo)) /\ Len(Tail(todo)) = Len(todo) - 1
      /\ \A i \in DOMAIN Tail(todo) : i + 1 \in DOMAIN todo /\ Tail(todo)[i] = todo[i + 1]
  BY <1>2, IsSeqTail DEF Part1
<1>8. Part1.kind # "itself" => Part1.method \in Methods
  <2>1. Leads(node)
    BY <1>4, PartsLead DEF IInv, ProgramOK
  <2>2. Part1 \in Values(parts)
    BY <1>1, <1>7 DEF FrameOK, Values
  <2> QED
    BY <2>1, <2>2 DEF Leads, PartsOf
<1>9. Prefix = PrefixOf(node, Part1)
  BY DEF Prefix, PrefixOf
<1> HIDE DEF n, node, parts, todo
<1>10. d \in Nat /\ d + 1 \in 1..n /\ n - (d + 1) = (n - d) - 1
  BY <1>5, <1>6, <1>7
<1>11. Part1 = parts[d + 1] /\ d + 1 \in DOMAIN parts
  BY <1>5, <1>6, <1>7, <1>10
<1>12. Part1.kind \notin {"itself", "self type"} => Ordered(Callee(Part1))
  <2>1. Part1.kind # "itself" => Callee(Part1) \in Answered
    <3>1. Callee(Part1) = Node(Callee(Part1).method, Callee(Part1).name) /\ Callee(Part1).method = Part1.method
      BY DEF Callee, Node
    <3> QED
      BY <1>8, <3>1, AnsweredIsCached DEF IInv
  <2> QED
    BY <2>1 DEF Orderly, CachesOrdered
<1>13. PICK r : IsFront(r, node, d + 1) /\ AncestorsOf(r) = Prefix \o AncestorsOf(s)
  <2>1. IsEnvironment(program) /\ IsFront(s, node, d)
    BY <1>6 DEF IInv, ProgramOK
  <2>2. PICK i : i = d + 1
    OBVIOUS
  <2>3. Part1 = OneAncestors(node)[i] /\ i \in DOMAIN OneAncestors(node)
    BY <1>11, <2>2 DEF parts
  <2>4. \E r : IsFront(r, node, i) /\ PutInFront(PrefixOf(node, Part1), AncestorsOf(s), AncestorsOf(r))
    BY ONLY <1>4, <1>10, <1>12, <2>1, <2>2, <2>3, PartTaken
  <2> QED
    BY ONLY <1>9, <2>2, <2>4 DEF PutInFront
<1>14. \A i \in DOMAIN Tail(todo) : Tail(todo)[i] = parts[(d + 1) + i]
  <2> TAKE i \in DOMAIN Tail(todo)
  <2>1. i \in Nat
    BY <1>7, IsSeqBasics
  <2>2. d + (i + 1) = (d + 1) + i
    BY <1>10, <2>1
  <2> QED
    BY <1>6, <1>7, <2>2
<1>15. Len(Tail(todo)) = n - (d + 1)
  BY <1>6, <1>7, <1>10
<1>16. d + 1 \in 0..n
  BY <1>10
<1>17. /\ Len(frame.todo) = n - (d + 1)
       /\ \A i \in DOMAIN frame.todo : frame.todo[i] = parts[(d + 1) + i]
       /\ IsFront(r, frame.node, d + 1) /\ frame.ancestors = AncestorsOf(r)
  BY <1>3, <1>6, <1>13, <1>14, <1>15
<1> QED
  BY <1>3, <1>16, <1>17 DEF FrameOrdered, n, parts

LEMMA TakePartOrders ==
  ASSUME IInv, Orderly, TakePart, UNCHANGED <<resolverVars, requests, answer>>
  PROVE  Orderly'
<1>1. CASE Raise("InvalidTypeApplicationError")
  BY <1>1, RaiseOrders
<1>2. CASE ~(IsApplied /\ ~Applies(ParamsOf(Part1.name), Part1.args))
  <2> DEFINE frame == [Top EXCEPT !.ancestors = Prefix \o @, !.todo = Tail(@)]
             n == Len(stack)
  <2>1. /\ stack # <<>> /\ Top.todo # <<>> /\ (Part1.kind # "itself" => IsCached(Callee(Part1)))
        /\ stack' = [stack EXCEPT ![n] = frame]
        /\ program' = program /\ caches' = caches /\ answer' = answer
    BY <1>2 DEF TakePart
  <2>2. FrameOrdered(frame)
    BY <2>1, PartIsOrdered
  <2> HIDE DEF frame
  <2>3. n \in DOMAIN stack
    BY <2>1, IsSeqLast DEF IInv, ChainOK
  <2>4. DOMAIN stack' = DOMAIN stack /\ stack'[n] = frame /\ \A i \in DOMAIN stack : i # n => stack'[i] = stack[i]
    BY <2>1, <2>3
  <2>5. \A i \in DOMAIN stack' : FrameOrdered(stack'[i])
    BY <2>2, <2>4 DEF Orderly, FramesOrdered
  <2>6. FramesOrdered'
    BY <2>1, <2>5, SameFronts DEF FramesOrdered
  <2> QED
    BY <2>1, <2>6, OrderStays, AnswerOrderedStays DEF Orderly
<1> QED
  BY <1>1, <1>2 DEF TakePart

\* The node of a call that has done all its parts is ranked above what has an answer.
LEMMA DoneIsRanked ==
  ASSUME ProgramOK, RanksOK, NEW node \in Declared \ Answered, IsSound(node), Parents(node) \subseteq Answered
  PROVE  \E rank : /\ IsRanking(rank, Answered \cup {node})
                   /\ \A x \in Answered \cup {node} : rank[x] < Cardinality(Answered \cup {node})
<1> DEFINE n == Cardinality(Answered)
           A == Answered \cup {node}
<1>1. PICK rank : IsRanking(rank, Answered) /\ \A x \in Answered : rank[x] < n
  BY DEF RanksOK
<1>2. Answered \subseteq Declared /\ A \subseteq Declared
  BY DEF Answered
<1>3. /\ rank \in [Answered -> Nat]
      /\ \A x \in Answered : /\ rank[x] < StackLimit
                             /\ \A i \in Taken(x) : CalleeAt(x, i) \in Answered /\ rank[CalleeAt(x, i)] < rank[x]
  BY <1>1 DEF IsRanking
<1>4. n \in Nat /\ n < StackLimit /\ Cardinality(A) = n + 1
  <2>1. IsFiniteSet(Declared) /\ Cardinality(Declared) < StackLimit
    BY DeclaredIsSmall
  <2>2. IsFiniteSet(Answered) /\ n \in Nat /\ n <= Cardinality(Declared) /\ Cardinality(Declared) \in Nat
    BY <1>2, <2>1, FS_Subset, FS_CardinalityType
  <2>3. Cardinality(A) = n + 1
    BY <2>2, FS_AddElement
  <2> HIDE DEF n
  <2> QED
    BY <2>1, <2>2, <2>3, StackAssumption
<1>5. \A i \in Taken(node) : CalleeAt(node, i) \in Answered
  <2> TAKE i \in Taken(node)
  <2> DEFINE part == OneAncestors(node)[i]
  <2>1. part \in PartsOf(node)
    BY DEF Taken, TakenOf, PartsOf, Values
  <2>2. Callee(part) \in Parents(node)
    BY <2>1 DEF Parents
  <2> QED
    BY <2>2 DEF CalleeAt
<1> DEFINE new == [x \in A |-> IF x = node THEN n ELSE rank[x]]
<1>6. new[node] = n /\ \A x \in Answered : new[x] = rank[x]
  OBVIOUS
<1> HIDE DEF n
<1>7. new \in [A -> Nat]
  BY <1>3, <1>4
<1> HIDE DEF new
<1>8. \A x \in A : new[x] < n + 1 /\ new[x] < StackLimit
  BY <1>1, <1>3, <1>4, <1>6, <1>7, StackAssumption
<1>9. ASSUME NEW x \in A, NEW i \in Taken(x)
      PROVE  CalleeAt(x, i) \in A /\ new[CalleeAt(x, i)] < new[x]
  <2>1. CASE x = node
    BY <1>1, <1>5, <1>6, <2>1
  <2>2. CASE x # node
    BY <1>3, <1>6, <2>2
  <2> QED
    BY <2>1, <2>2
<1>10. IsRanking(new, A)
  BY <1>2, <1>7, <1>8, <1>9 DEF IsRanking
<1> QED
  BY <1>4, <1>8, <1>10

LEMMA ReturnOrders ==
  ASSUME IInv, Orderly, Return, UNCHANGED <<resolverVars, requests, answer>>
  PROVE  Orderly'
<1>1. /\ stack # <<>> /\ Top.todo = <<>> /\ stack' = Shorter(stack)
      /\ program' = program /\ answer' = answer
  BY DEF Return
<1>2. IsSeq(stack) /\ Len(stack) \in DOMAIN stack /\ FrameOK(Top) /\ FrameOrdered(Top)
  BY <1>1, IsSeqLast DEF IInv, ChainOK, FramesOK, Orderly, FramesOrdered, Top
<1>3. PICK node : node = Top.node
  OBVIOUS
<1>4. /\ node \in Declared \ Answered /\ IsSound(node) /\ Parents(node) \subseteq Answered
  BY <1>1, <1>2, <1>3, DoneIsSettled
<1>5. node.method \in Methods /\ node = Node(node.method, node.name) /\ IsDeclared(node)
  BY <1>4, DeclaredNodes
<1>6. Answered' = Answered \cup {node}
  BY <1>3, <1>4, ReturnAnswers
<1>7. PICK rank : /\ IsRanking(rank, Answered \cup {node})
                  /\ \A x \in Answered \cup {node} : rank[x] < Cardinality(Answered \cup {node})
  BY <1>4, DoneIsRanked DEF IInv, Orderly
<1>8. RanksOK'
  BY <1>1, <1>6, <1>7, SameFronts DEF RanksOK
<1>9. PICK s : IsOrderFor(s, node, Paths(node)) /\ Top.ancestors = AncestorsOf(s)
  <2> DEFINE n == Len(OneAncestors(node))
  <2>taken. PICK d \in 0..n : \E s :
               /\ Len(Top.todo) = n - d
               /\ IsFront(s, node, d) /\ Top.ancestors = AncestorsOf(s)
    BY <1>2, <1>3 DEF FrameOrdered
  <2>1. PICK s :
           /\ Len(Top.todo) = n - d
           /\ IsFront(s, node, d) /\ Top.ancestors = AncestorsOf(s)
    BY <2>taken
  <2>2. Len(Top.todo) = 0
    BY <1>1
  <2>3. n \in Nat
    BY <1>5, PartsLead, IsSeqBasics DEF Leads, IInv, ProgramOK
  <2>4. d = n
    <3> HIDE DEF n
    <3> QED
      BY <2>1, <2>2, <2>3
  <2>5. DonePaths(node, n) = Begun(node, AllPaths)
    BY <1>5, AllAreDone DEF IInv, ProgramOK
  <2>6. Paths(node) = Begun(node, AllPaths)
    BY <1>7, PathsBegin
  <2> QED
    BY <2>1, <2>4, <2>5, <2>6 DEF IsFront
<1>10. Cached(node)' = Top.ancestors
  <2>1. caches' = [caches EXCEPT ![node.method] =
                      [n \in DOMAIN @ \cup {node.name} |-> IF n = node.name THEN Top.ancestors ELSE @[n]]]
    BY <1>3 DEF Return
  <2>2. DOMAIN caches = Methods
    BY DEF IInv, TablesOK
  <2> QED
    BY <1>5, <2>1, <2>2 DEF Cached
<1>11. ASSUME NEW x \in Answered
       PROVE  Cached(x)' = Cached(x)
  <2>1. caches' = [caches EXCEPT ![node.method] =
                      [n \in DOMAIN @ \cup {node.name} |-> IF n = node.name THEN Top.ancestors ELSE @[n]]]
    BY <1>3 DEF Return
  <2>2. DOMAIN caches = Methods
    BY DEF IInv, TablesOK
  <2>3. x.method \in Methods /\ x = Node(x.method, x.name) /\ x # node /\ x.name \in DOMAIN caches[x.method]
    BY <1>4, DeclaredNodes DEF Answered, IsCached
  <2>4. x.method # node.method \/ x.name # node.name
    BY <1>5, <2>3
  <2> QED
    BY <1>5, <2>1, <2>2, <2>3, <2>4 DEF Cached
<1>12. CachesOrdered'
  <2>1. \A x : Paths(x)' = Paths(x)
    BY <1>1, SamePaths
  <2>2. Ordered(node)'
    BY <1>9, <1>10, <2>1 DEF Ordered
  <2>3. \A x \in Answered : Ordered(x)'
    BY <1>11, <2>1 DEF Orderly, CachesOrdered, Ordered
  <2> QED
    BY <1>6, <2>2, <2>3 DEF CachesOrdered
<1>13. FramesOrdered'
  <2>1. \A i \in DOMAIN Shorter(stack) : i \in DOMAIN stack /\ Shorter(stack)[i] = stack[i]
    BY <1>1, <1>2, IsSeqLast
  <2>2. \A i \in DOMAIN stack' : FrameOrdered(stack'[i])
    BY <1>1, <2>1 DEF Orderly, FramesOrdered
  <2> QED
    BY <1>1, <2>2, SameFronts DEF FramesOrdered
<1>14. AnswerOrdered'
  BY <1>1, AnswerOrderedStays
<1> QED
  BY <1>8, <1>12, <1>13, <1>14 DEF Orderly

LEMMA EnterStepsOrder ==
  ASSUME IInv, Orderly, EnterGoal \/ EnterPart, UNCHANGED <<resolverVars, requests, answer>>
  PROVE  Orderly'
<1>1. CASE EnterGoal
  <2>1. goal.method \in Methods /\ \E inUse : Enter(goal, inUse)
    BY <1>1 DEF EnterGoal, Working, IInv, AskedOK
  <2> QED
    BY <2>1, EnterOrders
<1>2. CASE EnterPart
  <2>1. /\ stack # <<>> /\ Top.todo # <<>> /\ Part1.kind # "itself" /\ Enter(Callee(Part1), Passed)
    BY <1>2 DEF EnterPart
  <2>2. FrameOK(Top) /\ Awaits(Top, Callee(Part1))
    BY <2>1, IsSeqLast DEF IInv, ChainOK, FramesOK, Top, Awaits, Part1
  <2>3. Part1 \in PartsOf(Top.node)
    BY <2>2, AwaitedIsParent DEF Part1
  <2>4. Callee(Part1).method \in Methods
    <3>1. Leads(Top.node)
      BY <2>2, DeclaredNodes, PartsLead DEF FrameOK, IInv, ProgramOK
    <3> QED
      BY <2>3, <3>1 DEF Leads, Callee, Node
  <2> QED
    BY <2>1, <2>4, EnterOrders
<1> QED
  BY <1>1, <1>2

-----------------------------------------------------------------------------
(* What the other steps do to it.                                          *)

\* Nothing but the answer is new.
LEMMA OrderUnchanged ==
  ASSUME Orderly, program' = program, caches' = caches, stack' = stack, AnswerOrdered'
  PROVE  Orderly'
<1>1. FramesOrdered'
  BY SameFronts DEF Orderly, FramesOrdered
<1> QED
  BY <1>1, OrderStays DEF Orderly

LEMMA AskOrders ==
  ASSUME Orderly, \E node : AskBuilder(node)
  PROVE  Orderly'
<1>1. program' = program /\ caches' = caches /\ stack' = stack /\ answer' = answer
  BY DEF AskBuilder
<1> QED
  BY <1>1, AnswerOrderedStays, OrderUnchanged

LEMMA FinishOrders ==
  ASSUME Orderly, NEW result, Finish(result),
         Request.op \in Methods /\ result.is = "value" =>
           result.value = Linearization(Node(Request.op, Request.name))
  PROVE  Orderly'
<1>1. /\ program' = program /\ caches' = caches /\ stack' = stack
      /\ answer' = [request |-> Request, result |-> result]
  BY DEF Finish
<1>2. PICK request : request = Request
  OBVIOUS
<1>3. answer'.request = request /\ answer'.result = result
  BY <1>1, <1>2
<1>4. Node0' = Node(request.op, request.name)
  BY <1>3 DEF Node0
<1>5. Linearization(Node(request.op, request.name))' = Linearization(Node(request.op, request.name))
  BY <1>1, SameFronts
<1>6. AnswerOrdered'
  BY <1>2, <1>3, <1>4, <1>5 DEF AnswerOrdered
<1> QED
  BY <1>1, <1>6, OrderUnchanged

LEMMA RaisedOrOther ==
  ASSUME IInv, Orderly, NEW result, Finish(result), Request.op \notin Methods \/ \E e : result = Raised(e)
  PROVE  Orderly'
<1>1. ~(Request.op \in Methods /\ result.is = "value")
  BY RaisedIsRaised
<1> QED
  BY <1>1, FinishOrders

LEMMA OrderStep ==
  ASSUME IInv, Orderly, [Next]_vars
  PROVE  Orderly'
<1>1. CASE UNCHANGED vars \/ Rest
  <2>1. program' = program /\ caches' = caches /\ stack' = stack /\ answer' = answer
    BY <1>1 DEF Rest, vars, builderVars
  <2> QED
    BY <2>1, AnswerOrderedStays, OrderUnchanged
<1>2. CASE BuilderNext /\ UNCHANGED <<resolverVars, requests, answer>>
  BY <1>2, EnterStepsOrder, TakePartOrders, ReturnOrders DEF BuilderNext
<1>3. CASE AskAncestors \/ AskConstants \/ AskChildren
  BY <1>3, AskOrders DEF AskAncestors, AskConstants, AskChildren
<1>4. CASE AnswerAncestors
  <2>1. /\ Request.op \in Methods /\ goal # NoGoal /\ IsCached(goal) /\ Finish(Answer(Cached(goal)))
    BY <1>4 DEF AnswerAncestors, HasReturned
  <2>2. goal.method \in Methods /\ goal = Node(goal.method, goal.name) /\ goal = Node(Request.op, Request.name)
    BY <2>1, WorksFor DEF IInv, AskedOK
  <2>3. goal \in Answered
    BY <2>1, <2>2, AnsweredIsCached DEF IInv
  <2>4. Cached(goal) = Linearization(goal)
    BY <2>3, OrderedIsLinear DEF Orderly, CachesOrdered
  <2>5. Answer(Cached(goal)).value = Linearization(Node(Request.op, Request.name))
    BY <2>2, <2>4 DEF Answer
  <2> QED
    BY <2>1, <2>5, FinishOrders
<1>5. CASE Reraise
  <2>1. Finish(Raised(failure))
    BY <1>5 DEF Reraise
  <2> QED
    BY <2>1, RaisedOrOther
<1>6. CASE RecallConstants \/ RaiseConstants \/ LoadContextConstants
  <2>1. Request.op \notin Methods
    BY <1>6 DEF RecallConstants, RaiseConstants, LoadContextConstants, IsAsked, Methods
  <2>2. \E result : Finish(result)
    BY <1>6 DEF RecallConstants, RaiseConstants, LoadContextConstants
  <2> QED
    BY <2>1, <2>2, RaisedOrOther
<1>7. CASE RecallChildren \/ LoadChildConstants
  <2>1. Request.op \notin Methods
    BY <1>7 DEF RecallChildren, LoadChildConstants, IsAsked, Methods
  <2>2. \E result : Finish(result)
    BY <1>7 DEF RecallChildren, LoadChildConstants
  <2> QED
    BY <2>1, <2>2, RaisedOrOther
<1>8. CASE AnswerCircular \/ AnswerRegular
  <2>1. Request.op \notin Methods
    BY <1>8 DEF AnswerCircular, AnswerRegular, IsAsked, Methods
  <2>2. \E result : Finish(result)
    BY <1>8 DEF AnswerCircular, AnswerRegular
  <2> QED
    BY <2>1, <2>2, RaisedOrOther
<1> QED
  BY <1>1, <1>2, <1>3, <1>4, <1>5, <1>6, <1>7, <1>8 DEF Next, ResolverNext

LEMMA OrderBegins ==
  ASSUME Init
  PROVE  Orderly
<1>1. IInv /\ caches = [m \in Methods |-> <<>>] /\ stack = <<>> /\ answer = None
  BY InitIsRight DEF Init, ResolverInit, BuilderInit
<1>2. Answered = {}
  <2>1. \A m \in Methods : DOMAIN caches[m] = {}
    BY <1>1, IsSeqEmpty
  <2> QED
    BY <2>1, DeclaredNodes DEF Answered, IsCached
<1>3. RanksOK
  <2> DEFINE rank == [x \in {} |-> 0]
  <2>1. IsRanking(rank, {})
    BY DEF IsRanking
  <2> QED
    BY <1>2, <2>1 DEF RanksOK
<1> QED
  BY <1>1, <1>2, <1>3, IsSeqEmpty DEF Orderly, CachesOrdered, FramesOrdered, AnswerOrdered

\* The answer of the three methods lists the ancestors by the places of their paths: what is
\* prepended, the class itself, what is included, then what the super class has, the last mixin
\* first, each with the arguments of all the steps put in and with the mixin that made it one;
\* and this for any environment, after any calls that returned or raised, out of whatever caches
\* they left (instance_ancestors, singleton_ancestors, interface_ancestors).
THEOREM AncestorsAreOrderedAlways == Spec => []AncestorsAreOrdered
<1>1. Init => IInv /\ Orderly
  BY InitIsRight, OrderBegins
<1>2. IInv /\ Orderly /\ [Next]_vars => (IInv /\ Orderly)'
  BY NextKeeps, OrderStep
<1>3. IInv /\ Orderly => AncestorsAreOrdered
  BY DEF Orderly, AnswerOrdered, AncestorsAreOrdered, IsAncestors, HasValue
<1> QED
  BY <1>1, <1>2, <1>3, PTL DEF Spec

-----------------------------------------------------------------------------
(* Finding constants.                                                      *)

\* The sequences, after one in front of them.
LEMMA ConcatFront ==
  ASSUME NEW S, NEW s \in Seq(S), NEW seqs \in Seq(Seq(S))
  PROVE  Concat(<<s>> \o seqs) = s \o Concat(seqs)
<1> DEFINE Right(t) == Concat(<<s>> \o t) = s \o Concat(t)
           P == {n \in Nat : \A t \in Seq(Seq(S)) : Len(t) = n => Right(t)}
<1>1. 0 \in P
  <2> SUFFICES ASSUME NEW t \in Seq(Seq(S)), Len(t) = 0
               PROVE  Right(t)
    OBVIOUS
  <2>1. t = <<>> /\ <<s>> \o t = Append(<<>>, s) /\ <<>> \in Seq(Seq(S))
    OBVIOUS
  <2>2. Concat(Append(<<>>, s)) = Concat(<<>>) \o s
    BY <2>1, ConcatAppend
  <2>3. Concat(<<>>) = <<>> /\ <<>> \o s = s /\ s \o <<>> = s
    BY ConcatEmpty
  <2> QED
    BY <2>1, <2>2, <2>3
<1>2. ASSUME NEW n \in Nat, \A t \in Seq(Seq(S)) : Len(t) = n => Right(t),
             NEW t \in Seq(Seq(S)), Len(t) = n + 1
      PROVE  Right(t)
  <2> DEFINE front == SubSeq(t, 1, n)
             last == t[n + 1]
  <2>1. front \in Seq(Seq(S)) /\ Len(front) = n /\ last \in Seq(S) /\ t = Append(front, last)
    BY <1>2, FrontAndLast
  <2>2. Right(front)
    BY <1>2, <2>1
  <2> HIDE DEF front, last
  <2>3. <<s>> \in Seq(Seq(S))
    OBVIOUS
  <2>4. <<s>> \o front \in Seq(Seq(S)) /\ <<s>> \o Append(front, last) = Append(<<s>> \o front, last)
    BY <2>1, <2>3
  <2>5. Concat(Append(<<s>> \o front, last)) = Concat(<<s>> \o front) \o last
    BY <2>1, <2>4, ConcatAppend
  <2>6. Concat(Append(front, last)) = Concat(front) \o last /\ Concat(front) \in Seq(S)
    BY <2>1, ConcatAppend, ConcatType
  <2> DEFINE c == Concat(front)
  <2> HIDE DEF c
  <2>7. (s \o c) \o last = s \o (c \o last)
    BY <2>1, <2>6 DEF c
  <2> QED
    BY <2>1, <2>2, <2>4, <2>5, <2>6, <2>7 DEF c
<1> HIDE DEF Right
<1>3. ASSUME NEW n \in Nat, n \in P
      PROVE  n + 1 \in P
  <2>1. \A t \in Seq(Seq(S)) : Len(t) = n => Right(t)
    BY <1>3
  <2>2. \A t \in Seq(Seq(S)) : Len(t) = n + 1 => Right(t)
    BY ONLY <1>2, <1>3, <2>1
  <2>3. n + 1 \in Nat
    OBVIOUS
  <2> QED
    BY ONLY <2>2, <2>3
<1>4. \A n \in P : \A t \in Seq(Seq(S)) : Len(t) = n => Right(t)
  OBVIOUS
<1> HIDE DEF P
<1>5. \A n \in Nat : n \in P
  BY ONLY <1>1, <1>3, SetInduction
<1>6. Len(seqs) \in Nat
  OBVIOUS
<1>7. Right(seqs)
  BY <1>4, <1>5, <1>6
<1> QED
  BY <1>7 DEF Right

\* What a set has under a name, and the first set that has something.
Under(S, x) == CHOOSE n \in S : Simple(n) = x
Knows(S, x) == \E n \in S : Simple(n) = x
FirstToKnow(sets, x, i) ==
  i \in DOMAIN sets /\ Knows(sets[i], x) /\ \A j \in 1..(i - 1) : ~Knows(sets[j], x)

LEMMA FirstExists ==
  ASSUME NEW sets, IsSeq(sets), NEW x, NEW i \in DOMAIN sets, Knows(sets[i], x)
  PROVE  \E k : FirstToKnow(sets, x, k)
<1> DEFINE NoneIn(n) == \A j \in DOMAIN sets : j <= n => ~Knows(sets[j], x)
           P == {n \in Nat : NoneIn(n) \/ \E k : FirstToKnow(sets, x, k)}
<1>1. Len(sets) \in Nat /\ DOMAIN sets = 1..Len(sets)
  BY IsSeqBasics
<1>2. 0 \in P
  BY <1>1
<1>3. ASSUME NEW n \in Nat, n \in P
      PROVE  n + 1 \in P
  <2> SUFFICES ASSUME NoneIn(n), ~NoneIn(n + 1)
               PROVE  \E k : FirstToKnow(sets, x, k)
    BY <1>3
  <2>1. PICK j \in DOMAIN sets : j <= n + 1 /\ Knows(sets[j], x)
    OBVIOUS
  <2>2. ~(j <= n)
    BY <2>1
  <2>3. \A k \in 1..(j - 1) : ~Knows(sets[k], x)
    BY <1>1, <2>1
  <2> QED
    BY <2>1, <2>3 DEF FirstToKnow
<1> HIDE DEF P
<1>4. Len(sets) \in P
  BY <1>1, <1>2, <1>3, SetInduction
<1> QED
  BY <1>1, <1>4 DEF P

\* What FoundIn gives, without the minimum in it.
LEMMA FoundInIs ==
  ASSUME NEW sets, IsSeq(sets)
  PROVE  /\ FoundIn(sets) = [x \in DOMAIN FoundIn(sets) |-> FoundIn(sets)[x]]
         /\ \A x : x \in DOMAIN FoundIn(sets) <=> \E i \in DOMAIN sets : Knows(sets[i], x)
         /\ \A x, i : FirstToKnow(sets, x, i) => FoundIn(sets)[x] = Under(sets[i], x)
<1> DEFINE all == UNION Values(sets)
           names == {Simple(n) : n \in all}
           First(x) == Min({i \in DOMAIN sets : \E n \in sets[i] : Simple(n) = x})
           found == [x \in names |-> CHOOSE n \in sets[First(x)] : Simple(n) = x]
<1>1. FoundIn(sets) = found
  BY DEF FoundIn
<1>2. \A x : x \in names <=> \E i \in DOMAIN sets : Knows(sets[i], x)
  BY DEF Values, Knows
<1>3. ASSUME NEW x, NEW i, FirstToKnow(sets, x, i)
      PROVE  x \in names /\ First(x) = i
  <2> DEFINE D == {j \in DOMAIN sets : \E n \in sets[j] : Simple(n) = x}
  <2>1. i \in DOMAIN sets /\ Knows(sets[i], x) /\ \A j \in 1..(i - 1) : ~Knows(sets[j], x)
    BY <1>3 DEF FirstToKnow
  <2>2. DOMAIN sets = 1..Len(sets) /\ Len(sets) \in Nat
    BY IsSeqBasics
  <2>3. D \subseteq Nat /\ i \in D /\ \A j \in D : j \notin 1..(i - 1) /\ j >= 1
    BY <2>1, <2>2 DEF Knows
  <2>4. \A j \in D : i <= j
    BY <2>3
  <2> HIDE DEF D
  <2>5. \A j \in D : (\A k \in D : j <= k) => j = i
    BY <2>3, <2>4
  <2>6. Min(D) = i
    BY <2>3, <2>4, <2>5 DEF Min
  <2> QED
    BY <1>2, <2>1, <2>6 DEF D
<1> HIDE DEF names, First
<1>4. \A x, i : FirstToKnow(sets, x, i) => found[x] = Under(sets[i], x)
  BY <1>3 DEF Under
<1> QED
  BY <1>1, <1>2, <1>4

LEMMA MergedIs ==
  ASSUME NEW f, NEW g
  PROVE  /\ DOMAIN Merged(f, g) = DOMAIN f \cup DOMAIN g
         /\ Merged(f, g) = [x \in DOMAIN f \cup DOMAIN g |-> Merged(f, g)[x]]
         /\ \A x \in DOMAIN f \cup DOMAIN g : Merged(f, g)[x] = IF x \in DOMAIN g THEN g[x] ELSE f[x]
  BY DEF Merged

\* Merging again what is in front changes nothing.
LEMMA MergedTwice ==
  ASSUME NEW f, NEW g
  PROVE  Merged(Merged(f, g), g) = Merged(f, g)
<1> DEFINE m == Merged(f, g)
           h == Merged(m, g)
           D == DOMAIN f \cup DOMAIN g
<1>1. /\ DOMAIN m = D /\ m = [x \in D |-> m[x]]
      /\ \A x \in D : m[x] = IF x \in DOMAIN g THEN g[x] ELSE f[x]
  BY MergedIs
<1>2. /\ h = [x \in DOMAIN m \cup DOMAIN g |-> h[x]]
      /\ \A x \in DOMAIN m \cup DOMAIN g : h[x] = IF x \in DOMAIN g THEN g[x] ELSE m[x]
  BY MergedIs
<1> HIDE DEF m, h
<1>3. DOMAIN m \cup DOMAIN g = D /\ \A x \in D : h[x] = m[x]
  BY <1>1, <1>2
<1> QED
  BY <1>1, <1>2, <1>3 DEF m, h

\* What sets have that are in front of others is merged over what those have.
LEMMA FoundInFront ==
  ASSUME NEW a, IsSeq(a), NEW b, IsSeq(b)
  PROVE  FoundIn(a \o b) = Merged(FoundIn(b), FoundIn(a))
<1> DEFINE r == a \o b
           f == FoundIn(a)
           g == FoundIn(b)
           h == FoundIn(r)
           m == Merged(g, f)
<1>1. IsJoin(r, a, b)
  BY IsSeqJoin
<1> HIDE DEF r
<1>2. /\ Len(a) \in Nat /\ DOMAIN a = 1..Len(a) /\ Len(b) \in Nat /\ DOMAIN b = 1..Len(b)
      /\ IsSeq(r) /\ DOMAIN r = 1..(Len(a) + Len(b))
      /\ \A i \in 1..Len(a) : r[i] = a[i]
      /\ \A i \in 1..Len(b) : r[Len(a) + i] = b[i]
  BY <1>1, IsSeqBasics DEF IsJoin
<1>3. /\ f = [x \in DOMAIN f |-> f[x]] /\ \A x : x \in DOMAIN f <=> \E i \in DOMAIN a : Knows(a[i], x)
      /\ \A x, i : FirstToKnow(a, x, i) => f[x] = Under(a[i], x)
  BY FoundInIs
<1>4. /\ g = [x \in DOMAIN g |-> g[x]] /\ \A x : x \in DOMAIN g <=> \E i \in DOMAIN b : Knows(b[i], x)
      /\ \A x, i : FirstToKnow(b, x, i) => g[x] = Under(b[i], x)
  BY FoundInIs
<1>5. /\ h = [x \in DOMAIN h |-> h[x]] /\ \A x : x \in DOMAIN h <=> \E i \in DOMAIN r : Knows(r[i], x)
      /\ \A x, i : FirstToKnow(r, x, i) => h[x] = Under(r[i], x)
  BY <1>2, FoundInIs
<1>6. /\ m = [x \in DOMAIN g \cup DOMAIN f |-> m[x]]
      /\ \A x \in DOMAIN g \cup DOMAIN f : m[x] = IF x \in DOMAIN f THEN f[x] ELSE g[x]
  BY MergedIs
<1> HIDE DEF f, g, h, m
<1>7. \A i : i \in DOMAIN r <=> i \in DOMAIN a \/ (i - Len(a) \in DOMAIN b /\ i \in Nat)
  BY <1>2
<1>8. DOMAIN h = DOMAIN g \cup DOMAIN f
  <2>1. ASSUME NEW x, x \in DOMAIN h
        PROVE  x \in DOMAIN g \cup DOMAIN f
    <3>1. PICK i \in DOMAIN r : Knows(r[i], x)
      BY <1>5, <2>1
    <3>2. CASE i \in DOMAIN a
      BY <1>2, <1>3, <3>1, <3>2
    <3>3. CASE i - Len(a) \in DOMAIN b
      <4>1. Len(a) + (i - Len(a)) = i
        BY <1>2
      <4>2. r[i] = b[i - Len(a)]
        BY <1>2, <3>3, <4>1
      <4> QED
        BY <1>4, <3>1, <3>3, <4>2
    <3> QED
      BY <1>7, <3>2, <3>3
  <2>2. ASSUME NEW x, x \in DOMAIN f
        PROVE  x \in DOMAIN h
    <3>1. PICK i \in DOMAIN a : Knows(a[i], x)
      BY <1>3, <2>2
    <3> QED
      BY <1>2, <1>5, <1>7, <3>1
  <2>3. ASSUME NEW x, x \in DOMAIN g
        PROVE  x \in DOMAIN h
    <3>1. PICK i \in DOMAIN b : Knows(b[i], x)
      BY <1>4, <2>3
    <3>2. Len(a) + i \in DOMAIN r /\ r[Len(a) + i] = b[i]
      BY <1>2
    <3> QED
      BY <1>5, <3>1, <3>2
  <2> QED
    BY <2>1, <2>2, <2>3
<1>9. ASSUME NEW x \in DOMAIN h
      PROVE  h[x] = m[x]
  <2>1. CASE x \in DOMAIN f
    <3>1. PICK k : FirstToKnow(a, x, k)
      BY <1>3, <2>1, FirstExists
    <3>2. /\ k \in 1..Len(a) /\ r[k] = a[k] /\ k \in DOMAIN r
          /\ \A j \in 1..(k - 1) : j \in 1..Len(a) /\ r[j] = a[j]
      BY <1>2, <1>7, <3>1 DEF FirstToKnow
    <3>3. FirstToKnow(r, x, k)
      BY <3>1, <3>2 DEF FirstToKnow
    <3>4. f[x] = Under(a[k], x) /\ h[x] = Under(r[k], x)
      BY ONLY <1>3, <1>5, <3>1, <3>3
    <3>5. m[x] = f[x]
      BY ONLY <1>6, <2>1
    <3> QED
      BY ONLY <3>2, <3>4, <3>5
  <2>2. CASE x \notin DOMAIN f
    <3>1. x \in DOMAIN g
      BY <1>8, <2>2
    <3>2. PICK k : FirstToKnow(b, x, k)
      BY <1>4, <3>1, FirstExists
    <3>3. k \in 1..Len(b) /\ r[Len(a) + k] = b[k] /\ Len(a) + k \in DOMAIN r
      BY <1>2, <3>2 DEF FirstToKnow
    <3>4. ASSUME NEW j \in 1..((Len(a) + k) - 1)
          PROVE  ~Knows(r[j], x)
      <4>1. CASE j \in 1..Len(a)
        BY <1>2, <1>3, <2>2, <4>1
      <4>2. CASE j \notin 1..Len(a)
        <5>1. j - Len(a) \in 1..(k - 1) /\ j - Len(a) \in 1..Len(b) /\ Len(a) + (j - Len(a)) = j
          BY <1>2, <3>3, <4>2
        <5>2. r[j] = b[j - Len(a)]
          BY <1>2, <5>1
        <5> QED
          BY <3>2, <5>1, <5>2 DEF FirstToKnow
      <4> QED
        BY <4>1, <4>2
    <3>5. FirstToKnow(r, x, Len(a) + k)
      BY <3>2, <3>3, <3>4 DEF FirstToKnow
    <3>6. g[x] = Under(b[k], x) /\ h[x] = Under(r[Len(a) + k], x)
      BY ONLY <1>4, <1>5, <3>2, <3>5
    <3>7. m[x] = g[x]
      BY ONLY <1>6, <2>2, <3>1
    <3> QED
      BY ONLY <3>3, <3>6, <3>7
  <2> QED
    BY <2>1, <2>2
<1> QED
  BY <1>5, <1>6, <1>8, <1>9 DEF h, m, f, g, r

LEMMA FoundInNothing == FoundIn(<<>>) = <<>>
<1>1. DOMAIN FoundIn(<<>>) = {} /\ FoundIn(<<>>) = [x \in DOMAIN FoundIn(<<>>) |-> FoundIn(<<>>)[x]]
  BY FoundInIs, IsSeqEmpty
<1> DEFINE f == FoundIn(<<>>)
<1> HIDE DEF f
<1>2. f = [x \in {} |-> f[x]]
  BY <1>1 DEF f
<1>3. [x \in {} |-> f[x]] = <<>>
  OBVIOUS
<1> QED
  BY <1>2, <1>3 DEF f

LEMMA FoundInOne ==
  ASSUME NEW S
  PROVE  /\ IsSeq(<<S>>) /\ FoundIn(<<S>>) = ConstantsIn(S)
         /\ \A x : x \in DOMAIN FoundIn(<<S>>) <=> Knows(S, x)
         /\ \A x \in DOMAIN FoundIn(<<S>>) : FoundIn(<<S>>)[x] = Under(S, x)
<1> DEFINE f == FoundIn(<<S>>)
           c == ConstantsIn(S)
<1>1. IsSeq(<<S>>) /\ DOMAIN <<S>> = {1} /\ <<S>>[1] = S
  <2>1. <<S>> \in Seq({S}) /\ DOMAIN <<S>> = {1} /\ <<S>>[1] = S
    OBVIOUS
  <2> QED
    BY <2>1, SeqIsSeq
<1>2. /\ f = [x \in DOMAIN f |-> f[x]]
      /\ \A x : x \in DOMAIN f <=> \E i \in DOMAIN <<S>> : Knows(<<S>>[i], x)
      /\ \A x, i : FirstToKnow(<<S>>, x, i) => f[x] = Under(<<S>>[i], x)
  BY <1>1, FoundInIs
<1> HIDE DEF f
<1>3. \A x : x \in DOMAIN f <=> Knows(S, x)
  BY <1>1, <1>2
<1>4. ASSUME NEW x \in DOMAIN f
      PROVE  f[x] = Under(S, x)
  <2>1. FirstToKnow(<<S>>, x, 1)
    BY <1>1, <1>3 DEF FirstToKnow
  <2> QED
    BY <1>1, <1>2, <2>1
<1>5. c = f
  <2>1. DOMAIN c = {Simple(n) : n \in S} /\ \A x : x \in DOMAIN c <=> Knows(S, x)
    BY DEF ConstantsIn, Knows
  <2>2. c = [x \in DOMAIN c |-> c[x]] /\ \A x \in DOMAIN c : c[x] = Under(S, x)
    BY DEF ConstantsIn, Under
  <2> HIDE DEF c
  <2>3. DOMAIN c = DOMAIN f
    BY <1>3, <2>1
  <2> QED
    BY <1>2, <1>4, <2>2, <2>3
<1> QED
  BY <1>1, <1>3, <1>4, <1>5 DEF f

\* The equation of Layered, and that a function satisfies it.
MergedUpTo(f, modules, table, m) ==
  f = [k \in 0..m |-> IF k = 0 THEN <<>> ELSE Merged(f[k - 1], table[modules[Len(modules) + 1 - k]])]

LEMMA MergedExists ==
  ASSUME NEW modules, NEW table
  PROVE  \A m \in Nat : \E f : MergedUpTo(f, modules, table, m)
<1> DEFINE P == {m \in Nat : \E f : MergedUpTo(f, modules, table, m)}
           T(k) == table[modules[Len(modules) + 1 - k]]
<1>1. 0 \in P
  <2> DEFINE f == [n \in 0..0 |-> <<>>]
  <2>1. MergedUpTo(f, modules, table, 0)
    BY DEF MergedUpTo
  <2> QED
    BY <2>1
<1>2. ASSUME NEW m \in Nat, m \in P
      PROVE  m + 1 \in P
  <2>1. PICK f : MergedUpTo(f, modules, table, m)
    BY <1>2
  <2> HIDE DEF T
  <2> DEFINE g == [n \in 0..(m + 1) |-> IF n = m + 1 THEN Merged(f[m], T(m + 1)) ELSE f[n]]
  <2>2. \A n \in 0..m : f[n] = IF n = 0 THEN <<>> ELSE Merged(f[n - 1], T(n))
    BY <2>1 DEF MergedUpTo, T
  <2>3. \A n \in 0..(m + 1) : g[n] = IF n = 0 THEN <<>> ELSE Merged(g[n - 1], T(n))
    BY <2>2
  <2>4. MergedUpTo(g, modules, table, m + 1)
    BY <2>3 DEF MergedUpTo, T
  <2> QED
    BY <2>4
<1> HIDE DEF P
<1>3. \A m \in Nat : m \in P
  BY <1>1, <1>2, SetInduction
<1> QED
  BY <1>3 DEF P

LEMMA LayeredDefined ==
  ASSUME NEW modules, NEW table, Len(modules) \in Nat
  PROVE  \E f : MergedUpTo(f, modules, table, Len(modules)) /\ Layered(modules, table) = f[Len(modules)]
<1>1. \E f : MergedUpTo(f, modules, table, Len(modules))
  BY MergedExists
<1> QED
  BY <1>1 DEF Layered, MergedUpTo

\* Layers of what sets have are what the sets have one after the other.
IsEndOf(t, of) == \A i \in 1..Len(t) : t[i] = of[Len(of) - Len(t) + i]

LEMMA EndIsLayered ==
  ASSUME NEW S, NEW of \in Seq(Seq(S)), NEW f, NEW k \in Nat, k + 1 <= Len(of),
         \A t \in Seq(Seq(S)) : Len(t) = k /\ IsEndOf(t, of) => f[k] = FoundIn(Concat(t)),
         f[k + 1] = Merged(f[k], FoundIn(of[Len(of) - k])),
         NEW t \in Seq(Seq(S)), Len(t) = k + 1, IsEndOf(t, of)
  PROVE  f[k + 1] = FoundIn(Concat(t))
<1> DEFINE first == t[1]
           rest == Tail(t)
           n == Len(of)
<1>1. /\ first \in Seq(S) /\ rest \in Seq(Seq(S)) /\ Len(rest) = k
      /\ t = <<first>> \o rest /\ \A i \in 1..k : rest[i] = t[i + 1]
  OBVIOUS
<1>2. n \in Nat /\ \A i \in 1..(k + 1) : t[i] = of[n - (k + 1) + i]
  BY DEF IsEndOf
<1>3. 1 \in 1..(k + 1) /\ n - (k + 1) + 1 = n - k
  BY <1>2
<1>4. first = of[n - k]
  BY <1>2, <1>3
<1> HIDE DEF first, rest, n
<1>5. ASSUME NEW i \in 1..k PROVE rest[i] = of[n - k + i]
  <2>1. i + 1 \in 1..(k + 1) /\ n - (k + 1) + (i + 1) = n - k + i
    BY <1>2
  <2> QED
    BY <1>1, <1>2, <2>1
<1>6. IsEndOf(rest, of)
  BY <1>1, <1>5 DEF IsEndOf, n
<1>7. f[k] = FoundIn(Concat(rest))
  BY <1>1, <1>6
<1>8. FoundIn(first \o Concat(rest)) = Merged(FoundIn(Concat(rest)), FoundIn(first))
  <2>1. IsSeq(first) /\ IsSeq(Concat(rest))
    BY <1>1, ConcatType, SeqIsSeq
  <2> QED
    BY <2>1, FoundInFront
<1>9. Concat(t) = first \o Concat(rest)
  BY <1>1, ConcatFront
<1> QED
  BY <1>4, <1>7, <1>8, <1>9 DEF n

LEMMA LayeredIsFound ==
  ASSUME NEW modules, IsSeq(modules), NEW table, NEW S, NEW of \in Seq(Seq(S)), Len(of) = Len(modules),
         \A i \in DOMAIN modules : table[modules[i]] = FoundIn(of[i])
  PROVE  Layered(modules, table) = FoundIn(Concat(of))
<1> DEFINE n == Len(of)
<1>1. n \in Nat /\ DOMAIN modules = 1..n /\ Len(modules) = n
  BY IsSeqBasics
<1>2. PICK f : MergedUpTo(f, modules, table, n) /\ Layered(modules, table) = f[n]
  BY <1>1, LayeredDefined
<1>3. \A k \in 0..n : f[k] = IF k = 0 THEN <<>> ELSE Merged(f[k - 1], table[modules[n + 1 - k]])
  BY <1>1, <1>2 DEF MergedUpTo
<1> HIDE DEF n
<1> DEFINE R(k) == \A t \in Seq(Seq(S)) : Len(t) = k /\ IsEndOf(t, of) => f[k] = FoundIn(Concat(t))
           P == {k \in Nat : k <= n => R(k)}
<1>4. R(0)
  <2> SUFFICES ASSUME NEW t \in Seq(Seq(S)), Len(t) = 0
               PROVE  f[0] = FoundIn(Concat(t))
    OBVIOUS
  <2>1. t = <<>>
    OBVIOUS
  <2>2. f[0] = <<>>
    BY <1>1, <1>3
  <2> QED
    BY <2>1, <2>2, ConcatEmpty, FoundInNothing
<1>5. ASSUME NEW k \in Nat, R(k), k + 1 <= n
      PROVE  R(k + 1)
  <2>1. k + 1 \in 0..n /\ k + 1 # 0 /\ (k + 1) - 1 = k /\ n + 1 - (k + 1) = n - k /\ n - k \in DOMAIN modules
    <3>1. n \in Nat /\ k \in Nat /\ k + 1 <= n
      BY <1>1, <1>5
    <3>2. k + 1 \in 0..n /\ k + 1 # 0 /\ (k + 1) - 1 = k /\ n + 1 - (k + 1) = n - k /\ n - k \in 1..n
      BY ONLY <3>1
    <3> QED
      BY <1>1, <3>2
  <2>2. f[k + 1] = Merged(f[k], table[modules[n - k]])
    BY <1>3, <2>1
  <2>3. f[k + 1] = Merged(f[k], FoundIn(of[n - k]))
    BY <2>1, <2>2
  <2> QED
    BY <1>5, <2>3, EndIsLayered DEF n
<1> HIDE DEF R
<1>6. \A k \in Nat : k \in P => k + 1 \in P
  BY <1>1, <1>5
<1>7. 0 \in P
  BY <1>4
<1> HIDE DEF P
<1>8. n \in P
  BY <1>1, <1>6, <1>7, SetInduction
<1>9. R(n)
  BY <1>1, <1>8 DEF P
<1>10. IsEndOf(of, of)
  <2>1. \A i \in 1..Len(of) : Len(of) - Len(of) + i = i
    BY <1>1 DEF n
  <2> QED
    BY <2>1 DEF IsEndOf
<1> QED
  BY <1>2, <1>9, <1>10 DEF n, R

-----------------------------------------------------------------------------
(* What the ancestors of a class or module are, and what made them so.     *)

\* Classes and modules, and those of a module are modules.
IsAbove(a, node) ==
  /\ DOMAIN a = {"node", "args", "source"}
  /\ a.node.method = "instance_ancestors" /\ a.node.name \in ModuleNames
  /\ IsModule(node.name) => IsModule(a.node.name)
\* `include` and `prepend` are in RBS or in Ruby, all else is in RBS.
IsOrigin(source) ==
  /\ source.kind \in {"none", "super", "include", "prepend"} /\ source.language \in {"rbs", "ruby"}
  /\ source.kind \in {"none", "super"} => source.language = "rbs"

LEMMA NoErrors ==
  ASSUME NEW errors, IsSeq(errors), Errors(errors) = <<>>
  PROVE  \A e \in Values(errors) : e = "none"
<1> DEFINE I == {i \in DOMAIN errors : errors[i] # "none"}
<1>1. Values(Errors(errors)) = {errors[i] : i \in I \cap DOMAIN errors}
  BY ValuesOfSubsequence DEF Errors
<1>2. {errors[i] : i \in I \cap DOMAIN errors} = {}
  BY <1>1, ValuesOfEmpty
<1> QED
  BY <1>2 DEF Values

\* What a sound class or module mixes in are modules.
LEMMA MixinsAreModules ==
  ASSUME IsEnvironment(program), IsNaming(program), NEW name \in ModuleNames, OneInstanceErrors(name) = <<>>,
         NEW of \in {"include", "prepend"}
  PROVE  \A p \in Values(MixedIn(program.class_decls[name], of)) : p.language \in {"rbs", "ruby"} /\ IsModule(p.name)
<1> DEFINE entry == program.class_decls[name]
           kinds == {"include", "prepend"}
           mixins == Mixins(entry, {of})
           both == Mixins(entry, kinds)
           some == Subsequence(mixins, {i \in DOMAIN mixins : ~IsInterface(mixins[i].name)})
           AlignedMixin(i, m) ==
             [kind |-> m.kind, name |-> m.name, language |-> entry.decls[i].language,
              args |-> IF entry.decls[i].language = "rbs" /\ m.kind # "extend"
                       THEN Aligned(m.args, entry.decls[i], entry) ELSE m.args]
           OfDecl(i) == [j \in DOMAIN entry.decls[i].mixins |-> AlignedMixin(i, entry.decls[i].mixins[j])]
           seqs == [i \in DOMAIN entry.decls |-> OfDecl(i)]
           all == Concat(seqs)
<1>1. IsDecls(entry.decls, entry.kind) /\ entry \in Range(program.class_decls)
  BY DEF IsEnvironment, ModuleNames, Range
<1>2. IsSeq(all) /\ \A m \in Values(all) : m.language \in {"rbs", "ruby"}
  <2>1. IsSeq(seqs)
    BY <1>1, MappedIsSeq DEF IsDecls
  <2>2. \A i \in DOMAIN seqs : IsSeq(seqs[i])
    <3> SUFFICES ASSUME NEW i \in DOMAIN entry.decls PROVE IsSeq(OfDecl(i))
      OBVIOUS
    <3>1. IsSeq(entry.decls[i].mixins)
      BY <1>1 DEF IsDecls, Values
    <3> QED
      BY <3>1, MappedIsSeq
  <2>3. IsSeq(all) /\ Values(all) = UNION {Values(seqs[i]) : i \in DOMAIN seqs}
    BY ONLY <2>1, <2>2, ValuesOfConcat
  <2>4. \A i \in DOMAIN entry.decls : entry.decls[i].language \in {"rbs", "ruby"}
    BY <1>1 DEF IsNaming, Values
  <2>5. \A i \in DOMAIN seqs : \A m \in Values(seqs[i]) : m.language \in {"rbs", "ruby"}
    <3> SUFFICES ASSUME NEW i \in DOMAIN entry.decls, NEW m \in Values(OfDecl(i))
                 PROVE  m.language \in {"rbs", "ruby"}
      OBVIOUS
    <3>1. PICK j \in DOMAIN entry.decls[i].mixins : m = AlignedMixin(i, entry.decls[i].mixins[j])
      BY DEF Values
    <3>2. m.language = entry.decls[i].language
      BY <3>1
    <3> QED
      BY <2>4, <3>2
  <2> HIDE DEF seqs, all
  <2> QED
    BY <2>3, <2>5
<1>3. /\ mixins = Subsequence(all, {i \in DOMAIN all : all[i].kind \in {of}})
      /\ both = Subsequence(all, {i \in DOMAIN all : all[i].kind \in kinds})
  BY DEF Mixins, OfKinds
<1> HIDE DEF all, mixins, both
<1>4. /\ IsSeq(mixins) /\ IsSeq(both)
      /\ Values(mixins) = {all[i] : i \in {j \in DOMAIN all : all[j].kind \in {of}} \cap DOMAIN all}
      /\ Values(both) = {all[i] : i \in {j \in DOMAIN all : all[j].kind \in kinds} \cap DOMAIN all}
  BY <1>2, <1>3, ValuesOfSubsequence
<1>5. Values(mixins) \subseteq Values(both) /\ Values(mixins) \subseteq Values(all)
  BY <1>4 DEF Values
<1>6. \A m \in Values(both) : MixinError(m) = "none"
  <2> DEFINE self_types == SelfTypes(entry)
             of_self_types == [i \in DOMAIN self_types |-> SelfTypeError(self_types[i])]
             first == IF entry.kind = "class" THEN ClassErrors(name, TRUE) ELSE of_self_types
             others == MixinErrors(entry, kinds)
  <2>1. IsSeq(first)
    <3>1. IsSeq(self_types)
      BY <1>1, SelfTypesAreASeq
    <3> HIDE DEF self_types
    <3>2. IsSeq(of_self_types)
      BY <3>1, MappedIsSeq
    <3> QED
      BY <3>2, ErrorsOfClasses
  <2>2. others = [i \in DOMAIN both |-> MixinError(both[i])]
    BY DEF MixinErrors, both
  <2>3. IsSeq(others)
    BY <1>1, ErrorsOfMixins
  <2>4. Errors(first \o others) = <<>>
    BY DEF OneInstanceErrors
  <2> HIDE DEF first, others
  <2>5. IsSeq(first \o others) /\ Values(first \o others) = Values(first) \cup Values(others)
    BY <2>1, <2>3, ValuesOfJoin
  <2>6. \A e \in Values(others) : e = "none"
    BY <2>4, <2>5, NoErrors
  <2> QED
    BY <2>2, <2>6 DEF Values
<1>7. IsSeq(some) /\ Values(some) = {mixins[i] : i \in {j \in DOMAIN mixins : ~IsInterface(mixins[j].name)} \cap DOMAIN mixins}
  BY <1>4, ValuesOfSubsequence
<1>8. MixedIn(entry, of) = [i \in DOMAIN some |-> AsPart(some[i], Normalized(some[i].name))]
  BY DEF MixedIn, AsParts, Modules, mixins
<1> HIDE DEF some, entry
<1>9. \A m \in Values(some) : m \in Values(mixins) /\ ~IsInterface(m.name)
  BY <1>7 DEF Values
<1>10. \A m : ~IsInterface(m.name) /\ MixinError(m) = "none" => IsModule(Normalized(m.name))
  <2> SUFFICES ASSUME NEW m, ~IsInterface(m.name), MixinError(m) = "none", ~IsModule(Normalized(m.name))
               PROVE  FALSE
    OBVIOUS
  <2>1. CASE IsClass(m.name)
    BY <2>1 DEF MixinError
  <2>2. CASE ~IsClass(m.name) /\ ~IsModuleName(m.name)
    BY <2>2 DEF MixinError
  <2>3. CASE ~IsClass(m.name) /\ IsModuleName(m.name)
    BY <2>3 DEF MixinError
  <2> QED
    BY <2>1, <2>2, <2>3
<1>11. \A m, n : AsPart(m, n).name = n /\ AsPart(m, n).language = m.language
  BY DEF AsPart, Part
<1>12. \A i \in DOMAIN some : some[i].language \in {"rbs", "ruby"} /\ IsModule(Normalized(some[i].name))
  <2> TAKE i \in DOMAIN some
  <2>1. some[i] \in Values(some)
    BY DEF Values
  <2>2. some[i] \in Values(all) /\ some[i] \in Values(both) /\ ~IsInterface(some[i].name)
    BY <1>5, <1>9, <2>1
  <2> QED
    BY <1>2, <1>6, <1>10, <2>2
<1> QED
  BY <1>8, <1>11, <1>12 DEF Values, entry

\* The parts whose answers are in the answer for a class or module
LEMMA TakenOrigins ==
  ASSUME IsEnvironment(program), IsNaming(program), NEW node, node.method = "instance_ancestors", IsSound(node),
         NEW i \in Taken(node)
  PROVE  LET part == OneAncestors(node)[i]
         IN  /\ part.method = "instance_ancestors" /\ part.kind # "none" /\ IsOrigin(SourceOf(part))
             /\ IsModule(node.name) => IsModule(part.name)
<1> DEFINE name == node.name
           entry == program.class_decls[name]
           part == OneAncestors(node)[i]
           first == IF entry.kind = "module" THEN SelfTypesAsParts(entry)
                    ELSE IF name = BasicObject THEN <<>> ELSE <<SuperAsPart(entry)>>
           included == MixedIn(entry, "include")
           prepended == MixedIn(entry, "prepend")
<1>1. name \in ModuleNames /\ OneInstanceErrors(name) = <<>> /\ OneAncestors(node) = OneInstanceAncestors(name)
  BY DEF IsSound, IsDeclared, OneErrors, OneAncestors
<1>2. IsDecls(entry.decls, entry.kind)
  BY <1>1 DEF IsEnvironment, ModuleNames, Range
<1>3. part \in Values(OneInstanceAncestors(name)) /\ part.kind \notin {"itself", "self type"}
  BY <1>1 DEF Taken, TakenOf, Values
<1>4. part.method = "instance_ancestors"
  BY <1>1, <1>3, InstanceParts
<1>5. IsSeq(first) /\ \A p \in Values(first) : \/ p.kind = "self type" /\ entry.kind = "module"
                                               \/ p.kind = "super" /\ p.language = "rbs" /\ entry.kind # "module"
  <2> DEFINE super == SuperAsPart(entry)
             self_types == SelfTypesAsParts(entry)
             followed == FollowedSelfTypes(entry)
  <2>1. super.kind = "super" /\ super.language = "rbs"
    BY DEF SuperAsPart, Part
  <2>2. IsSeq(self_types) /\ \A p \in Values(self_types) : p.kind = "self type"
    <3>1. IsSeq(self_types)
      BY <1>2, SelfTypesAreParts
    <3>2. self_types = [j \in DOMAIN followed |->
                          Part("self type", "instance_ancestors", Normalized(followed[j].name), followed[j].args, "rbs")]
      BY DEF SelfTypesAsParts
    <3> HIDE DEF self_types, followed
    <3>3. \A j \in DOMAIN self_types : self_types[j].kind = "self type"
      BY <3>2 DEF Part
    <3> QED
      BY <3>1, <3>3 DEF Values
  <2> HIDE DEF super, self_types
  <2>3. IsSeq(<<super>>) /\ Values(<<super>>) = {super}
    BY ValuesOfOne
  <2>4. IsSeq(<<>>) /\ Values(<<>>) = {}
    BY ValuesOfEmpty, IsSeqEmpty
  <2> HIDE DEF entry, name
  <2> QED
    BY <2>1, <2>2, <2>3, <2>4 DEF super, self_types
<1>6. /\ IsSeq(included) /\ \A p \in Values(included) : p.kind = "include"
      /\ IsSeq(prepended) /\ \A p \in Values(prepended) : p.kind = "prepend"
  BY <1>2, MixedInKind
<1>7. \A p \in Values(included) \cup Values(prepended) : p.language \in {"rbs", "ruby"} /\ IsModule(p.name)
  BY <1>1, MixinsAreModules
<1>8. OneInstanceAncestors(name) = first \o included \o <<Itself>> \o prepended
  BY DEF OneInstanceAncestors
<1> DEFINE own == <<Itself>>
<1>9. IsSeq(own) /\ \A p \in Values(own) : p.kind = "itself"
  BY ItselfIsNoCall, ValuesOfOne
<1> HIDE DEF first, included, prepended, own
<1>10. IsSeq(first \o included) /\ Values(first \o included) = Values(first) \cup Values(included)
  BY <1>5, <1>6, ValuesOfJoin
<1>11. /\ IsSeq(first \o included \o own)
       /\ Values(first \o included \o own) = Values(first) \cup Values(included) \cup Values(own)
  BY <1>9, <1>10, ValuesOfJoin
<1>12. Values(first \o included \o own \o prepended) =
         Values(first) \cup Values(included) \cup Values(own) \cup Values(prepended)
  BY <1>6, <1>11, ValuesOfJoin
<1>13. OneInstanceAncestors(name) = first \o included \o own \o prepended
  BY <1>8 DEF own
<1> HIDE DEF part
<1>14. \/ part.kind = "super" /\ part.language = "rbs" /\ entry.kind # "module"
       \/ part.kind = "include" /\ part.language \in {"rbs", "ruby"} /\ IsModule(part.name)
       \/ part.kind = "prepend" /\ part.language \in {"rbs", "ruby"} /\ IsModule(part.name)
  <2>1. part \in Values(first) \cup Values(included) \cup Values(own) \cup Values(prepended)
    BY ONLY <1>3, <1>12, <1>13
  <2>2. part \notin Values(own)
    BY ONLY <1>3, <1>9
  <2>3. CASE part \in Values(first)
    BY <1>3, <1>5, <2>3
  <2>4. CASE part \in Values(included)
    BY <1>6, <1>7, <2>4
  <2>5. CASE part \in Values(prepended)
    BY <1>6, <1>7, <2>5
  <2> QED
    BY <2>1, <2>2, <2>3, <2>4, <2>5
<1>15. IsModule(name) => entry.kind = "module"
  BY DEF IsModule
<1>16. SourceOf(part).kind = part.kind /\ SourceOf(part).language = part.language
  BY DEF SourceOf
<1>17. IsOrigin(SourceOf(part)) /\ part.kind # "none"
  BY <1>14, <1>16 DEF IsOrigin
<1>18. IsModule(name) => IsModule(part.name)
  BY <1>14, <1>15
<1> QED
  BY <1>4, <1>17, <1>18 DEF part

\* A path one step longer leads to what it led to, by what it was made by, or by the part.
LEMMA ThroughOrigin ==
  ASSUME NEW part, part.method = "instance_ancestors", part.kind # "none", IsOrigin(SourceOf(part)),
         NEW a, NEW isLast, NEW node, NEW callee, callee.name = part.name,
         IsModule(node.name) => IsModule(part.name), IsAbove(a, callee), IsOrigin(a.source)
  PROVE  IsAbove(Through(part, a, isLast), node) /\ IsOrigin(Through(part, a, isLast).source)
<1> DEFINE args == Substituted(a.args, NamesOf(ParamsOf(part.name)), part.args)
           source == IF isLast THEN SourceOf(part) ELSE a.source
           b == Through(part, a, isLast)
<1>1. DOMAIN a = {"node", "args", "source"}
  BY DEF IsAbove
<1>2. b = [a EXCEPT !.args = args, !.source = source]
  BY DEF Through
<1>3. IsOrigin(source)
  OBVIOUS
<1> HIDE DEF args, source, b
<1>4. DOMAIN b = {"node", "args", "source"} /\ b.node = a.node /\ b.source = source
  BY <1>1, <1>2
<1>5. IsAbove(b, node)
  BY <1>4 DEF IsAbove
<1> QED
  BY <1>3, <1>4, <1>5 DEF b

LEMMA PathsHaveOrigins ==
  ASSUME IInv, Orderly, IsNaming(program), NEW node \in Answered, node.method = "instance_ancestors"
  PROVE  \A p \in Paths(node) : IsAbove(p.ancestor, node) /\ IsOrigin(p.ancestor.source)
<1>1. PICK rank : IsRanking(rank, Answered)
  BY DEF Orderly, RanksOK
<1>2. /\ rank \in [Answered -> Nat]
      /\ \A x \in Answered : \A i \in Taken(x) : CalleeAt(x, i) \in Answered /\ rank[CalleeAt(x, i)] < rank[x]
  BY <1>1 DEF IsRanking
<1> DEFINE Right(x) == x.method = "instance_ancestors" =>
                         \A p \in Paths(x) : IsAbove(p.ancestor, x) /\ IsOrigin(p.ancestor.source)
           P == {n \in Nat : \A x \in Answered : rank[x] < n => Right(x)}
<1>3. 0 \in P
  <2>1. \A x \in Answered : ~(rank[x] < 0)
    BY <1>2
  <2> QED
    BY <2>1
<1>4. ASSUME NEW x \in Answered, \A y \in Answered : rank[y] < rank[x] => Right(y)
      PROVE  Right(x)
  <2> SUFFICES ASSUME x.method = "instance_ancestors", NEW p \in Paths(x)
               PROVE  IsAbove(p.ancestor, x) /\ IsOrigin(p.ancestor.source)
    OBVIOUS
  <2>1. Paths(x) = Begun(x, AllPaths)
    BY <1>1, PathsBegin
  <2>2. x.name \in ModuleNames /\ IsSound(x)
    BY DeclaredNodes DEF Answered, IsDeclared, IInv, AnswersOK
  <2>3. CASE p = SelfPath(x)
    <3> DEFINE a == SelfAncestor(x)
    <3>1. p.ancestor = a
      BY <2>3 DEF SelfPath
    <3>2. DOMAIN a = {"node", "args", "source"} /\ a.node = x /\ a.source = NoSource
      BY DEF SelfAncestor, Ancestor
    <3> HIDE DEF a
    <3>3. IsAbove(a, x)
      BY <2>2, <3>2 DEF IsAbove
    <3>4. IsOrigin(a.source)
      BY <3>2 DEF IsOrigin, NoSource
    <3> QED
      BY <3>1, <3>3, <3>4
  <2>4. CASE p # SelfPath(x)
    <3>1. PICK i \in Taken(x) : p \in PathsVia(x, i, AllPaths)
      BY <2>1, <2>4 DEF Begun
    <3> DEFINE part == OneAncestors(x)[i]
               c == Callee(part)
               place == Place(OneAncestors(x), i)
    <3>2. PICK q \in Paths(c) : p = Along(part, place, q)
      BY <3>1 DEF PathsVia, BegunWith, Paths
    <3>3. /\ part.method = "instance_ancestors" /\ part.kind # "none" /\ IsOrigin(SourceOf(part))
          /\ IsModule(x.name) => IsModule(part.name)
      BY <2>2, TakenOrigins DEF IInv, ProgramOK
    <3>4. c \in Answered /\ rank[c] < rank[x]
      BY <1>2 DEF CalleeAt
    <3> HIDE DEF part, place
    <3>5. c.method = "instance_ancestors" /\ c.name = part.name
      BY <3>3 DEF Callee, Node
    <3> HIDE DEF c
    <3>6. IsAbove(q.ancestor, c) /\ IsOrigin(q.ancestor.source)
      BY <1>4, <3>2, <3>4, <3>5
    <3>7. p.ancestor = Through(part, q.ancestor, q.places = <<>>)
      BY <3>2 DEF Along
    <3> DEFINE isLast == q.places = <<>>
    <3> HIDE DEF isLast
    <3>8. IsAbove(Through(part, q.ancestor, isLast), x) /\ IsOrigin(Through(part, q.ancestor, isLast).source)
      BY ONLY <3>3, <3>5, <3>6, ThroughOrigin
    <3> QED
      BY <3>7, <3>8 DEF isLast
  <2> QED
    BY <2>3, <2>4
<1>5. ASSUME NEW n \in Nat, n \in P
      PROVE  n + 1 \in P
  <2> SUFFICES ASSUME NEW x \in Answered, rank[x] < n + 1
               PROVE  Right(x)
    OBVIOUS
  <2> HIDE DEF Right
  <2>1. ASSUME NEW y \in Answered, rank[y] < rank[x]
        PROVE  Right(y)
    <3>1. rank[y] \in Nat /\ rank[x] \in Nat
      BY <1>2
    <3>2. rank[y] < n
      BY <2>1, <3>1
    <3> QED
      BY <1>5, <3>2
  <2> QED
    BY <1>4, <2>1
<1> HIDE DEF P
<1>6. rank[node] \in Nat /\ rank[node] + 1 \in P
  BY <1>2, <1>3, <1>5, SetInduction
<1>7. Right(node)
  <2> HIDE DEF Right
  <2> QED
    BY <1>6 DEF P
<1> QED
  BY <1>7

\* What counts of an answer is what is inherited by super classes and by `include` in RBS: both
\* are the same of the ancestors, but are asked of the source each in its own way.
LEMMA CountedIsInherited ==
  ASSUME IInv, Orderly, IsNaming(program), NEW module, InstanceOf(module) \in Answered
  PROVE  /\ CountedAncestors(module) = Inherited(module) /\ IsSeq(Inherited(module))
         /\ Values(Inherited(module)) \subseteq ModuleNames
         /\ IsModule(module) => \A n \in Values(Inherited(module)) : IsModule(n)
<1> DEFINE node == InstanceOf(module)
           all == Cached(node)
           IsInherited(a) == a.source.kind # "prepend" /\ a.source.language # "ruby"
           I == {i \in DOMAIN all : Counts(all[i])}
           J == {i \in DOMAIN all : IsInherited(all[i])}
<1>1. node.method = "instance_ancestors" /\ node.name = module
  BY DEF InstanceOf, Node
<1>2. Ordered(node)
  BY DEF Orderly, CachesOrdered
<1>3. all = Linearization(node)
  BY <1>2, OrderedIsLinear
<1>4. PICK s : IsOrderFor(s, node, Paths(node)) /\ all = AncestorsOf(s)
  BY <1>2 DEF Ordered
<1> HIDE DEF node, all
<1>5. IsSeq(s) /\ DOMAIN all = DOMAIN s /\ \A i \in DOMAIN all : s[i] \in Paths(node) /\ all[i] = s[i].ancestor
  BY <1>4 DEF IsOrderFor, IsOrder, AncestorsOf, Values
<1>6. IsSeq(all)
  BY <1>4, <1>5, MappedIsSeq DEF AncestorsOf
<1>7. \A i \in DOMAIN all : IsAbove(all[i], node) /\ IsOrigin(all[i].source)
  BY <1>1, <1>5, PathsHaveOrigins DEF node
<1>8. \A a : IsAbove(a, node) /\ IsOrigin(a.source) => (Counts(a) <=> IsInherited(a))
  <2> SUFFICES ASSUME NEW a, IsAbove(a, node), IsOrigin(a.source)
               PROVE  Counts(a) <=> IsInherited(a)
    OBVIOUS
  <2>1. a.node.method = "instance_ancestors"
    BY DEF IsAbove
  <2> QED
    BY <2>1 DEF IsOrigin, Counts
<1>9. I = J
  BY <1>7, <1>8
<1> DEFINE counted == Subsequence(all, I)
<1>10. IsSeq(counted) /\ Values(counted) = {all[i] : i \in I \cap DOMAIN all}
  BY <1>6, ValuesOfSubsequence
<1>11. CountedAncestors(module) = NamesOfAncestors(counted)
  BY DEF CountedAncestors, NamesOfAncestors, node, all
<1>12. Inherited(module) = NamesOfAncestors(Subsequence(all, J))
  BY <1>3 DEF Inherited, InheritedOf, node
<1>13. Inherited(module) = NamesOfAncestors(counted)
  BY <1>9, <1>12
<1> HIDE DEF I, J, counted
<1>14. IsSeq(NamesOfAncestors(counted))
  BY <1>10, MappedIsSeq DEF NamesOfAncestors
<1>15. ASSUME NEW n \in Values(NamesOfAncestors(counted))
       PROVE  \E i \in DOMAIN all : n = all[i].node.name
  <2>1. PICK k \in DOMAIN counted : n = counted[k].node.name
    BY DEF NamesOfAncestors, Values
  <2>2. counted[k] \in {all[i] : i \in I \cap DOMAIN all}
    BY <1>10 DEF Values
  <2> QED
    BY <2>1, <2>2
<1>16. \A n \in Values(NamesOfAncestors(counted)) : n \in ModuleNames /\ (IsModule(module) => IsModule(n))
  BY <1>1, <1>7, <1>15 DEF IsAbove, node
<1> QED
  BY <1>11, <1>13, <1>14, <1>16

-----------------------------------------------------------------------------
(* What the tables of constants have.                                      *)

LEMMA MergedAssociates ==
  ASSUME NEW f, NEW g, NEW h
  PROVE  Merged(Merged(f, g), h) = Merged(f, Merged(g, h))
<1> DEFINE fg == Merged(f, g)
           gh == Merged(g, h)
           l == Merged(fg, h)
           r == Merged(f, gh)
           D == DOMAIN f \cup DOMAIN g \cup DOMAIN h
<1>1. /\ DOMAIN fg = DOMAIN f \cup DOMAIN g
      /\ \A x \in DOMAIN f \cup DOMAIN g : fg[x] = IF x \in DOMAIN g THEN g[x] ELSE f[x]
      /\ DOMAIN gh = DOMAIN g \cup DOMAIN h
      /\ \A x \in DOMAIN g \cup DOMAIN h : gh[x] = IF x \in DOMAIN h THEN h[x] ELSE g[x]
  BY MergedIs
<1>2. /\ l = [x \in DOMAIN fg \cup DOMAIN h |-> l[x]]
      /\ \A x \in DOMAIN fg \cup DOMAIN h : l[x] = IF x \in DOMAIN h THEN h[x] ELSE fg[x]
      /\ r = [x \in DOMAIN f \cup DOMAIN gh |-> r[x]]
      /\ \A x \in DOMAIN f \cup DOMAIN gh : r[x] = IF x \in DOMAIN gh THEN gh[x] ELSE f[x]
  BY MergedIs
<1> HIDE DEF fg, gh, l, r
<1>3. DOMAIN fg \cup DOMAIN h = D /\ DOMAIN f \cup DOMAIN gh = D
  BY <1>1
<1>4. \A x \in D : l[x] = r[x]
  BY <1>1, <1>2, <1>3
<1> QED
  BY <1>2, <1>3, <1>4 DEF fg, gh, l, r

LEMMA PairIsJoined == \A a, b : <<a, b>> = <<a>> \o <<b>>
<1> TAKE a, b
<1> DEFINE S == {a, b}
           p == <<a>>
           q == <<b>>
           r == p \o q
           t == <<a, b>>
<1>1. p \in Seq(S) /\ q \in Seq(S) /\ Len(p) = 1 /\ Len(q) = 1 /\ p[1] = a /\ q[1] = b
  OBVIOUS
<1>2. t \in Seq(S) /\ Len(t) = 2 /\ t[1] = a /\ t[2] = b
  OBVIOUS
<1> HIDE DEF S, p, q
<1>3. IsSeq(p) /\ IsSeq(q) /\ IsSeq(t)
  BY <1>1, <1>2, SeqIsSeq
<1>4. IsJoin(r, p, q)
  BY <1>3, IsSeqJoin
<1> HIDE DEF r, t
<1>5. IsSeq(r) /\ Len(r) = 1 + 1 /\ r[1] = p[1] /\ r[1 + 1] = q[1]
  <2>1. /\ IsSeq(r) /\ Len(r) = Len(p) + Len(q)
        /\ \A i \in 1..Len(p) : r[i] = p[i]
        /\ \A i \in 1..Len(q) : r[Len(p) + i] = q[i]
    BY ONLY <1>4 DEF IsJoin
  <2> QED
    BY <1>1, <2>1
<1>6. DOMAIN r = {1, 2} /\ Len(r) = 2 /\ r[1] = a /\ r[2] = b
  BY <1>1, <1>5, IsSeqBasics
<1>7. r = t
  BY <1>2, <1>3, <1>5, <1>6, IsSeqEqual
<1> QED
  BY <1>7 DEF r, t, p, q

\* A module has the constants of its name, and Object those of the top level too once a call for
\* a class that inherits from it has put them there.
ChildrenOK ==
  /\ DOMAIN children = ModuleNames
  /\ \A m \in ModuleNames \ {Object} : children[m] = ConstantsIn(NamesIn(m))
  /\ children[Object] \in {ConstantsIn(NamesIn(Object)), FoundIn(SetsOf(Object))}

LEMMA SetsOfModules ==
  /\ FoundIn(SetsOf(Object)) = Merged(ConstantsIn(NamesIn(Object)), toplevel)
  /\ \A m : IsSeq(SetsOf(m)) /\ (m # Object => FoundIn(SetsOf(m)) = ConstantsIn(NamesIn(m)))
<1> DEFINE T == ToplevelNames
           N == NamesIn(Object)
<1>1. toplevel = ConstantsIn(T)
  BY DEF toplevel, ToplevelNames
<1>2. SetsOf(Object) = <<T, N>> /\ \A m : m # Object => SetsOf(m) = <<NamesIn(m)>>
  BY DEF SetsOf
<1> HIDE DEF T, N
<1>3. <<T, N>> = <<T>> \o <<N>>
  BY PairIsJoined
<1>4. IsSeq(<<T>>) /\ IsSeq(<<N>>) /\ FoundIn(<<T>>) = ConstantsIn(T) /\ FoundIn(<<N>>) = ConstantsIn(N)
  BY FoundInOne
<1>5. FoundIn(<<T>> \o <<N>>) = Merged(FoundIn(<<N>>), FoundIn(<<T>>)) /\ IsSeq(<<T>> \o <<N>>)
  BY <1>4, FoundInFront, ValuesOfJoin
<1>6. \A m : IsSeq(<<NamesIn(m)>>) /\ FoundIn(<<NamesIn(m)>>) = ConstantsIn(NamesIn(m))
  BY FoundInOne
<1>7. FoundIn(SetsOf(Object)) = Merged(ConstantsIn(N), toplevel) /\ IsSeq(SetsOf(Object))
  BY <1>1, <1>2, <1>3, <1>4, <1>5
<1>8. \A m : m # Object => IsSeq(SetsOf(m)) /\ FoundIn(SetsOf(m)) = ConstantsIn(NamesIn(m))
  BY <1>2, <1>6
<1> QED
  BY <1>7, <1>8 DEF N

LEMMA ObjectMerged ==
  ASSUME ChildrenOK
  PROVE  Merged(children[Object], toplevel) = FoundIn(SetsOf(Object))
<1> DEFINE own == ConstantsIn(NamesIn(Object))
           t == toplevel
<1>1. FoundIn(SetsOf(Object)) = Merged(own, t) /\ (children[Object] = own \/ children[Object] = Merged(own, t))
  BY SetsOfModules DEF ChildrenOK
<1> HIDE DEF own, t
<1>2. Merged(Merged(own, t), t) = Merged(own, t)
  BY MergedTwice
<1> QED
  BY <1>1, <1>2 DEF t

\* The table, with the top level put in where it is.
TableOK(table) ==
  /\ DOMAIN table = ModuleNames
  /\ \A m \in ModuleNames \ {Object} : table[m] = FoundIn(SetsOf(m))

LEMMA TablesWithToplevel ==
  ASSUME ChildrenOK, Object \in ModuleNames, NEW module
  PROVE  /\ TableOK(WithToplevel(module))
         /\ IsClass(module) /\ Object \in Values(CountedAncestors(module)) =>
               WithToplevel(module)[Object] = FoundIn(SetsOf(Object))
         /\ WithToplevel(module)[Object] \in {ConstantsIn(NamesIn(Object)), FoundIn(SetsOf(Object))}
<1> DEFINE merged == FoundIn(SetsOf(Object))
           table == WithToplevel(module)
           comes == IsClass(module) /\ Object \in Values(CountedAncestors(module))
<1>1. DOMAIN children = ModuleNames /\ \A m \in ModuleNames \ {Object} : children[m] = FoundIn(SetsOf(m))
  BY SetsOfModules DEF ChildrenOK
<1>2. Merged(children[Object], toplevel) = merged
  BY ObjectMerged
<1>3. table = IF comes THEN [children EXCEPT ![Object] = merged] ELSE children
  BY <1>2 DEF WithToplevel
<1> HIDE DEF merged, table, comes
<1>4. DOMAIN table = ModuleNames /\ \A m \in ModuleNames \ {Object} : table[m] = children[m]
  BY <1>1, <1>3
<1>5. (comes => table[Object] = merged) /\ (~comes => table[Object] = children[Object])
  BY <1>1, <1>3
<1>6. TableOK(table)
  BY <1>1, <1>4 DEF TableOK
<1>7. table[Object] \in {ConstantsIn(NamesIn(Object)), merged}
  BY <1>5 DEF ChildrenOK, merged
<1> QED
  BY <1>5, <1>6, <1>7 DEF merged, table, comes

LEMMA LayersAreFound ==
  ASSUME NEW modules, IsSeq(modules), NEW table,
         NEW of, DOMAIN of = DOMAIN modules, of = [i \in DOMAIN of |-> of[i]],
         \A i \in DOMAIN modules : IsSeq(of[i]) /\ table[modules[i]] = FoundIn(of[i])
  PROVE  Layered(modules, table) = FoundIn(Concat(of)) /\ IsSeq(Concat(of))
<1> DEFINE S == UNION {Values(of[i]) : i \in DOMAIN of}
<1>1. IsSeq(of) /\ Len(of) = Len(modules)
  BY MappedIsSeq
<1>2. \A i \in DOMAIN of : IsSeq(of[i]) /\ Values(of[i]) \subseteq S
  OBVIOUS
<1> HIDE DEF S
<1>3. of \in Seq(Seq(S))
  BY <1>1, <1>2, SequencesOfSequences
<1>4. IsSeq(Concat(of))
  BY <1>3, ConcatType, SeqIsSeq
<1>5. IsSeq(modules) /\ \A i \in DOMAIN modules : table[modules[i]] = FoundIn(of[i])
  OBVIOUS
<1>6. Layered(modules, table) = FoundIn(Concat(of))
  BY ONLY <1>1, <1>3, <1>5, LayeredIsFound
<1> QED
  BY <1>4, <1>6

LEMMA LayersOfModules ==
  ASSUME NEW modules, IsSeq(modules), Values(modules) \subseteq ModuleNames, NEW table, TableOK(table),
         Object \in Values(modules) => table[Object] = FoundIn(SetsOf(Object))
  PROVE  Layered(modules, table) = FoundIn(SetsOfAll(modules)) /\ IsSeq(SetsOfAll(modules))
<1> DEFINE of == [i \in DOMAIN modules |-> SetsOf(modules[i])]
<1>1. \A i \in DOMAIN modules : modules[i] \in ModuleNames /\ modules[i] \in Values(modules)
  BY DEF Values
<1>2. \A i \in DOMAIN modules : table[modules[i]] = FoundIn(SetsOf(modules[i]))
  BY <1>1 DEF TableOK
<1>3. DOMAIN of = DOMAIN modules /\ of = [i \in DOMAIN of |-> of[i]] /\ \A i \in DOMAIN modules : of[i] = SetsOf(modules[i])
  OBVIOUS
<1>4. SetsOfAll(modules) = Concat(of)
  BY DEF SetsOfAll
<1> HIDE DEF of
<1>5. \A i \in DOMAIN modules : IsSeq(of[i]) /\ table[modules[i]] = FoundIn(of[i])
  BY <1>2, <1>3, SetsOfModules
<1>6. Layered(modules, table) = FoundIn(Concat(of)) /\ IsSeq(Concat(of))
  BY <1>3, <1>5, LayersAreFound
<1> QED
  BY <1>4, <1>6

\* The modules of a context that is not broken
LEMMA AroundIsSeq ==
  ASSUME NEW context, IsSeq(context), ~IsBroken(context)
  PROVE  /\ IsSeq(Around(context)) /\ Values(Around(context)) \subseteq ModuleNames
         /\ \A n \in Values(Around(context)) : \E i \in DOMAIN context : context[i] # NoModule /\ n = Normalized(context[i])
<1> DEFINE I == {i \in DOMAIN context : context[i] # NoModule}
           modules == Subsequence(context, I)
           n == Len(modules)
           around == [i \in 1..n |-> Normalized(modules[n + 1 - i])]
<1>1. IsSeq(modules) /\ Values(modules) = {context[i] : i \in I \cap DOMAIN context}
  BY ValuesOfSubsequence
<1>2. Around(context) = around
  BY DEF Around
<1>3. n \in Nat /\ DOMAIN modules = 1..n
  BY <1>1, IsSeqBasics
<1> HIDE DEF modules, n
<1>4. IsSeq(around)
  <2>1. around \in [1..n -> {around[i] : i \in 1..n}]
    OBVIOUS
  <2> QED
    BY <1>3, <2>1, FunctionIsSeq
<1>5. ASSUME NEW m \in Values(around)
      PROVE  \E i \in DOMAIN context : context[i] # NoModule /\ m = Normalized(context[i])
  <2>1. PICK k \in 1..n : m = Normalized(modules[n + 1 - k])
    BY DEF Values
  <2>2. n + 1 - k \in DOMAIN modules
    BY <1>3
  <2>3. modules[n + 1 - k] \in {context[i] : i \in I \cap DOMAIN context}
    BY <1>1, <2>2 DEF Values
  <2> QED
    BY <2>1, <2>3
<1> HIDE DEF around
<1>6. \A i \in DOMAIN context : context[i] # NoModule => Normalized(context[i]) \in ModuleNames
  BY DEF IsBroken, HasEntry
<1>7. Values(around) \subseteq ModuleNames
  BY <1>5, <1>6
<1> QED
  BY <1>2, <1>4, <1>5, <1>7

-----------------------------------------------------------------------------
(* What is found in a context.                                             *)

LEMMA UnderIs ==
  ASSUME NEW S, NEW n \in S, \A m \in S : Simple(m) = Simple(n) => m = n
  PROVE  /\ Knows(S, Simple(n)) /\ Under(S, Simple(n)) = n
         /\ Simple(n) \in DOMAIN ConstantsIn(S) /\ ConstantsIn(S)[Simple(n)] = n
<1>1. Knows(S, Simple(n))
  BY DEF Knows
<1>2. Under(S, Simple(n)) \in S /\ Simple(Under(S, Simple(n))) = Simple(n)
  BY DEF Under
<1>3. Under(S, Simple(n)) = n
  BY <1>2
<1>4. Simple(n) \in DOMAIN ConstantsIn(S) /\ ConstantsIn(S)[Simple(n)] = Under(S, Simple(n))
  BY <1>1, FoundInOne
<1> QED
  BY <1>1, <1>3, <1>4

\* No two constants of the top level have one simple name, nor have two of a module.
LEMMA NamesAreTheirOwn ==
  ASSUME IsNaming(program)
  PROVE  /\ \A n \in ConstantNames : IsSeq(n) /\ n # <<>> /\ Len(n) \in Nat \ {0}
         /\ \A m, n \in ToplevelNames : Simple(m) = Simple(n) => m = n
         /\ \A module \in ModuleNames : \A m, n \in NamesIn(module) : Simple(m) = Simple(n) => m = n
         /\ ModuleNames \cap AliasNames = {} /\ Object \in ModuleNames /\ IsClass(Object)
<1> DEFINE Meant(name) == IF name \in AliasNames THEN program.class_alias_decls[name] ELSE name
<1>1. /\ \A n \in ConstantNames : IsSeq(n) /\ n # <<>>
      /\ ModuleNames \cap AliasNames = {} /\ Object \in ModuleNames /\ program.class_decls[Object].kind = "class"
      /\ \A m, n \in ConstantNames :
            Len(m) > 1 /\ Len(n) > 1 /\ Simple(m) = Simple(n) /\ Meant(Namespace(m)) = Meant(Namespace(n)) => m = n
  BY DEF IsNaming, ConstantNames, ModuleNames, AliasNames
<1>2. \A n \in ConstantNames : Len(n) \in Nat \ {0}
  <2> TAKE n \in ConstantNames
  <2>1. IsSeq(n) /\ n # <<>>
    BY <1>1
  <2> QED
    BY <2>1, IsSeqBasics
<1>3. ASSUME NEW m \in ToplevelNames, NEW n \in ToplevelNames, Simple(m) = Simple(n)
      PROVE  m = n
  <2>1. IsSeq(m) /\ IsSeq(n) /\ Len(m) = 1 /\ Len(n) = 1
    BY <1>1 DEF ToplevelNames
  <2>2. m[1] = n[1] /\ DOMAIN m = {1}
    BY <1>3, <2>1, IsSeqBasics DEF Simple
  <2> QED
    BY <2>1, <2>2, IsSeqEqual
<1>4. ASSUME NEW module \in ModuleNames, NEW m \in NamesIn(module), NEW n \in NamesIn(module), Simple(m) = Simple(n)
      PROVE  m = n
  <2>1. \A k \in NamesIn(module) : Meant(Namespace(k)) = module
    <3> TAKE k \in NamesIn(module)
    <3>1. ParentOf(k) = module
      BY DEF NamesIn
    <3>2. CASE k \in AliasNames
      BY <3>1, <3>2 DEF ParentOf, Normalized
    <3>3. CASE k \notin AliasNames
      <4>1. Namespace(k) = module /\ module \notin AliasNames
        BY <1>1, <3>1, <3>3 DEF ParentOf
      <4> QED
        BY <4>1
    <3> QED
      BY <3>2, <3>3
  <2>2. \A k \in NamesIn(module) : k \in ConstantNames /\ Len(k) > 1
    BY DEF NamesIn
  <2> HIDE DEF Meant
  <2> QED
    BY <1>1, <1>4, <2>1, <2>2
<1> QED
  BY <1>1, <1>2, <1>3, <1>4 DEF IsClass

\* The last module of a context has the name it has where it is.
LEMMA ItselfIsFound ==
  ASSUME IsNaming(program), NEW table, TableOK(table), NEW context, NEW last, last = LastModule(context),
         last # NoModule, HasEntry(last), ~IsUnplaced(context),
         Namespace(last) = Object => table[Object] = FoundIn(SetsOf(Object))
  PROVE  ItselfIn(context, table) = FoundIn(SetsOfLast(last)) /\ IsSeq(SetsOfLast(last))
<1> DEFINE x == Simple(last)
           space == Namespace(last)
           T == ToplevelNames
           here == {n \in T : Simple(n) = x}
           own == <<{last}>>
           value == IF Len(last) = 1 THEN toplevel[x] ELSE table[space][x]
           found == FoundIn(SetsOfLast(last))
<1>1. last \in ConstantNames
  BY DEF HasEntry, Normalized, ConstantNames
<1>2. IsSeq(last) /\ Len(last) \in Nat \ {0}
  BY <1>1, NamesAreTheirOwn
<1>3. Len(last) # 1 => Len(last) > 1 /\ space \in ModuleNames
  <2>1. Len(last) > 1 => space \in ModuleNames
    BY DEF IsUnplaced
  <2>2. Len(last) # 1 => Len(last) > 1
    BY <1>2
  <2> QED
    BY <2>1, <2>2
<1>4. Len(last) # 1 => last \in NamesIn(space)
  <2> SUFFICES ASSUME Len(last) # 1
               PROVE  last \in NamesIn(space)
    OBVIOUS
  <2>1. space \notin AliasNames
    BY <1>3, NamesAreTheirOwn
  <2>2. Normalized(space) = space
    BY <2>1 DEF Normalized
  <2>3. ParentOf(last) = space
    BY <2>2 DEF ParentOf
  <2> QED
    BY <1>1, <1>3, <2>3 DEF NamesIn
<1>5. Len(last) = 1 => space # Object
  <2> SUFFICES ASSUME Len(last) = 1, space = Object
               PROVE  FALSE
    OBVIOUS
  <2>1. space = SubSeq(last, 1, 0)
    BY DEF Namespace
  <2>2. Len(SubSeq(last, 1, 0)) = 0
    BY <1>2, IsSeqFront
  <2>3. Len(Object) = 1
    BY DEF Object
  <2> HIDE DEF space
  <2> QED
    BY <2>1, <2>2, <2>3
<1>6. ItselfIn(context, table) = [y \in {x} |-> value]
  BY DEF ItselfIn
<1>7. toplevel = ConstantsIn(T)
  BY DEF toplevel, ToplevelNames
<1>8. /\ IsSeq(own) /\ FoundIn(own) = ConstantsIn({last})
      /\ \A y : y \in DOMAIN FoundIn(own) <=> y = x
      /\ FoundIn(own)[x] = last
  BY FoundInOne, UnderIs DEF Knows
<1>9. \A n \in T : Simple(n) = x => toplevel[x] = n /\ x \in DOMAIN toplevel
  BY <1>7, NamesAreTheirOwn, UnderIs
<1>10. Len(last) # 1 => ConstantsIn(NamesIn(space))[x] = last /\ x \in DOMAIN ConstantsIn(NamesIn(space))
  <2> SUFFICES ASSUME Len(last) # 1
               PROVE  ConstantsIn(NamesIn(space))[x] = last /\ x \in DOMAIN ConstantsIn(NamesIn(space))
    OBVIOUS
  <2>1. last \in NamesIn(space) /\ space \in ModuleNames
    BY <1>3, <1>4
  <2> HIDE DEF space
  <2>2. \A m \in NamesIn(space) : Simple(m) = Simple(last) => m = last
    BY <2>1, NamesAreTheirOwn
  <2> QED
    BY <2>1, <2>2, UnderIs
<1>11. CASE space # Object
  <2>1. SetsOfLast(last) = own
    <3>1. SetsOfLast(last) = <<>> \o own
      BY <1>11 DEF SetsOfLast
    <3> HIDE DEF own
    <3> QED
      BY <1>8, <3>1, JoinEmpty
  <2>2. value = last
    <3>1. CASE Len(last) = 1
      <4>1. last \in T
        BY <1>1, <3>1 DEF ToplevelNames
      <4> QED
        BY <1>9, <3>1, <4>1
    <3>2. CASE Len(last) # 1
      <4>1. table[space] = ConstantsIn(NamesIn(space))
        BY <1>3, <1>11, <3>2, SetsOfModules DEF TableOK
      <4> QED
        BY <1>10, <3>2, <4>1
    <3> QED
      BY <3>1, <3>2
  <2> DEFINE f == FoundIn(own)
  <2>3. f = [y \in DOMAIN f |-> f[y]]
    BY <1>8, FoundInIs
  <2> HIDE DEF own, f, value, x
  <2>4. f = [y \in {x} |-> last]
    <3>1. DOMAIN f = {x} /\ \A y \in DOMAIN f : f[y] = last
      BY <1>8 DEF f
    <3> QED
      BY <2>3, <3>1
  <2> QED
    BY <1>6, <1>8, <2>1, <2>2, <2>4 DEF f
<1>12. CASE space = Object
  <2> DEFINE ahead == <<here>>
  <2>1. SetsOfLast(last) = ahead \o own
    BY <1>12 DEF SetsOfLast, ToplevelNames
  <2>2. /\ IsSeq(ahead)
        /\ \A y : y \in DOMAIN FoundIn(ahead) <=> Knows(here, y)
        /\ \A y \in DOMAIN FoundIn(ahead) : FoundIn(ahead)[y] = Under(here, y)
    BY FoundInOne
  <2> HIDE DEF ahead, own, here
  <2>3. found = Merged(FoundIn(own), FoundIn(ahead)) /\ IsSeq(SetsOfLast(last))
    BY <1>8, <2>1, <2>2, FoundInFront, ValuesOfJoin
  <2> DEFINE f == FoundIn(own)
             g == FoundIn(ahead)
  <2>4. /\ found = [y \in DOMAIN f \cup DOMAIN g |-> found[y]]
        /\ \A y \in DOMAIN f \cup DOMAIN g : found[y] = IF y \in DOMAIN g THEN g[y] ELSE f[y]
    <3>1. found = Merged(f, g)
      BY <2>3
    <3> HIDE DEF found, f, g
    <3>2. /\ Merged(f, g) = [y \in DOMAIN f \cup DOMAIN g |-> Merged(f, g)[y]]
          /\ \A y \in DOMAIN f \cup DOMAIN g : Merged(f, g)[y] = IF y \in DOMAIN g THEN g[y] ELSE f[y]
      BY ONLY MergedIs
    <3> QED
      BY ONLY <3>1, <3>2
  <2>5. \A y : y \in DOMAIN g => y = x
    BY <2>2 DEF Knows, here
  <2>6. DOMAIN f \cup DOMAIN g = {x}
    BY <1>8, <2>5
  <2>7. Len(last) # 1 /\ table[space] = Merged(ConstantsIn(NamesIn(space)), toplevel)
    BY <1>5, <1>12, SetsOfModules
  <2>8. x \in DOMAIN ConstantsIn(NamesIn(space)) /\ ConstantsIn(NamesIn(space))[x] = last
    BY <1>10, <2>7
  <2>9. value = IF x \in DOMAIN toplevel THEN toplevel[x] ELSE last
    <3> DEFINE c == ConstantsIn(NamesIn(space))
               t == toplevel
    <3>1. value = Merged(c, t)[x]
      BY <2>7
    <3>2. x \in DOMAIN c /\ c[x] = last
      BY <2>8
    <3> HIDE DEF c, x, value
    <3> HIDE DEF t, space
    <3>3. \A y \in DOMAIN c \cup DOMAIN t : Merged(c, t)[y] = IF y \in DOMAIN t THEN t[y] ELSE c[y]
      BY ONLY MergedIs
    <3>4. value = IF x \in DOMAIN t THEN t[x] ELSE last
      BY ONLY <3>1, <3>2, <3>3
    <3> QED
      BY <3>4 DEF t
  <2>10. x \in DOMAIN toplevel <=> Knows(T, x)
    BY <1>7, FoundInOne
  <2>11. value = found[x]
    <3>1. CASE Knows(T, x)
      <4>1. PICK n \in T : Simple(n) = x
        BY <3>1 DEF Knows
      <4>2. toplevel[x] = n /\ x \in DOMAIN toplevel
        BY <1>9, <4>1
      <4>3. n \in here /\ \A m \in here : Simple(m) = Simple(n) => m = n
        BY <4>1, NamesAreTheirOwn DEF here
      <4>4. Knows(here, x) /\ Under(here, x) = n
        BY <4>1, <4>3, UnderIs
      <4>5. x \in DOMAIN g /\ g[x] = n
        BY <2>2, <4>4
      <4> HIDE DEF found, f, g, value
      <4> QED
        BY <2>4, <2>9, <4>2, <4>5
    <3>2. CASE ~Knows(T, x)
      <4>1. ~Knows(here, x)
        BY <3>2 DEF Knows, here
      <4>2. x \notin DOMAIN g /\ x \in DOMAIN f /\ f[x] = last
        BY <1>8, <2>2, <4>1
      <4> HIDE DEF found, f, g, value
      <4> QED
        BY <2>4, <2>9, <2>10, <3>2, <4>2
    <3> QED
      BY <3>1, <3>2
  <2> HIDE DEF found, f, g, value, x
  <2>12. found = [y \in {x} |-> value]
    <3>1. found = [y \in {x} |-> found[y]]
      BY <2>4, <2>6
    <3> QED
      BY <2>11, <3>1
  <2> QED
    BY <1>6, <2>3, <2>12 DEF found
<1> QED
  BY <1>11, <1>12

\* An ancestor of a class only is Object.
LEMMA ObjectIsOfClasses ==
  ASSUME IInv, Orderly, IsNaming(program), NEW module \in ModuleNames, InstanceOf(module) \in Answered,
         Object \in Values(Inherited(module))
  PROVE  IsClass(module) /\ Object \in Values(CountedAncestors(module))
<1>1. CountedAncestors(module) = Inherited(module) /\ (IsModule(module) => IsModule(Object))
  BY CountedIsInherited
<1>2. IsClass(Object) /\ ~IsModule(Object)
  BY NamesAreTheirOwn DEF IsClass, IsModule
<1>3. program.class_decls[module].kind \in {"class", "module"}
  BY DEF IInv, ProgramOK, IsEnvironment, ModuleNames, Range
<1> QED
  BY <1>1, <1>2, <1>3 DEF IsClass, IsModule

\* What a context has been answered.
LEMMA ContextIsFound ==
  ASSUME IInv, Orderly, IsNaming(program), ChildrenOK, NEW context, IsSeq(context),
         ~IsBroken(context), ~IsUnplaced(context),
         LastModule(context) # NoModule => HasEntry(LastModule(context)),
         InstanceOf(ScopeOf(context)) \in Answered, ~IsWithinObject(context)
  PROVE  ContextConstants(context) = FoundIn(SetsOfContext(context))
<1> DEFINE last == LastModule(context)
           scope == ScopeOf(context)
           table == WithToplevel(scope)
           merged == FoundIn(SetsOf(Object))
           above == SetsOfAll(Inherited(scope))
           around == SetsOfAll(Around(context))
           itself == IF last = NoModule THEN <<>> ELSE SetsOfLast(last)
           obj == SetsOf(Object)
<1>1. Object \in ModuleNames /\ scope \in ModuleNames
  BY NamesAreTheirOwn DEF ScopeOf, HasEntry
<1>2. Object \in Values(Inherited(scope)) => table[Object] = merged
  BY <1>1, ObjectIsOfClasses, TablesWithToplevel
<1>3. TableOK(table)
  BY <1>1, TablesWithToplevel
<1>4. Layered(CountedAncestors(scope), table) = FoundIn(above) /\ IsSeq(above)
  <2>1. /\ CountedAncestors(scope) = Inherited(scope) /\ IsSeq(Inherited(scope))
        /\ Values(Inherited(scope)) \subseteq ModuleNames
    BY CountedIsInherited
  <2> HIDE DEF table, scope, merged
  <2>2. Layered(Inherited(scope), table) = FoundIn(above) /\ IsSeq(above)
    BY <1>2, <1>3, <2>1, LayersOfModules DEF merged
  <2> QED
    BY <2>1, <2>2
<1>5. FromAncestors(scope) = Merged(merged, FoundIn(above))
  BY <1>4, ObjectMerged DEF FromAncestors
<1>6. FromContext(context, table) = FoundIn(around) /\ IsSeq(around)
  <2>1. /\ IsSeq(Around(context)) /\ Values(Around(context)) \subseteq ModuleNames
        /\ \A n \in Values(Around(context)) : \E i \in DOMAIN context : context[i] # NoModule /\ n = Normalized(context[i])
    BY AroundIsSeq
  <2>2. Object \in Values(Around(context)) => table[Object] = merged
    <3>1. Object \in Values(Around(context)) => Object \in Values(Inherited(scope))
      BY <2>1 DEF IsWithinObject
    <3> QED
      BY <1>2, <3>1
  <2> HIDE DEF table
  <2>3. Layered(Around(context), table) = FoundIn(around) /\ IsSeq(around)
    BY <1>3, <2>1, <2>2, LayersOfModules
  <2> QED
    BY <2>3 DEF FromContext
<1>7. ItselfIn(context, table) = FoundIn(itself) /\ IsSeq(itself)
  <2>1. CASE last = NoModule
    <3>1. ItselfIn(context, table) = <<>> /\ itself = <<>>
      BY <2>1 DEF ItselfIn
    <3> QED
      BY <3>1, FoundInNothing, IsSeqEmpty
  <2>2. CASE last # NoModule
    <3>1. Namespace(last) = Object => Object \in Values(Inherited(scope))
      BY <2>2 DEF IsWithinObject
    <3>2. Namespace(last) = Object => table[Object] = FoundIn(SetsOf(Object))
      BY <1>2, <3>1
    <3>3. last = LastModule(context) /\ last # NoModule /\ HasEntry(last) /\ itself = SetsOfLast(last)
      BY <2>2
    <3> HIDE DEF table, last, itself
    <3> QED
      BY <1>3, <3>2, <3>3, ItselfIsFound
  <2> QED
    BY <2>1, <2>2
<1>8. ContextConstants(context) =
        Merged(Merged(Merged(merged, FoundIn(above)), FoundIn(around)), FoundIn(itself))
  BY <1>5, <1>6, <1>7 DEF ContextConstants
<1>9. SetsOfContext(context) = ((itself \o around) \o above) \o obj
  BY DEF SetsOfContext
<1>10. IsSeq(obj) /\ merged = FoundIn(obj)
  BY SetsOfModules
<1> HIDE DEF itself, around, above, obj, merged
<1>11. /\ IsSeq(itself \o around) /\ IsSeq((itself \o around) \o above)
       /\ FoundIn(itself \o around) = Merged(FoundIn(around), FoundIn(itself))
  BY <1>4, <1>6, <1>7, FoundInFront, ValuesOfJoin
<1>12. FoundIn((itself \o around) \o above) = Merged(FoundIn(above), Merged(FoundIn(around), FoundIn(itself)))
  BY <1>4, <1>11, FoundInFront
<1>13. FoundIn(((itself \o around) \o above) \o obj)
         = Merged(merged, Merged(FoundIn(above), Merged(FoundIn(around), FoundIn(itself))))
  BY <1>10, <1>11, <1>12, FoundInFront
<1> DEFINE a == FoundIn(above)
           b == FoundIn(around)
           c == FoundIn(itself)
<1>14. Merged(Merged(Merged(merged, a), b), c) = Merged(merged, Merged(a, Merged(b, c)))
  <2> HIDE DEF a, b, c
  <2>1. Merged(Merged(Merged(merged, a), b), c) = Merged(Merged(merged, a), Merged(b, c))
    BY ONLY MergedAssociates
  <2>2. Merged(Merged(merged, a), Merged(b, c)) = Merged(merged, Merged(a, Merged(b, c)))
    BY ONLY MergedAssociates
  <2> QED
    BY <2>1, <2>2
<1> QED
  BY <1>8, <1>9, <1>13, <1>14

\* What the children of a module have been answered.
LEMMA ChildIsFound ==
  ASSUME IInv, Orderly, IsNaming(program), ChildrenOK, NEW name \in ModuleNames, InstanceOf(name) \in Answered
  PROVE  ChildConstants(name) \in FoundUnder(name)
<1> DEFINE all == Inherited(name)
           I == {i \in DOMAIN all : all[i] = Object => name = Object}
           looked == Subsequence(all, I)
           own == <<NamesIn(Object)>>
           obj == SetsOf(Object)
<1>1. CountedAncestors(name) = all /\ IsSeq(all) /\ Values(all) \subseteq ModuleNames
  BY CountedIsInherited
<1>2. ChildConstants(name) = Layered(looked, children)
  BY <1>1 DEF ChildConstants
<1>3. IsSeq(looked) /\ Values(looked) \subseteq ModuleNames
  <2>1. IsSeq(looked) /\ Values(looked) = {all[i] : i \in I \cap DOMAIN all}
    BY <1>1, ValuesOfSubsequence
  <2> QED
    BY <1>1, <2>1 DEF Values
<1>4. PICK sets \in {obj, own} : children[Object] = FoundIn(sets) /\ IsSeq(sets)
  BY SetsOfModules, FoundInOne DEF ChildrenOK
<1>5. SetsUnder(name, all, sets) =
        Concat([i \in DOMAIN looked |-> IF looked[i] = Object THEN sets ELSE <<NamesIn(looked[i])>>])
  BY DEF SetsUnder
<1> DEFINE of == [i \in DOMAIN looked |-> IF looked[i] = Object THEN sets ELSE <<NamesIn(looked[i])>>]
<1>6. DOMAIN of = DOMAIN looked /\ of = [i \in DOMAIN of |-> of[i]]
  OBVIOUS
<1>7. ASSUME NEW i \in DOMAIN looked
      PROVE  IsSeq(of[i]) /\ children[looked[i]] = FoundIn(of[i])
  <2>1. looked[i] \in ModuleNames
    BY <1>3 DEF Values
  <2>2. CASE looked[i] = Object
    BY <1>4, <2>2
  <2>3. CASE looked[i] # Object
    <3>1. of[i] = <<NamesIn(looked[i])>>
      BY <2>3
    <3>2. children[looked[i]] = ConstantsIn(NamesIn(looked[i]))
      BY <2>1, <2>3 DEF ChildrenOK
    <3> HIDE DEF of, looked
    <3> QED
      BY <3>1, <3>2, FoundInOne
  <2> QED
    BY <2>2, <2>3
<1>8. SetsUnder(name, all, sets) = Concat(of)
  BY <1>5
<1> HIDE DEF of, looked
<1>9. Layered(looked, children) = FoundIn(Concat(of))
  BY <1>3, <1>6, <1>7, LayersAreFound
<1> QED
  BY <1>2, <1>4, <1>8, <1>9 DEF FoundUnder

\* Nothing is found under what is no module.
LEMMA NothingIsFoundUnder ==
  ASSUME NEW name, name \notin ModuleNames
  PROVE  <<>> \in FoundUnder(name)
  BY DEF FoundUnder

-----------------------------------------------------------------------------
(* Constants are found: the invariant of the resolver's table and caches.  *)

RequestsOK ==
  /\ IsSeq(requests)
  /\ \A request \in Values(requests) : request.op = "constants" => IsSeq(request.context)

\* What the builder is asked for is what the request needs.
GoalFor ==
  goal # NoGoal =>
    /\ Request.op = "constants" => goal = InstanceOf(ScopeOf(Request.context))
    /\ Request.op = "children" => goal = InstanceOf(Normalized(Request.name))

ContextFound(context, constants) == ~IsWithinObject(context) => constants = FoundIn(SetsOfContext(context))
ContextsFound ==
  \A c \in DOMAIN context_constants_cache : ContextFound(c, context_constants_cache[c])
ChildrenFound ==
  \A n \in DOMAIN child_constants_cache : child_constants_cache[n] \in FoundUnder(n)

\* A result is what it ought to be for the request.
Fitting(request, result) ==
  /\ request.op = "constants" /\ result.is = "value" => ContextFound(request.context, result.value)
  /\ request.op = "children" /\ result.is = "value" => result.value \in FoundUnder(Normalized(request.name))
AnswerFound == answer # None => Fitting(answer.request, answer.result)

KeptOK == ChildrenOK /\ ContextsFound /\ ChildrenFound
Finding == IsNaming(program) /\ RequestsOK /\ GoalFor /\ KeptOK /\ AnswerFound

LEMMA SameFindings ==
  ASSUME program' = program
  PROVE  /\ toplevel' = toplevel /\ ModuleNames' = ModuleNames
         /\ \A m : NamesIn(m)' = NamesIn(m) /\ SetsOf(m)' = SetsOf(m)
         /\ \A c : ScopeOf(c)' = ScopeOf(c)
         /\ \A c, constants : ContextFound(c, constants)' <=> ContextFound(c, constants)
         /\ \A n : FoundUnder(n)' = FoundUnder(n)
         /\ \A request, result : Fitting(request, result)' <=> Fitting(request, result)
<1>1. /\ ModuleNames' = ModuleNames /\ AliasNames' = AliasNames
      /\ \A name : Normalized(name)' = Normalized(name)
      /\ \A node : Linearization(node)' = Linearization(node)
  BY SameLookups, SameFronts DEF AliasNames
<1>2. ConstantNames' = ConstantNames
  BY <1>1 DEF ConstantNames
<1>3. \A n : ParentOf(n)' = ParentOf(n)
  BY <1>1 DEF ParentOf
<1>4. toplevel' = toplevel /\ ToplevelNames' = ToplevelNames /\ \A m : NamesIn(m)' = NamesIn(m)
  BY <1>2, <1>3 DEF toplevel, ToplevelNames, NamesIn
<1>5. \A m : SetsOf(m)' = SetsOf(m)
  BY <1>4 DEF SetsOf
<1>6. \A modules : SetsOfAll(modules)' = SetsOfAll(modules)
  BY <1>5 DEF SetsOfAll
<1>7. \A m : Inherited(m)' = Inherited(m)
  BY <1>1 DEF Inherited, InheritedOf
<1>8. \A c : ScopeOf(c)' = ScopeOf(c) /\ Around(c)' = Around(c)
  BY <1>1 DEF ScopeOf, Around
<1>9. \A c : (IsWithinObject(c)' <=> IsWithinObject(c))
  BY <1>1, <1>7, <1>8 DEF IsWithinObject
<1>10. \A c : SetsOfContext(c)' = SetsOfContext(c)
  <2>1. \A name : SetsOfLast(name)' = SetsOfLast(name)
    BY <1>4 DEF SetsOfLast
  <2> TAKE c
  <2>2. /\ SetsOfAll(Around(c))' = SetsOfAll(Around(c))
        /\ SetsOfAll(Inherited(ScopeOf(c)))' = SetsOfAll(Inherited(ScopeOf(c)))
    BY <1>6, <1>7, <1>8
  <2> QED
    BY <1>5, <2>1, <2>2 DEF SetsOfContext
<1>11. \A n, ancestors, sets : SetsUnder(n, ancestors, sets)' = SetsUnder(n, ancestors, sets)
  BY <1>4 DEF SetsUnder
<1>12. \A n : FoundUnder(n)' = FoundUnder(n)
  BY <1>1, <1>4, <1>5, <1>7, <1>11 DEF FoundUnder
<1>13. \A c, constants : ContextFound(c, constants)' <=> ContextFound(c, constants)
  BY <1>9, <1>10 DEF ContextFound
<1>14. \A request, result : Fitting(request, result)' <=> Fitting(request, result)
  BY <1>1, <1>12, <1>13 DEF Fitting
<1> QED
  BY <1>1, <1>4, <1>5, <1>8, <1>12, <1>13, <1>14

LEMMA KeptStays ==
  ASSUME KeptOK, program' = program, UNCHANGED resolverVars
  PROVE  KeptOK'
<1>1. /\ children' = children /\ context_constants_cache' = context_constants_cache
      /\ child_constants_cache' = child_constants_cache
  BY DEF resolverVars
<1>2. ChildrenOK'
  BY <1>1, SameFindings DEF KeptOK, ChildrenOK
<1>3. ContextsFound' /\ ChildrenFound'
  BY <1>1, SameFindings DEF KeptOK, ContextsFound, ChildrenFound
<1> QED
  BY <1>2, <1>3 DEF KeptOK

LEMMA FinishFinds ==
  ASSUME IInv, Finding, requests # <<>>, NEW result, Finish(result), Fitting(Request, result), KeptOK'
  PROVE  Finding'
<1>1. /\ answer' = [request |-> Request, result |-> result] /\ requests' = Tail(requests)
      /\ goal' = NoGoal /\ program' = program
  BY DEF Finish
<1>2. RequestsOK'
  BY <1>1, ValuesOfTail DEF Finding, RequestsOK
<1>3. GoalFor'
  BY <1>1 DEF GoalFor
<1>4. AnswerFound'
  <2>1. PICK request : request = Request
    OBVIOUS
  <2>2. answer'.request = request /\ answer'.result = result
    BY <1>1, <2>1
  <2>3. Fitting(request, result)'
    BY <1>1, <2>1, SameFindings
  <2> QED
    BY <2>2, <2>3 DEF AnswerFound
<1>5. IsNaming(program)'
  BY <1>1 DEF Finding
<1> QED
  BY <1>2, <1>3, <1>4, <1>5 DEF Finding

LEMMA RaisedFits ==
  ASSUME NEW request, NEW result, \/ \E e : result = Raised(e)
                                  \/ result = Nil
                                  \/ request.op \notin {"constants", "children"}
  PROVE  Fitting(request, result)
  BY DEF Fitting, Raised, Nil

LEMMA AskFinds ==
  ASSUME Finding, NEW node, AskBuilder(node), UNCHANGED resolverVars, requests # <<>>,
         Request.op = "constants" => node = InstanceOf(ScopeOf(Request.context)),
         Request.op = "children" => node = InstanceOf(Normalized(Request.name))
  PROVE  Finding'
<1>1. /\ program' = program /\ goal' = node /\ requests' = requests /\ answer' = answer
  BY DEF AskBuilder
<1>2. KeptOK' /\ RequestsOK' /\ IsNaming(program)'
  BY <1>1, KeptStays DEF Finding, RequestsOK
<1>3. GoalFor'
  <2>1. Request' = Request
    BY <1>1 DEF Request
  <2>2. PICK request : request = Request
    OBVIOUS
  <2>3. /\ request.op = "constants" => node = InstanceOf(ScopeOf(request.context)')
        /\ request.op = "children" => node = InstanceOf(Normalized(request.name)')
    BY <1>1, <2>2, SameFindings, SameLookups
  <2>4. Request' = request
    BY <2>1, <2>2
  <2> QED
    BY <1>1, <2>3, <2>4 DEF GoalFor
<1>4. AnswerFound'
  BY <1>1, SameFindings DEF Finding, AnswerFound
<1> QED
  BY <1>2, <1>3, <1>4 DEF Finding

\* The builder has returned the ancestors of a module.
LEMMA ReturnedIsAnswered ==
  ASSUME IInv, HasReturned, NEW name, goal = InstanceOf(name)
  PROVE  InstanceOf(name) \in Answered
<1>1. IsCached(goal) /\ goal.method \in Methods /\ goal = Node(goal.method, goal.name)
  BY DEF HasReturned, InstanceOf, Node, Methods
<1> QED
  BY <1>1, AnsweredIsCached DEF IInv

LEMMA LoadContextFinds ==
  ASSUME IInv, Orderly, Finding, LoadContextConstants
  PROVE  Finding'
<1> DEFINE scope == ScopeOf(Request.context)
           constants == ContextConstants(Request.context)
<1>1. /\ requests # <<>> /\ Request.op = "constants" /\ HasReturned /\ goal # NoGoal
      /\ children' = WithToplevel(scope) /\ child_constants_cache' = child_constants_cache
      /\ program' = program
  BY DEF LoadContextConstants, IsAsked, HasReturned, Finish
<1>2. goal = InstanceOf(scope) /\ (LastModule(Request.context) # NoModule => HasEntry(LastModule(Request.context)))
  BY <1>1, WorksFor DEF Finding, GoalFor
<1>3. InstanceOf(scope) \in Answered
  BY <1>1, <1>2, ReturnedIsAnswered
<1>4. IsNaming(program) /\ ChildrenOK /\ ContextsFound /\ ChildrenFound
  BY DEF Finding, KeptOK
<1>5. IsSeq(Request.context)
  BY <1>1, ValuesOfTail DEF Finding, RequestsOK, Request
<1>6. ChildrenOK'
  <2>1. /\ TableOK(WithToplevel(scope))
        /\ WithToplevel(scope)[Object] \in {ConstantsIn(NamesIn(Object)), FoundIn(SetsOf(Object))}
    BY <1>4, NamesAreTheirOwn, TablesWithToplevel
  <2>2. /\ DOMAIN children' = ModuleNames
        /\ \A m \in ModuleNames \ {Object} : children'[m] = ConstantsIn(NamesIn(m))
        /\ children'[Object] \in {ConstantsIn(NamesIn(Object)), FoundIn(SetsOf(Object))}
    BY <1>1, <2>1, SetsOfModules DEF TableOK
  <2> QED
    BY <1>1, <2>2, SameFindings DEF ChildrenOK
<1>7. ChildrenFound'
  BY <1>1, <1>4, SameFindings DEF ChildrenFound
<1>8. CASE context_constants_cache' = context_constants_cache /\ \E result : (result = Nil \/ \E e : result = Raised(e)) /\ Finish(result)
  <2>1. ContextsFound'
    BY <1>1, <1>4, <1>8, SameFindings DEF ContextsFound
  <2>2. KeptOK'
    BY <1>6, <1>7, <2>1 DEF KeptOK
  <2>3. PICK result : (result = Nil \/ \E e : result = Raised(e)) /\ Finish(result)
    BY <1>8
  <2>4. Fitting(Request, result)
    BY <2>3, RaisedFits
  <2> QED
    BY <1>1, <2>2, <2>3, <2>4, FinishFinds
<1>9. CASE /\ ~IsBroken(Request.context) /\ ~IsUnplaced(Request.context) /\ Finish(Answer(constants))
           /\ context_constants_cache' = With(context_constants_cache, Request.context, constants)
  <2>1. ContextFound(Request.context, constants)
    BY <1>2, <1>3, <1>4, <1>5, <1>9, ContextIsFound DEF ContextFound
  <2> HIDE DEF constants
  <2>2. ContextsFound'
    <3> DEFINE cache == context_constants_cache
               key == Request.context
               more == With(cache, key, constants)
    <3>1. context_constants_cache' = more
      BY <1>9
    <3>2. ContextFound(key, constants) /\ \A c \in DOMAIN cache : ContextFound(c, cache[c])
      BY <1>4, <2>1 DEF ContextsFound
    <3> HIDE DEF cache, key
    <3>3. \A c \in DOMAIN more : ContextFound(c, more[c])
      <4>1. /\ DOMAIN With(cache, key, constants) = DOMAIN cache \cup {key}
            /\ With(cache, key, constants)[key] = constants
            /\ \A k \in DOMAIN cache : k # key => With(cache, key, constants)[k] = cache[k]
        BY DEF With
      <4> QED
        BY <3>2, <4>1
    <3>4. \A c \in DOMAIN context_constants_cache' : ContextFound(c, context_constants_cache'[c])
      BY <3>1, <3>3
    <3> QED
      BY <1>1, <3>4, SameFindings DEF ContextsFound
  <2>3. KeptOK'
    BY <1>6, <1>7, <2>2 DEF KeptOK
  <2>4. Fitting(Request, Answer(constants))
    BY <1>1, <2>1 DEF Fitting, Answer
  <2> QED
    BY <1>1, <1>9, <2>3, <2>4, FinishFinds
<1> QED
  BY <1>8, <1>9 DEF LoadContextConstants

LEMMA LoadChildFinds ==
  ASSUME IInv, Orderly, Finding, LoadChildConstants
  PROVE  Finding'
<1> DEFINE name == Normalized(Request.name)
           constants == IF HasEntry(Request.name) THEN ChildConstants(name) ELSE <<>>
<1>1. /\ requests # <<>> /\ Request.op = "children" /\ (HasReturned \/ ~HasEntry(Request.name))
      /\ children' = children /\ context_constants_cache' = context_constants_cache
      /\ child_constants_cache' = With(child_constants_cache, name, constants)
      /\ Finish(Answer(constants)) /\ program' = program
  BY DEF LoadChildConstants, IsAsked, Finish
<1>2. IsNaming(program) /\ ChildrenOK /\ ContextsFound /\ ChildrenFound
  BY DEF Finding, KeptOK
<1>3. constants \in FoundUnder(name)
  <2>1. CASE HasEntry(Request.name)
    <3>1. HasReturned /\ goal # NoGoal
      BY <1>1, <2>1 DEF HasReturned
    <3>2. goal = InstanceOf(name)
      BY <1>1, <3>1 DEF Finding, GoalFor
    <3>3. InstanceOf(name) \in Answered
      BY <3>1, <3>2, ReturnedIsAnswered
    <3>4. name \in ModuleNames
      BY <2>1 DEF HasEntry
    <3> QED
      BY <1>2, <2>1, <3>3, <3>4, ChildIsFound
  <2>2. CASE ~HasEntry(Request.name)
    <3>1. name \notin ModuleNames
      <4>1. CASE Request.name = NoModule
        <5>1. <<>> \notin ConstantNames
          BY <1>2, NamesAreTheirOwn
        <5>2. name = <<>>
          BY <4>1, <5>1 DEF NoModule, Normalized, ConstantNames
        <5> QED
          BY <5>1, <5>2 DEF ConstantNames
      <4>2. CASE Request.name # NoModule
        BY <2>2, <4>2 DEF HasEntry
      <4> QED
        BY <4>1, <4>2
    <3> QED
      BY <2>2, <3>1, NothingIsFoundUnder
  <2> QED
    BY <2>1, <2>2
<1> HIDE DEF constants
<1>4. ChildrenFound'
  <2> DEFINE cache == child_constants_cache
             more == With(cache, name, constants)
  <2>1. child_constants_cache' = more
    BY <1>1
  <2>2. constants \in FoundUnder(name) /\ \A n \in DOMAIN cache : cache[n] \in FoundUnder(n)
    BY <1>2, <1>3 DEF ChildrenFound
  <2> HIDE DEF cache, name
  <2>3. \A n \in DOMAIN more : more[n] \in FoundUnder(n)
    <3>1. /\ DOMAIN With(cache, name, constants) = DOMAIN cache \cup {name}
          /\ With(cache, name, constants)[name] = constants
          /\ \A k \in DOMAIN cache : k # name => With(cache, name, constants)[k] = cache[k]
      BY DEF With
    <3> QED
      BY <2>2, <3>1
  <2>4. \A n \in DOMAIN child_constants_cache' : child_constants_cache'[n] \in FoundUnder(n)
    BY <2>1, <2>3
  <2> QED
    BY <1>1, <2>4, SameFindings DEF ChildrenFound
<1>5. ChildrenOK' /\ ContextsFound'
  BY <1>1, <1>2, SameFindings DEF ChildrenOK, ContextsFound
<1>6. Fitting(Request, Answer(constants))
  BY <1>1, <1>3 DEF Fitting, Answer
<1>7. KeptOK'
  BY <1>4, <1>5 DEF KeptOK
<1> QED
  BY <1>1, <1>6, <1>7, FinishFinds

\* What is answered out of the caches
LEMMA RecallFinds ==
  ASSUME IInv, Finding, RecallConstants \/ RecallChildren
  PROVE  Finding'
<1> DEFINE cache == context_constants_cache
           under == child_constants_cache
<1>1. requests # <<>> /\ program' = program /\ UNCHANGED resolverVars
  BY DEF RecallConstants, RecallChildren, IsAsked, Finish
<1>2. KeptOK'
  BY <1>1, KeptStays DEF Finding
<1>3. CASE RecallConstants
  <2>1. /\ Request.op = "constants" /\ Request.context \in DOMAIN cache
        /\ Finish(Answer(cache[Request.context]))
    BY <1>3 DEF RecallConstants, IsAsked
  <2>2. ContextFound(Request.context, cache[Request.context])
    BY <2>1 DEF Finding, KeptOK, ContextsFound
  <2>3. Fitting(Request, Answer(cache[Request.context]))
    BY <2>1, <2>2 DEF Fitting, Answer
  <2> QED
    BY <1>1, <1>2, <2>1, <2>3, FinishFinds
<1>4. CASE RecallChildren
  <2>1. /\ Request.op = "children" /\ Normalized(Request.name) \in DOMAIN under
        /\ Finish(Answer(under[Normalized(Request.name)]))
    BY <1>4 DEF RecallChildren, IsAsked
  <2>2. under[Normalized(Request.name)] \in FoundUnder(Normalized(Request.name))
    BY <2>1 DEF Finding, KeptOK, ChildrenFound
  <2>3. Fitting(Request, Answer(under[Normalized(Request.name)]))
    BY <2>1, <2>2 DEF Fitting, Answer
  <2> QED
    BY <1>1, <1>2, <2>1, <2>3, FinishFinds
<1> QED
  BY <1>3, <1>4

\* The answers that are no constants.
LEMMA OthersFind ==
  ASSUME IInv, Finding, requests # <<>>, UNCHANGED resolverVars, NEW result, Finish(result),
         (\E e : result = Raised(e)) \/ Request.op \notin {"constants", "children"}
  PROVE  Finding'
<1>1. program' = program
  BY DEF Finish
<1>2. KeptOK'
  BY <1>1, KeptStays DEF Finding
<1>3. Fitting(Request, result)
  BY RaisedFits
<1> QED
  BY <1>2, <1>3, FinishFinds

LEMMA FindingStep ==
  ASSUME IInv, Orderly, Finding, [Next]_vars
  PROVE  Finding'
<1>1. ASSUME UNCHANGED vars \/ Rest \/ (BuilderNext /\ UNCHANGED <<resolverVars, requests, answer>>)
      PROVE  Finding'
  <2>1. program' = program /\ goal' = goal /\ requests' = requests /\ answer' = answer /\ UNCHANGED resolverVars
    <3>1. CASE UNCHANGED vars \/ Rest
      BY <3>1 DEF Rest, vars, builderVars
    <3>2. CASE BuilderNext /\ UNCHANGED <<resolverVars, requests, answer>>
      BY <3>2 DEF BuilderNext, EnterGoal, EnterPart, Enter, Raise, TakePart, Return
    <3> QED
      BY <1>1, <3>1, <3>2
  <2>2. KeptOK' /\ RequestsOK' /\ IsNaming(program)'
    BY <2>1, KeptStays DEF Finding, RequestsOK
  <2>3. GoalFor'
    <3>1. Request' = Request
      BY <2>1 DEF Request
    <3>2. PICK request : request = Request
      OBVIOUS
    <3>3. ScopeOf(request.context)' = ScopeOf(request.context) /\ Normalized(request.name)' = Normalized(request.name)
      BY <2>1, SameFindings, SameLookups
    <3>4. Request' = request
      BY <3>1, <3>2
    <3> QED
      BY <2>1, <3>2, <3>3, <3>4 DEF Finding, GoalFor
  <2>4. AnswerFound'
    BY <2>1, SameFindings DEF Finding, AnswerFound
  <2> QED
    BY <2>2, <2>3, <2>4 DEF Finding
<1>2. CASE AskAncestors
  BY <1>2, AskFinds DEF AskAncestors, Methods
<1>3. CASE AskConstants
  BY <1>3, AskFinds DEF AskConstants, IsAsked
<1>4. CASE AskChildren
  BY <1>4, AskFinds DEF AskChildren, IsAsked
<1>5. CASE AnswerAncestors
  BY <1>5, OthersFind DEF AnswerAncestors, Methods
<1>6. CASE Reraise
  BY <1>6, OthersFind DEF Reraise
<1>7. CASE RaiseConstants
  BY <1>7, OthersFind DEF RaiseConstants, IsAsked
<1>8. CASE AnswerCircular
  BY <1>8, OthersFind DEF AnswerCircular, IsAsked
<1>9. CASE AnswerRegular
  <2>1. PICK given \in RegularityAnswers(Aliases) : Finish(Answer(given))
    BY <1>9 DEF AnswerRegular
  <2>2. requests # <<>> /\ Request.op \notin {"constants", "children"} /\ UNCHANGED resolverVars
    BY <1>9 DEF AnswerRegular, IsAsked
  <2> QED
    BY <2>1, <2>2, OthersFind
<1> QED
  BY <1>1, <1>2, <1>3, <1>4, <1>5, <1>6, <1>7, <1>8, <1>9, RecallFinds, LoadContextFinds, LoadChildFinds
     DEF Next, ResolverNext

LEMMA FindingBegins ==
  ASSUME Init
  PROVE  Finding
<1>1. PICK case \in Cases : program = case.program /\ requests = case.requests
  BY DEF Init
<1>2. /\ children = NewChildren /\ context_constants_cache = <<>> /\ child_constants_cache = <<>>
      /\ answer = None /\ goal = NoGoal
  BY DEF Init, ResolverInit, BuilderInit
<1>3. IsNaming(program) /\ RequestsOK
  BY <1>1, NamesAssumption DEF RequestsOK
<1>4. ChildrenOK
  <2>1. \A m : NamesIn(m) = {n \in ConstantNames : Len(n) > 1 /\ ParentOf(n) = m}
    BY DEF NamesIn
  <2>2. DOMAIN children = ModuleNames /\ \A m \in ModuleNames : children[m] = ConstantsIn(NamesIn(m))
    BY <1>2, <2>1 DEF NewChildren
  <2>3. Object \in ModuleNames
    BY <1>3, NamesAreTheirOwn
  <2> QED
    BY <2>2, <2>3 DEF ChildrenOK
<1>5. DOMAIN context_constants_cache = {} /\ DOMAIN child_constants_cache = {}
  BY <1>2, IsSeqEmpty
<1> QED
  BY <1>2, <1>3, <1>4, <1>5 DEF Finding, KeptOK, GoalFor, ContextsFound, ChildrenFound, AnswerFound

\* A constant is the first that is found going out from where it is written, then up the ancestors
\* of the innermost module, then at the top level and in Object; the constants under a module are
\* its own, then those of its ancestors but Object: for any environment in which names are
\* paths, after any calls that returned or raised, out of whatever caches they left, and although
\* a call for a class puts the top level into the table of Object (constants_from_context,
\* constants_from_ancestors, constants_itself, load_child_constants).
THEOREM ConstantsAreFoundAlways == Spec => []ConstantsAreFound
<1>1. Init => IInv /\ Orderly /\ Finding
  BY InitIsRight, OrderBegins, FindingBegins
<1>2. IInv /\ Orderly /\ Finding /\ [Next]_vars => (IInv /\ Orderly /\ Finding)'
  BY NextKeeps, OrderStep, FindingStep
<1>3. IInv /\ Orderly /\ Finding => ConstantsAreFound
  BY DEF Finding, AnswerFound, Fitting, ContextFound, ConstantsAreFound, Asked, HasValue
<1> QED
  BY <1>1, <1>2, <1>3, PTL DEF Spec
=============================================================================
