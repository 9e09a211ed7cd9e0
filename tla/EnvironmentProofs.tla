-------------------------- MODULE EnvironmentProofs --------------------------
(***************************************************************************)
(* Proofs about Environment, for any sources and any resolver.             *)
(*                                                                         *)
(* What has been inserted into an environment is its declarations but for  *)
(* those that are left to add (Inserted).  If it has not raised, the       *)
(* tables are what was inserted, and nothing that was inserted conflicts   *)
(* (TableInv); so a declaration is refused exactly if it conflicts with    *)
(* one of those.  If it has raised there is a conflict, which stays        *)
(* (RaisedInv).  An environment that is being built out of another has     *)
(* entries and a cache of its own, and sources that are those of the other *)
(* one in another order (BuildInv): so it can go without a trace, and only *)
(* raises for a conflict the other one has.                                *)
(***************************************************************************)
EXTENDS Environment, SubsequencesProofs, TLAPS

-----------------------------------------------------------------------------
(* The inductive invariant.                                                *)

IsSources(sources) == IsSeq(sources) /\ \A i \in DOMAIN sources : IsSource(sources[i])

IsEnvironment(env) ==
  /\ env = [sources |-> env.sources, tables |-> env.tables, cache |-> env.cache, meant |-> env.meant]
  /\ IsSources(env.sources)
  /\ env.tables = [t \in Table |-> env.tables[t]]

IsEntry(entry) == entry = [kind |-> entry.kind, decls |-> entry.decls] /\ IsSeq(entry.decls)

TypeOK ==
  /\ IsSeq(envs) /\ \A e \in DOMAIN envs : IsEnvironment(envs[e])
  /\ IsSeq(entries) /\ \A x \in DOMAIN entries : IsEntry(entries[x])
  /\ IsSeq(caches)
  /\ adding = [env |-> adding.env, from |-> adding.from, made |-> adding.made,
               decls |-> adding.decls, sources |-> adding.sources]
  /\ IsDecls(adding.decls) /\ IsSources(adding.sources)
  /\ adding.env \in {0} \cup DOMAIN envs
  /\ adding.env = 0 => Idle
  /\ raised \subseteq DOMAIN envs /\ failed \subseteq DOMAIN envs

Classes(e) == envs[e].tables["class_decls"]

\* Entries and caches exist, and an environment has no entry under two names.
LinkInv ==
  \A e \in DOMAIN envs :
    /\ \A n \in DOMAIN Classes(e) : Classes(e)[n] \in DOMAIN entries
    /\ \A n, m \in DOMAIN Classes(e) : Classes(e)[n] = Classes(e)[m] => n = m
    /\ envs[e].cache \in DOMAIN caches

\* The declarations that are in an environment, in the order of the sources.
Inserted(e) ==
  LET decls == AllDecls(e)
  IN  IF e = adding.env THEN SubSeq(decls, 1, Len(decls) - Len(adding.decls)) ELSE decls

\* What is left to add are the last declarations of the environment.
RestInv ==
  ~Idle => \E inserted : IsSeq(inserted) /\ AllDecls(adding.env) = inserted \o adding.decls

\* Sources that have the same declarations, but for the old names of aliases.
SameDecls(s, t) ==
  /\ DOMAIN s.decls = DOMAIN t.decls
  /\ \A i \in DOMAIN s.decls : s.decls[i].kind = t.decls[i].kind /\ s.decls[i].name = t.decls[i].name

\* All sources of some are sources of others, at different places.
AreOf(sources, others) ==
  \E from \in [DOMAIN sources -> DOMAIN others] :
    /\ \A i \in DOMAIN sources : SameDecls(sources[i], others[from[i]])
    /\ \A i, j \in DOMAIN sources : from[i] = from[j] => i = j

\* An environment that is being built is the last one, and has its own entries and cache.
BuildInv ==
  adding.from # 0 =>
    /\ adding.env = Len(envs) /\ adding.env \notin raised \cup failed
    /\ adding.from \in DOMAIN envs \ {adding.env}
    /\ adding.made \in 0..Len(entries)
    /\ \A n \in DOMAIN Classes(adding.env) : Classes(adding.env)[n] > adding.made
    /\ envs[adding.env].cache = Len(caches)
    /\ \A e \in DOMAIN envs \ {adding.env} :
         /\ \A n \in DOMAIN Classes(e) : Classes(e)[n] <= adding.made
         /\ envs[e].cache < Len(caches)

\* What is in it and will be added to it are sources of the other one.
OriginInv ==
  adding.from # 0 =>
    AreOf(envs[adding.env].sources \o adding.sources, envs[adding.from].sources)

RaisedInv == failed \subseteq raised /\ \A e \in raised : HasConflict(AllDecls(e))

NamesIn(decls, t) == {decls[i].name : i \in {j \in DOMAIN decls : TableOf(decls[j].kind) = t}}

\* The tables have what was inserted, and no two of that conflict.
TableInv ==
  \A e \in DOMAIN envs \ raised :
    LET decls == Inserted(e)
    IN  /\ \A t \in Table : DOMAIN envs[e].tables[t] = NamesIn(decls, t)
        /\ \A i \in DOMAIN decls :
             decls[i].kind \in ModuleKind => entries[Classes(e)[decls[i].name]].kind = decls[i].kind
        /\ ~HasConflict(decls)

\* An entry that nobody shares has the declarations that open its class.
OrderInv ==
  \A e \in DOMAIN envs \ raised : \A n \in DOMAIN Classes(e) :
    HasAlone(e, Classes(e)[n]) => entries[Classes(e)[n]].decls = Openings(Inserted(e), n)

\* A cache that nobody shares has what would be found now, and that is a name.
CacheInv ==
  \A e \in DOMAIN envs : CachesAlone(e) =>
    \A n \in DOMAIN caches[envs[e].cache] :
      \/ IsUnresolved(e, n)
      \/ caches[envs[e].cache][n] = Normalized(e, n) /\ IsName(Normalized(e, n))

\* The invariant of CacheIsCurrent, and that of the other two properties.
CachesInv == TypeOK /\ LinkInv /\ BuildInv /\ CacheInv

IInv == TypeOK /\ LinkInv /\ BuildInv /\ OriginInv /\ RestInv /\ RaisedInv /\ TableInv /\ OrderInv

-----------------------------------------------------------------------------
(* Sequences of declarations, and of sources.                              *)

\* The declarations of sources, one after the other.
DeclsOf(sources) == Concat([i \in DOMAIN sources |-> sources[i].decls])

\* The sequences of a record of sources are sequences of something.
LEMMA SourcesHaveSequences ==
  ASSUME NEW sources, IsSources(sources), NEW s, IsDecls(s)
  PROVE  \E S : [i \in DOMAIN sources |-> sources[i].decls] \in Seq(Seq(S)) /\ s \in Seq(S)
<1> DEFINE Of(i) == {sources[i].decls[j] : j \in DOMAIN sources[i].decls}
           O == {s[j] : j \in DOMAIN s}
           S == O \cup UNION {Of(i) : i \in DOMAIN sources}
<1>1. s \in Seq(O) /\ O \subseteq S
  BY DEF IsDecls, IsSeq
<1>2. ASSUME NEW i \in DOMAIN sources
      PROVE  sources[i].decls \in Seq(Of(i)) /\ Of(i) \subseteq S
  <2>1. IsSeq(sources[i].decls)
    BY DEF IsSources, IsSource, IsDecls
  <2>2. Of(i) \subseteq S
    <3> HIDE DEF O, Of
    <3> QED
      OBVIOUS
  <2> QED
    BY <2>1, <2>2 DEF IsSeq
<1> HIDE DEF O, S, Of
<1>3. s \in Seq(S)
  BY <1>1, SeqWidens
<1>4. \A i \in DOMAIN sources : sources[i].decls \in Seq(S)
  BY <1>2, SeqWidens
<1>5. Len(sources) \in Nat /\ DOMAIN sources = 1..Len(sources)
  BY IsSeqBasics DEF IsSources
<1>6. [i \in DOMAIN sources |-> sources[i].decls] \in [1..Len(sources) -> Seq(S)]
  BY <1>4, <1>5
<1> QED
  BY <1>3, <1>5, <1>6, FunctionIsSeq

\* Nothing, joined.
LEMMA NoDecls == IsDecls(<<>>) /\ IsSources(<<>>) /\ DeclsOf(<<>>) = <<>>
<1>1. IsDecls(<<>>) /\ IsSources(<<>>)
  BY IsSeqEmpty DEF IsDecls, IsSources
<1>2. [i \in DOMAIN <<>> |-> <<>>[i].decls] = <<>>
  <2> DEFINE f == [i \in DOMAIN <<>> |-> <<>>[i].decls]
  <2>1. f \in [1..0 -> {}]
    BY IsSeqEmpty
  <2> HIDE DEF f
  <2>2. IsSeq(f) /\ Len(f) = 0
    BY <2>1, FunctionIsSeq
  <2>3. f = <<>>
    BY <2>2, IsSeqBasics
  <2> QED
    BY <2>3 DEF f
<1> QED
  BY <1>1, <1>2, ConcatEmpty DEF DeclsOf

\* One more source puts its declarations at the end.
LEMMA DeclsOfAppend ==
  ASSUME NEW sources, IsSources(sources), NEW source, IsSource(source)
  PROVE  /\ IsSources(Append(sources, source))
         /\ DeclsOf(Append(sources, source)) = DeclsOf(sources) \o source.decls
<1> DEFINE more == Append(sources, source)
           all == [i \in DOMAIN sources |-> sources[i].decls]
<1>1. IsDecls(source.decls) /\ IsSeq(sources)
  BY DEF IsSource, IsSources
<1>2. /\ IsSeq(more) /\ DOMAIN more = DOMAIN sources \cup {Len(sources) + 1} /\ Len(more) = Len(sources) + 1
      /\ more[Len(sources) + 1] = source /\ \A i \in DOMAIN sources : more[i] = sources[i]
  BY <1>1, IsSeqAppend
<1>3. Len(sources) \in Nat /\ DOMAIN sources = 1..Len(sources)
  BY <1>1, IsSeqBasics
<1> HIDE DEF more
<1>4. IsSources(more)
  BY <1>2 DEF IsSources
<1>5. PICK S : all \in Seq(Seq(S)) /\ source.decls \in Seq(S)
  BY <1>1, SourcesHaveSequences
<1>6. Len(all) = Len(sources)
  BY <1>3, <1>5
<1>7. [i \in DOMAIN more |-> more[i].decls] = Append(all, source.decls)
  <2> DEFINE f == [i \in DOMAIN more |-> more[i].decls]
             g == Append(all, source.decls)
  <2>1. f \in [1..(Len(sources) + 1) -> Seq(S)]
    <3>1. \A i \in DOMAIN sources : all[i] \in Seq(S)
      BY <1>5
    <3> QED
      BY <1>2, <1>3, <1>5, <3>1
  <2>2. f \in Seq(Seq(S)) /\ Len(f) = Len(sources) + 1
    BY <1>3, <2>1, FunctionIsSeq
  <2>3. /\ g \in Seq(Seq(S)) /\ Len(g) = Len(sources) + 1 /\ g[Len(sources) + 1] = source.decls
        /\ \A i \in 1..Len(sources) : g[i] = all[i]
    BY <1>5, <1>6
  <2>4. \A i \in 1..Len(f) : f[i] = g[i]
    BY <1>2, <1>3, <2>2, <2>3
  <2> HIDE DEF f, g
  <2>5. f = g
    BY <2>2, <2>3, <2>4, SeqEqual
  <2> QED
    BY <2>5 DEF f, g
<1>8. Concat(Append(all, source.decls)) = Concat(all) \o source.decls
  BY <1>5, ConcatAppend
<1> HIDE DEF all
<1> QED
  BY <1>4, <1>7, <1>8 DEF DeclsOf, more, all

\* The places of declarations in sources.
Places(sources) == Positions([i \in DOMAIN sources |-> sources[i].decls])

\* Where the declarations of sources are when they are joined.
IsPlacing(at, sources) ==
  /\ at \in [Places(sources) -> DOMAIN DeclsOf(sources)]
  /\ \A x \in Places(sources) : DeclsOf(sources)[at[x]] = sources[x[1]].decls[x[2]]
  /\ \A x, y \in Places(sources) : at[x] = at[y] => x = y
  /\ \A i \in DOMAIN DeclsOf(sources) : \E x \in Places(sources) : at[x] = i

\* Joined sources have the declarations of all their places, each at one of its own.
LEMMA DeclsOfLayout ==
  ASSUME NEW sources, IsSources(sources)
  PROVE  /\ IsDecls(DeclsOf(sources))
         /\ \E at : IsPlacing(at, sources)
<1> DEFINE all == [i \in DOMAIN sources |-> sources[i].decls]
           P == Positions(all)
           decls == Concat(all)
<1>1. PICK S : all \in Seq(Seq(S))
  BY NoDecls, SourcesHaveSequences
<1>2. decls \in Seq(S)
  BY <1>1, ConcatType
<1>3. PICK at : IsLayout(at, all)
  BY <1>1, ConcatLayout
<1>4. \A x \in P : x[1] \in DOMAIN sources /\ all[x[1]] = sources[x[1]].decls /\ x[2] \in DOMAIN all[x[1]]
  BY DEF Positions
<1> HIDE DEF all, P
<1>5. /\ at \in [P -> DOMAIN decls]
      /\ \A x \in P : decls[at[x]] = all[x[1]][x[2]]
      /\ \A x, y \in P : at[x] = at[y] => x = y
      /\ \A i \in DOMAIN decls : \E x \in P : at[x] = i
  BY <1>3 DEF IsLayout, P
<1> HIDE DEF decls
<1>6. IsDecls(decls)
  <2>1. IsSeq(decls)
    BY <1>2, SeqIsSeq
  <2>2. ASSUME NEW i \in DOMAIN decls
        PROVE  /\ decls[i] = [kind |-> decls[i].kind, name |-> decls[i].name,
                              context |-> decls[i].context, old |-> decls[i].old]
               /\ decls[i].kind \in Kind
    <3>1. PICK x \in P : at[x] = i
      BY <1>5
    <3>2. decls[i] = sources[x[1]].decls[x[2]] /\ x[1] \in DOMAIN sources /\ x[2] \in DOMAIN sources[x[1]].decls
      BY <1>4, <1>5, <3>1
    <3>3. IsDecls(sources[x[1]].decls)
      BY <3>2 DEF IsSources, IsSource
    <3> QED
      BY <3>2, <3>3 DEF IsDecls
  <2> QED
    BY <2>1, <2>2 DEF IsDecls
<1>7. /\ at \in [P -> DOMAIN decls]
      /\ \A x \in P : decls[at[x]] = sources[x[1]].decls[x[2]]
      /\ \A x, y \in P : at[x] = at[y] => x = y
      /\ \A i \in DOMAIN decls : \E x \in P : at[x] = i
  BY <1>4, <1>5
<1> QED
  BY <1>6, <1>7 DEF IsPlacing, Places, DeclsOf, decls, P, all

\* A conflict is one between the declarations at two places of the sources.
LEMMA ConflictIsSomewhere ==
  ASSUME NEW sources, IsSources(sources)
  PROVE  HasConflict(DeclsOf(sources)) <=>
           \E x, y \in Places(sources) :
             x # y /\ Conflict(sources[x[1]].decls[x[2]], sources[y[1]].decls[y[2]])
<1> DEFINE P == Places(sources)
           decls == DeclsOf(sources)
<1>1. PICK at \in [P -> DOMAIN decls] :
        /\ \A x \in P : decls[at[x]] = sources[x[1]].decls[x[2]]
        /\ \A x, y \in P : at[x] = at[y] => x = y
        /\ \A i \in DOMAIN decls : \E x \in P : at[x] = i
  BY DeclsOfLayout DEF IsPlacing
<1> HIDE DEF P, decls
<1>2. ASSUME HasConflict(decls)
      PROVE  \E x, y \in P : x # y /\ Conflict(sources[x[1]].decls[x[2]], sources[y[1]].decls[y[2]])
  <2>1. PICK i, j \in DOMAIN decls : i # j /\ Conflict(decls[i], decls[j])
    BY <1>2 DEF HasConflict
  <2>2. PICK x \in P : at[x] = i
    BY <1>1
  <2>3. PICK y \in P : at[y] = j
    BY <1>1
  <2> QED
    BY <1>1, <2>1, <2>2, <2>3
<1>3. ASSUME NEW x \in P, NEW y \in P, x # y,
             Conflict(sources[x[1]].decls[x[2]], sources[y[1]].decls[y[2]])
      PROVE  HasConflict(decls)
  BY <1>1, <1>3 DEF HasConflict
<1> QED
  BY <1>2, <1>3 DEF P, decls

\* The places of declarations, without pairs of numbers that are none.
LEMMA PlacesAre ==
  ASSUME NEW sources, IsSources(sources), NEW x
  PROVE  x \in Places(sources) <=>
           \E i \in DOMAIN sources : \E j \in DOMAIN sources[i].decls : x = <<i, j>>
<1>1. \A i \in DOMAIN sources : i \in Nat
  BY IsSeqBasics DEF IsSources
<1>2. \A i \in DOMAIN sources : \A j \in DOMAIN sources[i].decls : j \in Nat
  BY IsSeqBasics DEF IsSources, IsSource, IsDecls
<1> QED
  BY <1>1, <1>2 DEF Places, Positions

\* The sources of some at different places of others: a conflict is one of the others too.
LEMMA ConflictIsOfOrigin ==
  ASSUME NEW sources, IsSources(sources), NEW others, IsSources(others),
         AreOf(sources, others), HasConflict(DeclsOf(sources))
  PROVE  HasConflict(DeclsOf(others))
<1>1. PICK from \in [DOMAIN sources -> DOMAIN others] :
        /\ \A i \in DOMAIN sources : SameDecls(sources[i], others[from[i]])
        /\ \A i, j \in DOMAIN sources : from[i] = from[j] => i = j
  BY DEF AreOf
<1>2. PICK x, y \in Places(sources) :
        x # y /\ Conflict(sources[x[1]].decls[x[2]], sources[y[1]].decls[y[2]])
  BY ConflictIsSomewhere
<1>3. /\ \E i \in DOMAIN sources : \E j \in DOMAIN sources[i].decls : x = <<i, j>>
      /\ \E i \in DOMAIN sources : \E j \in DOMAIN sources[i].decls : y = <<i, j>>
  BY PlacesAre
<1> PICK i \in DOMAIN sources : \E j \in DOMAIN sources[i].decls : x = <<i, j>>
  BY <1>3
<1> PICK j \in DOMAIN sources[i].decls : x = <<i, j>>
  OBVIOUS
<1> PICK k \in DOMAIN sources : \E l \in DOMAIN sources[k].decls : y = <<k, l>>
  BY <1>3
<1> PICK l \in DOMAIN sources[k].decls : y = <<k, l>>
  OBVIOUS
<1> DEFINE v == <<from[i], j>>
           w == <<from[k], l>>
<1>5. /\ from[i] \in DOMAIN others /\ j \in DOMAIN others[from[i]].decls
      /\ from[k] \in DOMAIN others /\ l \in DOMAIN others[from[k]].decls
  BY <1>1 DEF SameDecls
<1>6. v \in Places(others) /\ w \in Places(others)
  BY <1>5, PlacesAre
<1>7. v # w
  BY <1>1, <1>2
<1>8. Conflict(others[from[i]].decls[j], others[from[k]].decls[l])
  <2>1. Conflict(sources[i].decls[j], sources[k].decls[l])
    BY <1>2
  <2>2. /\ sources[i].decls[j].kind = others[from[i]].decls[j].kind
        /\ sources[i].decls[j].name = others[from[i]].decls[j].name
        /\ sources[k].decls[l].kind = others[from[k]].decls[l].kind
        /\ sources[k].decls[l].name = others[from[k]].decls[l].name
    BY <1>1 DEF SameDecls
  <2> QED
    BY <2>1, <2>2 DEF Conflict
<1>9. Conflict(others[v[1]].decls[v[2]], others[w[1]].decls[w[2]])
  BY <1>8
<1> HIDE DEF v, w
<1> QED
  BY <1>6, <1>7, <1>9, ConflictIsSomewhere

-----------------------------------------------------------------------------
(* Conflicts.                                                              *)

\* Every kind has a table, and three kinds of tables take no other kinds.
LEMMA KindsOfTables ==
  ASSUME NEW kind \in Kind
  PROVE  /\ TableOf(kind) \in Table
         /\ TableOf(kind) = "class_decls" <=> kind \in ModuleKind
         /\ TableOf(kind) = "class_alias_decls" <=> kind \in AliasKind
         /\ TableOf(kind) = "constant_decls" <=> kind = "constant"
  BY DEF Kind, SingleKind, ModuleKind, AliasKind, TableOf, Table

\* A declaration conflicts with those that conflict with it.
LEMMA ConflictIsMutual ==
  ASSUME NEW c, NEW d
  PROVE  Conflict(c, d) <=> Conflict(d, c)
<1>1. {TableOf(c.kind), TableOf(d.kind)} = {TableOf(d.kind), TableOf(c.kind)}
  OBVIOUS
<1>2. ASSUME c.kind = d.kind PROVE c.kind \notin ModuleKind <=> d.kind \notin ModuleKind
  BY <1>2
<1> QED
  BY <1>1, <1>2 DEF Conflict

\* One more declaration conflicts with one that is there, or what is there does.
LEMMA ConflictAppend ==
  ASSUME NEW decls, IsDecls(decls), NEW d
  PROVE  HasConflict(Append(decls, d)) <=>
           HasConflict(decls) \/ \E i \in DOMAIN decls : Conflict(decls[i], d)
<1> DEFINE more == Append(decls, d)
           n == Len(decls) + 1
<1>1. /\ DOMAIN more = DOMAIN decls \cup {n} /\ more[n] = d
      /\ \A i \in DOMAIN decls : more[i] = decls[i]
  BY IsSeqAppend DEF IsDecls
<1>2. n \notin DOMAIN decls
  BY IsSeqBasics DEF IsDecls
<1> HIDE DEF more, n
<1>3. ASSUME NEW i \in DOMAIN more, NEW j \in DOMAIN more, i # j, Conflict(more[i], more[j])
      PROVE  HasConflict(decls) \/ \E k \in DOMAIN decls : Conflict(decls[k], d)
  <2>1. CASE i \in DOMAIN decls /\ j \in DOMAIN decls
    BY <1>1, <1>3, <2>1 DEF HasConflict
  <2>2. CASE i = n
    BY <1>1, <1>3, <2>2, ConflictIsMutual
  <2>3. CASE j = n
    BY <1>1, <1>3, <2>3
  <2> QED
    BY <1>1, <2>1, <2>2, <2>3
<1>4. ASSUME HasConflict(decls) PROVE HasConflict(more)
  BY <1>1, <1>4 DEF HasConflict
<1>5. ASSUME NEW i \in DOMAIN decls, Conflict(decls[i], d) PROVE HasConflict(more)
  <2>1. i \in DOMAIN more /\ n \in DOMAIN more /\ i # n /\ Conflict(more[i], more[n])
    BY <1>1, <1>2, <1>5
  <2> QED
    BY <2>1 DEF HasConflict
<1> QED
  BY <1>3, <1>4, <1>5 DEF HasConflict, more

\* A conflict stays when declarations are added, and so does one with the first of them.
LEMMA ConflictStays ==
  ASSUME NEW decls, IsDecls(decls), NEW rest, IsDecls(rest)
  PROVE  /\ HasConflict(decls) => HasConflict(decls \o rest)
         /\ rest # <<>> /\ (\E i \in DOMAIN decls : Conflict(decls[i], Head(rest)))
              => HasConflict(decls \o rest)
<1> DEFINE all == decls \o rest
<1>1. IsSeq(decls) /\ IsSeq(rest)
  BY DEF IsDecls
<1>2. IsJoin(all, decls, rest)
  BY <1>1, IsSeqJoin
<1> HIDE DEF all
<1>3. Len(decls) \in Nat /\ DOMAIN decls = 1..Len(decls) /\ Len(rest) \in Nat /\ DOMAIN rest = 1..Len(rest)
  BY <1>1, IsSeqBasics
<1>4. \A i \in DOMAIN decls : i \in DOMAIN all /\ all[i] = decls[i]
  BY <1>2, <1>3 DEF IsJoin
<1>5. HasConflict(decls) => HasConflict(all)
  BY <1>4 DEF HasConflict
<1>6. ASSUME rest # <<>>, NEW i \in DOMAIN decls, Conflict(decls[i], Head(rest))
      PROVE  HasConflict(all)
  <2> DEFINE n == Len(decls) + 1
  <2>1. Head(rest) = rest[1] /\ Len(rest) > 0
    BY <1>1, <1>6, IsSeqTail
  <2>2. n \in DOMAIN all /\ all[n] = rest[1] /\ i # n
    BY <1>2, <1>3, <2>1 DEF IsJoin
  <2> HIDE DEF n
  <2> QED
    BY <1>4, <1>6, <2>1, <2>2 DEF HasConflict
<1> QED
  BY <1>5, <1>6 DEF all

\* The tables and the entries are those of declarations that do not conflict.
IsTableOf(tables, kindOf, decls) ==
  /\ \A t \in Table : DOMAIN tables[t] = NamesIn(decls, t)
  /\ \A i \in DOMAIN decls :
       decls[i].kind \in ModuleKind => kindOf[tables["class_decls"][decls[i].name]].kind = decls[i].kind
  /\ ~HasConflict(decls)

\* A name of a table is that of a declaration.
LEMMA NameIsSomewhere ==
  ASSUME NEW decls, NEW t, NEW name
  PROVE  name \in NamesIn(decls, t) <=>
           \E i \in DOMAIN decls : decls[i].name = name /\ TableOf(decls[i].kind) = t
  BY DEF NamesIn

\* A declaration is accepted if it conflicts with nothing that is there.
LEMMA AcceptsIffNoConflict ==
  ASSUME NEW tables, NEW decls, IsDecls(decls), IsTableOf(tables, entries, decls),
         NEW d, d.kind \in Kind
  PROVE  Accepts(tables, d) <=> ~\E i \in DOMAIN decls : Conflict(decls[i], d)
<1> DEFINE T(i) == TableOf(decls[i].kind)
           t == TableOf(d.kind)
           Shared == {"class_decls", "class_alias_decls", "constant_decls"}
<1>1. \A i \in DOMAIN decls : decls[i].kind \in Kind
  BY DEF IsDecls
<1>2. /\ \A i \in DOMAIN decls : T(i) \in Table /\ (T(i) = "class_decls" <=> decls[i].kind \in ModuleKind)
      /\ t \in Table /\ (t = "class_decls" <=> d.kind \in ModuleKind)
      /\ t \in Shared <=> d.kind \in ModuleKind \cup AliasKind \cup {"constant"}
  BY <1>1, KindsOfTables
<1>3. \A s \in Table : \A name : name \in DOMAIN tables[s] <=> \E i \in DOMAIN decls : decls[i].name = name /\ T(i) = s
  BY NameIsSomewhere DEF IsTableOf
<1>4. d.name \in ConstantNames(tables) <=> \E i \in DOMAIN decls : decls[i].name = d.name /\ T(i) \in Shared
  <2>1. Shared \subseteq Table
    BY DEF Table
  <2> QED
    BY <1>3, <2>1 DEF ConstantNames
<1>5. \A i \in DOMAIN decls : Conflict(decls[i], d) <=>
        /\ decls[i].name = d.name
        /\ IF T(i) \in Shared /\ t \in Shared
           THEN decls[i].kind # d.kind \/ decls[i].kind \notin ModuleKind
           ELSE T(i) = t
  BY DEF Conflict
<1>6. \A i, j \in DOMAIN decls : i # j => ~Conflict(decls[i], decls[j])
  BY DEF IsTableOf, HasConflict
<1>7. \A i, j \in DOMAIN decls :
        decls[i].name = decls[j].name /\ T(i) \in Shared /\ T(j) \in Shared /\ ~Conflict(decls[i], decls[j])
          => decls[i].kind = decls[j].kind /\ decls[i].kind \in ModuleKind
  BY DEF Conflict
<1>8. \A i \in DOMAIN decls : decls[i].kind \in ModuleKind =>
        decls[i].name \in DOMAIN tables["class_decls"]
          /\ entries[tables["class_decls"][decls[i].name]].kind = decls[i].kind
  <2>1. "class_decls" \in Table
    BY DEF Table
  <2> QED
    BY <1>2, <1>3, <2>1 DEF IsTableOf
<1>9. "class_decls" \in Shared /\ "class_decls" \in Table
  BY DEF Table
<1>10. ModuleKind \cap (AliasKind \cup {"constant"}) = {}
  BY DEF ModuleKind, AliasKind
<1> HIDE DEF T, t, Shared
<1>11. CASE d.kind \in ModuleKind
  <2>1. Accepts(tables, d) <=>
          (d.name \in ConstantNames(tables) =>
             d.name \in DOMAIN tables["class_decls"] /\ entries[tables["class_decls"][d.name]].kind = d.kind)
    BY <1>10, <1>11 DEF Accepts
  <2>2. ASSUME Accepts(tables, d), NEW i \in DOMAIN decls, Conflict(decls[i], d)
        PROVE  FALSE
    <3>1. decls[i].name = d.name /\ T(i) \in Shared
      BY <1>2, <1>5, <1>9, <1>11, <2>2
    <3>2. d.name \in DOMAIN tables["class_decls"] /\ entries[tables["class_decls"][d.name]].kind = d.kind
      BY <1>4, <2>1, <2>2, <3>1
    <3>3. PICK j \in DOMAIN decls : decls[j].name = d.name /\ T(j) = "class_decls"
      BY <1>3, <1>9, <3>2
    <3>4. decls[j].kind \in ModuleKind /\ T(j) \in Shared
      BY <1>2, <1>9, <3>3
    <3>5. i = j \/ decls[i].kind = decls[j].kind
      BY <1>6, <1>7, <3>1, <3>3, <3>4
    <3>6. decls[i].kind = d.kind
      BY <1>8, <3>2, <3>3, <3>4, <3>5
    <3> QED
      BY <1>2, <1>5, <1>9, <1>11, <2>2, <3>1, <3>6
  <2>3. ASSUME \A i \in DOMAIN decls : ~Conflict(decls[i], d), d.name \in ConstantNames(tables)
        PROVE  d.name \in DOMAIN tables["class_decls"] /\ entries[tables["class_decls"][d.name]].kind = d.kind
    <3>1. PICK i \in DOMAIN decls : decls[i].name = d.name /\ T(i) \in Shared
      BY <1>4, <2>3
    <3>2. decls[i].kind = d.kind
      BY <1>2, <1>5, <1>9, <1>11, <2>3, <3>1
    <3> QED
      BY <1>8, <1>11, <3>1, <3>2
  <2> QED
    BY <2>1, <2>2, <2>3
<1>12. CASE d.kind \in AliasKind \cup {"constant"}
  <2>1. Accepts(tables, d) <=> d.name \notin ConstantNames(tables)
    BY <1>10, <1>12 DEF Accepts
  <2>2. t \in Shared /\ t # "class_decls" /\ d.kind \notin ModuleKind
    BY <1>2, <1>10, <1>12
  <2>3. \A i \in DOMAIN decls : Conflict(decls[i], d) <=> decls[i].name = d.name /\ T(i) \in Shared
    BY <1>5, <2>2
  <2> QED
    BY <1>4, <2>1, <2>3
<1>13. CASE d.kind \notin ModuleKind \cup AliasKind \cup {"constant"}
  <2>1. Accepts(tables, d) <=> d.name \notin DOMAIN tables[t]
    BY <1>13 DEF Accepts, t
  <2>2. t \notin Shared
    BY <1>2, <1>13
  <2>3. \A i \in DOMAIN decls : Conflict(decls[i], d) <=> decls[i].name = d.name /\ T(i) = t
    BY <1>5, <2>2
  <2> QED
    BY <1>2, <1>3, <2>1, <2>3
<1> QED
  BY <1>11, <1>12, <1>13

\* The names of one more declaration.
LEMMA NamesAppend ==
  ASSUME NEW decls, IsDecls(decls), NEW d, NEW t
  PROVE  NamesIn(Append(decls, d), t) =
           IF TableOf(d.kind) = t THEN NamesIn(decls, t) \cup {d.name} ELSE NamesIn(decls, t)
<1> DEFINE more == Append(decls, d)
           n == Len(decls) + 1
<1>1. /\ DOMAIN more = DOMAIN decls \cup {n} /\ more[n] = d
      /\ \A i \in DOMAIN decls : more[i] = decls[i]
  BY IsSeqAppend DEF IsDecls
<1> HIDE DEF more, n
<1>2. NamesIn(more, t) = IF TableOf(d.kind) = t THEN NamesIn(decls, t) \cup {d.name} ELSE NamesIn(decls, t)
  <2>1. ASSUME NEW name
        PROVE  name \in NamesIn(more, t) <=>
                 name \in NamesIn(decls, t) \/ (TableOf(d.kind) = t /\ name = d.name)
    BY <1>1, NameIsSomewhere
  <2> QED
    BY <2>1
<1> QED
  BY <1>2 DEF more

\* The openings of a class, after one more declaration.
LEMMA OpeningsAppend ==
  ASSUME NEW decls, IsDecls(decls), NEW d, NEW n
  PROVE  Openings(Append(decls, d), n) =
           IF d.name = n /\ d.kind \in ModuleKind THEN Append(Openings(decls, n), d) ELSE Openings(decls, n)
<1> DEFINE more == Append(decls, d)
           I == {i \in DOMAIN decls : decls[i].name = n /\ decls[i].kind \in ModuleKind}
           J == {i \in DOMAIN more : more[i].name = n /\ more[i].kind \in ModuleKind}
           l == Len(decls) + 1
<1>1. /\ DOMAIN more = DOMAIN decls \cup {l} /\ more[l] = d
      /\ \A i \in DOMAIN decls : more[i] = decls[i]
  BY IsSeqAppend DEF IsDecls
<1>2. Len(decls) \in Nat /\ DOMAIN decls = 1..Len(decls)
  BY IsSeqBasics DEF IsDecls
<1>3. \A i \in 1..Len(decls) : i \in I <=> i \in J
  BY <1>1, <1>2
<1>4. l \in J <=> d.name = n /\ d.kind \in ModuleKind
  BY <1>1
<1>5. PICK S : decls \in Seq(S) /\ d \in S
  <2>1. IsSeq(Append(decls, d)) /\ IsSeq(decls)
    BY IsSeqAppend DEF IsDecls
  <2>2. PICK S : Append(decls, d) \in Seq(S) /\ decls \in Seq(S)
    BY <2>1, CommonSeq
  <2>3. more[l] \in S
    BY <1>1, <2>2
  <2> QED
    BY <1>1, <2>2, <2>3
<1>6. Subsequence(Append(decls, d), J) =
        IF Len(decls) + 1 \in J THEN Append(Subsequence(decls, I), d) ELSE Subsequence(decls, I)
  <2> HIDE DEF I, J
  <2> QED
    BY <1>3, <1>5, SubsequenceAppend
<1>7. Openings(more, n) = Subsequence(more, J) /\ Openings(decls, n) = Subsequence(decls, I)
  BY DEF Openings
<1> HIDE DEF I, J
<1> QED
  BY <1>4, <1>6, <1>7

\* A class that nothing opens.
LEMMA NoOpenings ==
  ASSUME NEW decls, IsDecls(decls), NEW n, n \notin NamesIn(decls, "class_decls")
  PROVE  Openings(decls, n) = <<>>
<1> DEFINE I == {i \in DOMAIN decls : decls[i].name = n /\ decls[i].kind \in ModuleKind}
           r == Subsequence(decls, I)
<1>1. I = {}
  <2>1. ASSUME NEW i \in DOMAIN decls, decls[i].name = n, decls[i].kind \in ModuleKind PROVE FALSE
    <3>1. TableOf(decls[i].kind) = "class_decls"
      BY <2>1, KindsOfTables DEF IsDecls
    <3> QED
      BY <2>1, <3>1, NameIsSomewhere
  <2> QED
    BY <2>1
<1>2. PICK S : decls \in Seq(S)
  BY DEF IsDecls, IsSeq
<1> HIDE DEF I
<1>3. r \in Seq(S) /\ IsSelection(r, decls, I)
  BY <1>2, SubsequenceSelects
<1> HIDE DEF r
<1>4. DOMAIN r = {}
  <2>1. PICK from \in [DOMAIN r -> I \cap DOMAIN decls] : TRUE
    BY <1>3 DEF IsSelection
  <2> QED
    BY <1>1, <2>1
<1>5. IsSeq(r)
  BY <1>3, SeqIsSeq
<1>6. r = <<>>
  BY <1>4, <1>5, IsSeqBasics
<1> QED
  BY <1>6 DEF Openings, I, r
-----------------------------------------------------------------------------
(* Sources of other sources.                                               *)

\* Sources of sources of others are sources of the others.
LEMMA AreOfOthers ==
  ASSUME NEW r, NEW s, NEW t, AreOf(r, s), AreOf(s, t)
  PROVE  AreOf(r, t)
<1>1. PICK f \in [DOMAIN r -> DOMAIN s] :
        /\ \A i \in DOMAIN r : SameDecls(r[i], s[f[i]])
        /\ \A i, j \in DOMAIN r : f[i] = f[j] => i = j
  BY DEF AreOf
<1>2. PICK g \in [DOMAIN s -> DOMAIN t] :
        /\ \A i \in DOMAIN s : SameDecls(s[i], t[g[i]])
        /\ \A i, j \in DOMAIN s : g[i] = g[j] => i = j
  BY DEF AreOf
<1> DEFINE h == [i \in DOMAIN r |-> g[f[i]]]
<1>3. h \in [DOMAIN r -> DOMAIN t]
  BY <1>1, <1>2
<1>4. ASSUME NEW i \in DOMAIN r
      PROVE  SameDecls(r[i], t[h[i]])
  <2>1. SameDecls(r[i], s[f[i]]) /\ SameDecls(s[f[i]], t[g[f[i]]])
    BY <1>1, <1>2
  <2> QED
    BY <2>1 DEF SameDecls
<1>5. \A i, j \in DOMAIN r : h[i] = h[j] => i = j
  BY <1>1, <1>2
<1> HIDE DEF h
<1> QED
  BY <1>3, <1>4, <1>5 DEF AreOf

\* The first of some.
LEMMA AreOfFront ==
  ASSUME NEW r, IsSeq(r), NEW s, IsSeq(s), NEW t, AreOf(r \o s, t)
  PROVE  AreOf(r, t)
<1> DEFINE all == r \o s
<1>1. IsJoin(all, r, s)
  BY IsSeqJoin
<1>2. Len(r) \in Nat /\ Len(s) \in Nat /\ DOMAIN r = 1..Len(r)
  BY IsSeqBasics
<1> HIDE DEF all
<1>3. PICK f \in [DOMAIN all -> DOMAIN t] :
        /\ \A i \in DOMAIN all : SameDecls(all[i], t[f[i]])
        /\ \A i, j \in DOMAIN all : f[i] = f[j] => i = j
  BY DEF AreOf, all
<1>4. \A i \in DOMAIN r : i \in DOMAIN all /\ all[i] = r[i]
  BY <1>1, <1>2 DEF IsJoin
<1> DEFINE g == [i \in DOMAIN r |-> f[i]]
<1>5. g \in [DOMAIN r -> DOMAIN t] /\ \A i \in DOMAIN r : g[i] = f[i]
  BY <1>3, <1>4
<1> HIDE DEF g
<1>6. /\ \A i \in DOMAIN r : SameDecls(r[i], t[g[i]])
      /\ \A i, j \in DOMAIN r : g[i] = g[j] => i = j
  BY <1>3, <1>4, <1>5
<1> QED
  BY <1>5, <1>6 DEF AreOf

\* Some of the sources, in order.
LEMMA SomeAreOf ==
  ASSUME NEW sources, IsSources(sources), NEW I
  PROVE  /\ IsSources(Subsequence(sources, I)) /\ IsSelection(Subsequence(sources, I), sources, I)
         /\ AreOf(Subsequence(sources, I), sources)
<1> DEFINE r == Subsequence(sources, I)
<1>1. PICK S : sources \in Seq(S)
  BY DEF IsSources, IsSeq
<1>2. r \in Seq(S) /\ IsSelection(r, sources, I)
  BY <1>1, SubsequenceSelects
<1> HIDE DEF r
<1>3. PICK from \in [DOMAIN r -> I \cap DOMAIN sources] :
        /\ \A k \in DOMAIN r : r[k] = sources[from[k]]
        /\ \A k, l \in DOMAIN r : from[k] = from[l] => k = l
  BY <1>2 DEF IsSelection
<1>4. IsSources(r)
  <2>1. IsSeq(r)
    BY <1>2, SeqIsSeq
  <2> QED
    BY <1>3, <2>1 DEF IsSources
<1>5. from \in [DOMAIN r -> DOMAIN sources]
  BY <1>3
<1>6. \A k \in DOMAIN r : SameDecls(r[k], sources[from[k]])
  BY <1>3 DEF SameDecls
<1>7. AreOf(r, sources)
  BY <1>3, <1>5, <1>6 DEF AreOf
<1> QED
  BY <1>2, <1>4, <1>7 DEF r

\* The order in which an environment is rebuilt.
LEMMA RbsFirstAreOf ==
  ASSUME NEW sources, IsSources(sources)
  PROVE  IsSources(RbsFirst(sources)) /\ AreOf(RbsFirst(sources), sources)
<1> DEFINE I == {i \in DOMAIN sources : sources[i].language = "rbs"}
           J == {i \in DOMAIN sources : sources[i].language = "ruby"}
           r == Subsequence(sources, I)
           s == Subsequence(sources, J)
           all == r \o s
<1>1. I \cap J = {}
  OBVIOUS
<1> HIDE DEF I, J
<1>2. /\ IsSources(r) /\ IsSelection(r, sources, I)
      /\ IsSources(s) /\ IsSelection(s, sources, J)
  BY SomeAreOf
<1> HIDE DEF r, s
<1>3. IsJoin(all, r, s)
  BY <1>2, IsSeqJoin DEF IsSources
<1>4. /\ Len(r) \in Nat /\ Len(s) \in Nat /\ DOMAIN r = 1..Len(r) /\ DOMAIN s = 1..Len(s)
  BY <1>2, IsSeqBasics DEF IsSources
<1> HIDE DEF all
<1>5. PICK f \in [DOMAIN r -> I \cap DOMAIN sources] :
        /\ \A k \in DOMAIN r : r[k] = sources[f[k]]
        /\ \A k, l \in DOMAIN r : f[k] = f[l] => k = l
  BY <1>2 DEF IsSelection
<1>6. PICK g \in [DOMAIN s -> J \cap DOMAIN sources] :
        /\ \A k \in DOMAIN s : s[k] = sources[g[k]]
        /\ \A k, l \in DOMAIN s : g[k] = g[l] => k = l
  BY <1>2 DEF IsSelection
<1>7. \A i \in DOMAIN all :
        \/ i \in DOMAIN r /\ i <= Len(r) /\ all[i] = r[i]
        \/ i - Len(r) \in DOMAIN s /\ ~(i <= Len(r)) /\ all[i] = s[i - Len(r)]
  <2> TAKE i \in DOMAIN all
  <2>1. i \in 1..(Len(r) + Len(s))
    BY <1>3 DEF IsJoin
  <2>2. CASE i <= Len(r)
    BY <1>3, <1>4, <2>1, <2>2 DEF IsJoin
  <2>3. CASE ~(i <= Len(r))
    <3>1. i - Len(r) \in 1..Len(s) /\ Len(r) + (i - Len(r)) = i
      BY <1>4, <2>1, <2>3
    <3> QED
      BY <1>3, <1>4, <2>3, <3>1 DEF IsJoin
  <2> QED
    BY <2>2, <2>3
<1> DEFINE h == [i \in DOMAIN all |-> IF i <= Len(r) THEN f[i] ELSE g[i - Len(r)]]
<1>8. ASSUME NEW i \in DOMAIN all
      PROVE  /\ h[i] \in DOMAIN sources /\ all[i] = sources[h[i]]
             /\ i <= Len(r) => h[i] \in I /\ h[i] = f[i]
             /\ ~(i <= Len(r)) => h[i] \in J /\ h[i] = g[i - Len(r)]
  BY <1>5, <1>6, <1>7
<1>9. h \in [DOMAIN all -> DOMAIN sources]
  BY <1>8
<1> HIDE DEF h
<1>10. ASSUME NEW i \in DOMAIN all, NEW j \in DOMAIN all, h[i] = h[j]
       PROVE  i = j
  <2>1. (i <= Len(r)) = (j <= Len(r))
    BY <1>1, <1>8, <1>10
  <2>2. CASE i <= Len(r)
    BY <1>5, <1>7, <1>8, <1>10, <2>1, <2>2
  <2>3. CASE ~(i <= Len(r))
    <3>1. g[i - Len(r)] = g[j - Len(r)] /\ i - Len(r) \in DOMAIN s /\ j - Len(r) \in DOMAIN s
      BY <1>7, <1>8, <1>10, <2>1, <2>3
    <3>2. i - Len(r) = j - Len(r)
      BY <1>6, <3>1
    <3>3. i \in Int /\ j \in Int
      BY <1>3, <1>4 DEF IsJoin
    <3> QED
      BY <1>4, <3>2, <3>3
  <2> QED
    BY <2>2, <2>3
<1>11. AreOf(all, sources)
  <2>1. \A i \in DOMAIN all : SameDecls(all[i], sources[h[i]])
    BY <1>8 DEF SameDecls
  <2> QED
    BY <1>9, <1>10, <2>1 DEF AreOf
<1>12. IsSources(all)
  <2>1. \A i \in DOMAIN all : IsSource(all[i])
    BY <1>8 DEF IsSources
  <2>2. IsSeq(all)
    BY <1>3 DEF IsJoin
  <2> QED
    BY <2>1, <2>2 DEF IsSources
<1> QED
  BY <1>11, <1>12 DEF RbsFirst, all, r, s, I, J

\* Resolving keeps the kinds and the names.
LEMMA ResolvedAreOf ==
  ASSUME NEW program, NEW sources, IsSources(sources)
  PROVE  LET resolved == [i \in DOMAIN sources |-> ResolveSource(program, sources[i])]
         IN  IsSources(resolved) /\ AreOf(resolved, sources)
<1> DEFINE resolved == [i \in DOMAIN sources |-> ResolveSource(program, sources[i])]
<1>1. ASSUME NEW source, IsSource(source)
      PROVE  IsSource(ResolveSource(program, source)) /\ SameDecls(ResolveSource(program, source), source)
  <2> DEFINE decls == [i \in DOMAIN source.decls |-> ResolveDecl(program, source.decls[i])]
             new == ResolveSource(program, source)
  <2>1. IsDecls(source.decls)
    BY <1>1 DEF IsSource
  <2>2. ASSUME NEW i \in DOMAIN source.decls
        PROVE  LET d == source.decls[i]
                   r == ResolveDecl(program, d)
               IN  /\ r = [kind |-> r.kind, name |-> r.name, context |-> r.context, old |-> r.old]
                   /\ r.kind = d.kind /\ r.name = d.name
    <3> DEFINE d == source.decls[i]
               path == Resolved(program, d.old, d.context).path
    <3>1. d = [kind |-> d.kind, name |-> d.name, context |-> d.context, old |-> d.old]
      BY <2>1 DEF IsDecls
    <3>2. ResolveDecl(program, d) = d \/ ResolveDecl(program, d) = [d EXCEPT !.old = Absolute(path)]
      BY DEF ResolveDecl
    <3> HIDE DEF d, path
    <3>3. [d EXCEPT !.old = Absolute(path)] =
            [kind |-> d.kind, name |-> d.name, context |-> d.context, old |-> Absolute(path)]
      BY <3>1
    <3> QED
      BY <3>1, <3>2, <3>3 DEF d
  <2>3. IsDecls(decls) /\ DOMAIN decls = DOMAIN source.decls
    <3>1. Len(source.decls) \in Nat /\ DOMAIN source.decls = 1..Len(source.decls)
      BY <2>1, IsSeqBasics DEF IsDecls
    <3> DEFINE R == {decls[i] : i \in DOMAIN source.decls}
    <3>2. decls \in [1..Len(source.decls) -> R]
      BY <3>1
    <3>3. IsSeq(decls)
      <4> HIDE DEF decls
      <4> QED
        BY <3>1, <3>2, FunctionIsSeq
    <3>4. \A i \in DOMAIN decls : decls[i] = ResolveDecl(program, source.decls[i]) /\ source.decls[i].kind \in Kind
      BY <2>1 DEF IsDecls
    <3>5. DOMAIN decls = DOMAIN source.decls
      OBVIOUS
    <3> HIDE DEF decls
    <3> QED
      BY <2>2, <3>3, <3>4, <3>5 DEF IsDecls
  <2>4. CASE source.resolve
    <3>1. new = [source EXCEPT !.decls = decls]
      BY <2>4 DEF ResolveSource
    <3> HIDE DEF decls, new
    <3>2. /\ source = [path |-> source.path, language |-> source.language,
                       resolve |-> source.resolve, decls |-> source.decls]
          /\ source.language \in {"rbs", "ruby"}
      BY <1>1 DEF IsSource
    <3>3. new = [path |-> source.path, language |-> source.language,
                 resolve |-> source.resolve, decls |-> decls]
      BY <3>1, <3>2
    <3>4. IsSource(new)
      BY <2>3, <3>2, <3>3 DEF IsSource
    <3>5. SameDecls(new, source)
      BY <2>2, <2>3, <3>3 DEF SameDecls, decls
    <3> QED
      BY <3>4, <3>5 DEF new
  <2>5. CASE ~source.resolve
    BY <1>1, <2>5 DEF ResolveSource, SameDecls
  <2> QED
    BY <2>4, <2>5
<1>2. DOMAIN resolved = DOMAIN sources
  OBVIOUS
<1>3. \A i \in DOMAIN sources : IsSource(resolved[i]) /\ SameDecls(resolved[i], sources[i])
  BY <1>1 DEF IsSources
<1>4. IsSeq(resolved)
  <2> DEFINE R == {resolved[i] : i \in DOMAIN sources}
  <2>1. Len(sources) \in Nat /\ DOMAIN sources = 1..Len(sources)
    BY IsSeqBasics DEF IsSources
  <2>2. resolved \in [1..Len(sources) -> R]
    BY <2>1
  <2> HIDE DEF resolved
  <2> QED
    BY <2>1, <2>2, FunctionIsSeq
<1>5. AreOf(resolved, sources)
  <2> DEFINE from == [i \in DOMAIN sources |-> i]
  <2>1. from \in [DOMAIN resolved -> DOMAIN sources] /\ \A i \in DOMAIN sources : from[i] = i
    BY <1>2
  <2> HIDE DEF from, resolved
  <2> QED
    BY <1>2, <1>3, <2>1 DEF AreOf
<1> HIDE DEF resolved
<1> QED
  BY <1>2, <1>3, <1>4, <1>5 DEF IsSources, resolved
-----------------------------------------------------------------------------
(* What the steps do.                                                      *)

\* What comes before the end of a sequence.
LEMMA JoinFront ==
  ASSUME NEW s, IsSeq(s), NEW t, IsSeq(t)
  PROVE  SubSeq(s \o t, 1, Len(s \o t) - Len(t)) = s
<1> DEFINE d == s \o t
<1>1. IsJoin(d, s, t)
  BY IsSeqJoin
<1>2. Len(s) \in Nat /\ DOMAIN s = 1..Len(s) /\ Len(t) \in Nat
  BY IsSeqBasics
<1> HIDE DEF d
<1>3. Len(d) - Len(t) = Len(s) /\ Len(s) \in 0..Len(d) /\ IsSeq(d)
  BY <1>1, <1>2 DEF IsJoin
<1> DEFINE r == SubSeq(d, 1, Len(s))
<1>4. IsSeq(r) /\ Len(r) = Len(s) /\ \A i \in 1..Len(s) : r[i] = d[i]
  BY <1>3, IsSeqFront
<1> HIDE DEF r
<1>5. r = s
  BY <1>1, <1>2, <1>4, IsSeqEqual DEF IsJoin
<1> QED
  BY <1>3, <1>5 DEF r, d

\* The declarations of an environment are those of its sources.
LEMMA AllDeclsAre ==
  /\ \A e : AllDecls(e) = DeclsOf(envs[e].sources)
  /\ \A e : AllDecls(e)' = DeclsOf(envs'[e].sources)
  BY DEF AllDecls, DeclsOf

\* What has been inserted into the environments.
LEMMA InsertedAre ==
  ASSUME TypeOK, RestInv
  PROVE  /\ \A e : IsDecls(AllDecls(e)) \/ e \notin DOMAIN envs
         /\ \A e : e # adding.env => Inserted(e) = AllDecls(e)
         /\ ~Idle => /\ adding.env \in DOMAIN envs
                     /\ AllDecls(adding.env) = Inserted(adding.env) \o adding.decls
         /\ \A e \in DOMAIN envs : IsDecls(Inserted(e))
         /\ Idle => \A e \in DOMAIN envs : e # adding.env
<1>1. \A e \in DOMAIN envs : IsDecls(AllDecls(e))
  BY AllDeclsAre, DeclsOfLayout DEF TypeOK, IsEnvironment
<1>2. \A e : e # adding.env => Inserted(e) = AllDecls(e)
  BY DEF Inserted
<1>3. Idle => \A e \in DOMAIN envs : e # adding.env
  BY IsSeqBasics DEF TypeOK, Idle, Nothing
<1>4. ASSUME ~Idle
      PROVE  /\ adding.env \in DOMAIN envs /\ IsDecls(Inserted(adding.env))
             /\ AllDecls(adding.env) = Inserted(adding.env) \o adding.decls
  <2>1. PICK s : IsSeq(s) /\ AllDecls(adding.env) = s \o adding.decls
    BY <1>4 DEF RestInv
  <2>2. IsSeq(adding.decls)
    BY DEF TypeOK, IsDecls
  <2>3. Inserted(adding.env) = SubSeq(AllDecls(adding.env), 1, Len(AllDecls(adding.env)) - Len(adding.decls))
    BY DEF Inserted
  <2>4. Inserted(adding.env) = s
    BY <2>1, <2>2, <2>3, JoinFront
  <2>5. adding.env \in DOMAIN envs
    BY <1>4 DEF TypeOK
  <2>6. IsDecls(s)
    <3> DEFINE all == AllDecls(adding.env)
    <3>1. IsJoin(s \o adding.decls, s, adding.decls)
      BY <2>1, <2>2, IsSeqJoin
    <3>2. IsJoin(all, s, adding.decls)
      BY <2>1, <3>1
    <3>3. IsDecls(all)
      BY <1>1, <2>5
    <3> HIDE DEF all
    <3>4. Len(s) \in Nat /\ DOMAIN s = 1..Len(s) /\ Len(adding.decls) \in Nat
      BY <2>1, <2>2, IsSeqBasics
    <3>5. \A i \in DOMAIN s : i \in DOMAIN all /\ all[i] = s[i]
      BY <3>2, <3>4 DEF IsJoin
    <3> QED
      BY <2>1, <3>3, <3>5 DEF IsDecls
  <2> QED
    BY <2>1, <2>4, <2>5, <2>6
<1>5. \A e \in DOMAIN envs : IsDecls(Inserted(e))
  BY <1>1, <1>2, <1>3, <1>4
<1> QED
  BY <1>1, <1>2, <1>3, <1>4, <1>5

\* An environment with one more source, or one more name.
LEMMA EnvironmentSourced ==
  ASSUME NEW env, IsEnvironment(env), NEW source, IsSource(source), NEW new, NEW meant,
         new = [sources |-> Append(env.sources, source), tables |-> env.tables,
                cache |-> env.cache, meant |-> meant]
  PROVE  /\ IsEnvironment(new) /\ new.sources = Append(env.sources, source)
         /\ new.tables = env.tables /\ new.cache = env.cache
<1>3. IsSources(Append(env.sources, source))
  BY DeclsOfAppend DEF IsEnvironment
<1> QED
  BY <1>3 DEF IsEnvironment

\* An environment with another table.
LEMMA EnvironmentInserted ==
  ASSUME NEW env, IsEnvironment(env), NEW t \in Table, NEW table,
         NEW new, new = [env EXCEPT !.tables[t] = table]
  PROVE  /\ IsEnvironment(new) /\ new.sources = env.sources /\ new.cache = env.cache
         /\ new.tables[t] = table /\ \A u \in Table : u # t => new.tables[u] = env.tables[u]
<1> DEFINE tables == [env.tables EXCEPT ![t] = table]
<1>1. env = [sources |-> env.sources, tables |-> env.tables, cache |-> env.cache, meant |-> env.meant]
  BY DEF IsEnvironment
<1>2. new = [sources |-> env.sources, tables |-> tables, cache |-> env.cache, meant |-> env.meant]
  BY <1>1
<1>3. env.tables = [u \in Table |-> env.tables[u]]
  BY DEF IsEnvironment
<1>4. DOMAIN env.tables = Table
  BY <1>3
<1>5. tables = [u \in Table |-> IF u = t THEN table ELSE env.tables[u]]
  BY <1>4
<1> HIDE DEF tables
<1>6. tables[t] = table /\ \A u \in Table : u # t => tables[u] = env.tables[u]
  BY <1>5
<1>7. tables = [u \in Table |-> tables[u]]
  BY <1>5
<1> QED
  BY <1>2, <1>6, <1>7 DEF IsEnvironment

\* Adding a source.
LEMMA SourceStep ==
  ASSUME TypeOK, NEW e, NEW source,
         \/ e \in DOMAIN envs /\ source \in Source /\ AddSource(e, source)
         \/ AddNextSource /\ e = adding.env /\ source = Head(adding.sources)
  PROVE  /\ e \in DOMAIN envs /\ IsSource(source)
         /\ IsSeq(envs') /\ Len(envs') = Len(envs) /\ DOMAIN envs' = DOMAIN envs
         /\ \A f \in DOMAIN envs : f # e => envs'[f] = envs[f]
         /\ IsEnvironment(envs'[e]) /\ envs'[e].sources = Append(envs[e].sources, source)
         /\ envs'[e].tables = envs[e].tables /\ envs'[e].cache = envs[e].cache
         /\ adding' = [env |-> e, from |-> adding.from, made |-> adding.made,
                       decls |-> source.decls, sources |-> adding'.sources]
         /\ IsSources(adding'.sources)
         /\ adding.from # 0 => /\ e = adding.env
                               /\ envs'[e].sources \o adding'.sources = envs[e].sources \o adding.sources
         /\ UNCHANGED <<entries, caches, raised, failed>>
<1>1. CASE e \in DOMAIN envs /\ source \in Source /\ AddSource(e, source)
  <2>1. IsSource(source)
    BY <1>1, SourceAssumption
  <2>2. adding.from = 0 /\ adding.made = 0
    BY <1>1 DEF AddSource, Idle, Nothing
  <2>3. adding' = [env |-> e, from |-> 0, made |-> 0, decls |-> source.decls, sources |-> <<>>]
    BY <1>1 DEF AddSource
  <2> DEFINE new == [envs[e] EXCEPT !.sources = Append(@, source), !.meant = <<>>]
             record == [sources |-> Append(envs[e].sources, source), tables |-> envs[e].tables,
                        cache |-> envs[e].cache, meant |-> <<>>]
  <2>4. envs' = [envs EXCEPT ![e] = new]
    BY <1>1 DEF AddSource
  <2>5. IsEnvironment(envs[e])
    BY <1>1 DEF TypeOK
  <2>6. new = record
    <3> DEFINE env == envs[e]
               sources == Append(env.sources, source)
    <3>1. env = [sources |-> env.sources, tables |-> env.tables, cache |-> env.cache, meant |-> env.meant]
      BY <2>5 DEF IsEnvironment
    <3>2. new = [env EXCEPT !.sources = sources, !.meant = <<>>]
      OBVIOUS
    <3> HIDE DEF env, sources, new
    <3>3. new = [sources |-> sources, tables |-> env.tables, cache |-> env.cache, meant |-> <<>>]
      BY <3>1, <3>2
    <3> QED
      BY <3>3 DEF env, sources
  <2> HIDE DEF new
  <2>7. /\ IsEnvironment(new) /\ new.sources = Append(envs[e].sources, source)
        /\ new.tables = envs[e].tables /\ new.cache = envs[e].cache
    BY <1>1, <2>1, <2>6, EnvironmentSourced DEF TypeOK
  <2>8. /\ IsSeq(envs') /\ Len(envs') = Len(envs) /\ DOMAIN envs' = DOMAIN envs
        /\ envs'[e] = new /\ \A f \in DOMAIN envs : f # e => envs'[f] = envs[f]
    BY <1>1, <2>4, IsSeqExcept DEF TypeOK
  <2>9. UNCHANGED <<entries, caches, raised, failed>>
    BY <1>1 DEF AddSource
  <2> QED
    BY <1>1, <2>1, <2>2, <2>3, <2>7, <2>8, <2>9, NoDecls
<1>2. CASE AddNextSource /\ e = adding.env /\ source = Head(adding.sources)
  <2>1. e \in DOMAIN envs /\ adding.sources # <<>> /\ IsSeq(adding.sources)
    BY <1>2 DEF AddNextSource, TypeOK, IsSources
  <2>2. IsSource(source) /\ IsSources(Tail(adding.sources))
    BY <1>2, <2>1, IsSeqTail DEF TypeOK, IsSources
  <2>3. adding' = [adding EXCEPT !.decls = source.decls, !.sources = Tail(@)]
    BY <1>2 DEF AddNextSource
  <2>4. adding' = [env |-> e, from |-> adding.from, made |-> adding.made,
                   decls |-> source.decls, sources |-> Tail(adding.sources)]
    BY <1>2, <2>3 DEF TypeOK
  <2> DEFINE new == [envs[e] EXCEPT !.sources = Append(@, source)]
  <2>5. envs' = [envs EXCEPT ![e] = new]
    BY <1>2 DEF AddNextSource
  <2>6. IsEnvironment(envs[e])
    BY <2>1 DEF TypeOK
  <2>7. new = [sources |-> Append(envs[e].sources, source), tables |-> envs[e].tables,
               cache |-> envs[e].cache, meant |-> envs[e].meant]
    BY <2>6 DEF IsEnvironment
  <2> HIDE DEF new
  <2>8. /\ IsEnvironment(new) /\ new.sources = Append(envs[e].sources, source)
        /\ new.tables = envs[e].tables /\ new.cache = envs[e].cache
    BY <2>2, <2>6, <2>7, EnvironmentSourced
  <2>9. /\ IsSeq(envs') /\ Len(envs') = Len(envs) /\ DOMAIN envs' = DOMAIN envs
        /\ envs'[e] = new /\ \A f \in DOMAIN envs : f # e => envs'[f] = envs[f]
    BY <2>1, <2>5, IsSeqExcept DEF TypeOK
  <2>10. UNCHANGED <<entries, caches, raised, failed>>
    BY <1>2 DEF AddNextSource
  <2>11. IsSeq(envs[e].sources)
    BY <2>6 DEF IsEnvironment, IsSources
  <2>12. envs[e].sources \o adding.sources = Append(envs[e].sources, source) \o Tail(adding.sources)
    BY <1>2, <2>1, <2>11, ShiftFirst
  <2> QED
    BY <1>2, <2>1, <2>2, <2>4, <2>8, <2>9, <2>10, <2>12
<1> QED
  BY <1>1, <1>2

\* Inserting a declaration.
Insert == InsertModule \/ OpenModule \/ InsertSingle

\* What a step that inserts does to the environments, but for the one table.
LEMMA InsertStep ==
  ASSUME TypeOK, LinkInv, Insert
  PROVE  /\ ~Idle /\ adding.env \in DOMAIN envs /\ adding.decls # <<>>
         /\ Accepts(Tables, Decl) /\ Decl.kind \in Kind
         /\ adding' = [env |-> adding.env, from |-> adding.from, made |-> adding.made,
                       decls |-> Tail(adding.decls), sources |-> adding.sources]
         /\ IsSeq(envs') /\ Len(envs') = Len(envs) /\ DOMAIN envs' = DOMAIN envs
         /\ \A f \in DOMAIN envs : f # adding.env => envs'[f] = envs[f]
         /\ IsEnvironment(envs'[adding.env])
         /\ envs'[adding.env].sources = envs[adding.env].sources
         /\ envs'[adding.env].cache = envs[adding.env].cache
         /\ \A t \in Table : t # TableOf(Decl.kind) => envs'[adding.env].tables[t] = Tables[t]
         /\ LET t == TableOf(Decl.kind)
            IN  DOMAIN envs'[adding.env].tables[t] = DOMAIN Tables[t] \cup {Decl.name}
         /\ UNCHANGED <<caches, raised, failed>>
<1> DEFINE e == adding.env
           t == TableOf(Decl.kind)
<1>1. /\ ~Idle /\ e \in DOMAIN envs /\ adding.decls # <<>> /\ Accepts(Tables, Decl)
      /\ Decl.kind \in Kind /\ UNCHANGED <<caches, raised, failed>>
      /\ adding' = [adding EXCEPT !.decls = Tail(@)]
  <2>1. Kind = ModuleKind \cup SingleKind
    BY DEF Kind
  <2> QED
    BY <2>1 DEF Insert, InsertModule, OpenModule, InsertSingle, Inserting, TypeOK
<1>2. adding' = [env |-> adding.env, from |-> adding.from, made |-> adding.made,
                 decls |-> Tail(adding.decls), sources |-> adding.sources]
  BY <1>1 DEF TypeOK
<1>3. IsEnvironment(envs[e]) /\ t \in Table /\ "class_decls" \in Table
  BY <1>1, KindsOfTables DEF TypeOK, Table
<1>4. ASSUME NEW table, envs' = [envs EXCEPT ![e] = [envs[e] EXCEPT !.tables[t] = table]],
             DOMAIN table = DOMAIN Tables[t] \cup {Decl.name}
      PROVE  /\ IsSeq(envs') /\ Len(envs') = Len(envs) /\ DOMAIN envs' = DOMAIN envs
             /\ \A f \in DOMAIN envs : f # e => envs'[f] = envs[f]
             /\ IsEnvironment(envs'[e]) /\ envs'[e].sources = envs[e].sources /\ envs'[e].cache = envs[e].cache
             /\ \A u \in Table : u # t => envs'[e].tables[u] = Tables[u]
             /\ DOMAIN envs'[e].tables[t] = DOMAIN Tables[t] \cup {Decl.name}
  <2> DEFINE new == [envs[e] EXCEPT !.tables[t] = table]
             env == envs[e]
  <2>1. IsSeq(envs)
    BY DEF TypeOK
  <2>2. envs' = [envs EXCEPT ![e] = new]
    BY <1>4
  <2> HIDE DEF t, e
  <2>3. new = [env EXCEPT !.tables[t] = table]
    OBVIOUS
  <2>4. IsEnvironment(env)
    BY <1>3
  <2> HIDE DEF new, env
  <2>5. /\ IsEnvironment(new) /\ new.sources = env.sources /\ new.cache = env.cache
        /\ new.tables[t] = table /\ \A u \in Table : u # t => new.tables[u] = env.tables[u]
    BY <1>3, <2>3, <2>4, EnvironmentInserted, SMTT(20)
  <2>6. /\ IsSeq(envs') /\ Len(envs') = Len(envs) /\ DOMAIN envs' = DOMAIN envs
        /\ envs'[e] = new /\ \A f \in DOMAIN envs : f # e => envs'[f] = envs[f]
    <3>1. e \in DOMAIN envs
      BY <1>1
    <3> QED
      BY <2>1, <2>2, <3>1, IsSeqExcept
  <2> QED
    BY <1>4, <2>5, <2>6 DEF env, Tables, e
<1>5. CASE InsertModule
  <2> DEFINE table == Set(Tables["class_decls"], Decl.name, Len(entries) + 1)
  <2>1. t = "class_decls"
    BY <1>1, <1>5, KindsOfTables DEF InsertModule, Inserting
  <2>2. envs' = [envs EXCEPT ![e] = [envs[e] EXCEPT !.tables[t] = table]]
    BY <1>5, <2>1 DEF InsertModule, Tables
  <2>3. DOMAIN table = DOMAIN Tables[t] \cup {Decl.name}
    BY <2>1 DEF Set
  <2> HIDE DEF t, e, table
  <2>4. /\ IsSeq(envs') /\ Len(envs') = Len(envs) /\ DOMAIN envs' = DOMAIN envs
        /\ \A f \in DOMAIN envs : f # e => envs'[f] = envs[f]
        /\ IsEnvironment(envs'[e]) /\ envs'[e].sources = envs[e].sources /\ envs'[e].cache = envs[e].cache
        /\ \A u \in Table : u # t => envs'[e].tables[u] = Tables[u]
        /\ DOMAIN envs'[e].tables[t] = DOMAIN Tables[t] \cup {Decl.name}
    BY <1>4, <2>2, <2>3
  <2> QED
    BY <1>1, <1>2, <2>4 DEF t, e
<1>6. CASE OpenModule
  <2>1. envs' = envs /\ Decl.name \in DOMAIN Tables["class_decls"] /\ t = "class_decls"
    BY <1>1, <1>6, KindsOfTables DEF OpenModule, Inserting
  <2>2. DOMAIN Tables[t] \cup {Decl.name} = DOMAIN Tables[t]
    BY <2>1
  <2> QED
    BY <1>1, <1>2, <1>3, <2>1, <2>2 DEF TypeOK, Tables
<1>7. CASE InsertSingle
  <2> DEFINE table == Set(Tables[t], Decl.name, Decl)
  <2>1. envs' = [envs EXCEPT ![e] = [envs[e] EXCEPT !.tables[t] = table]]
    BY <1>7 DEF InsertSingle, Tables
  <2>2. DOMAIN table = DOMAIN Tables[t] \cup {Decl.name}
    BY DEF Set
  <2> HIDE DEF t, e, table
  <2>3. /\ IsSeq(envs') /\ Len(envs') = Len(envs) /\ DOMAIN envs' = DOMAIN envs
        /\ \A f \in DOMAIN envs : f # e => envs'[f] = envs[f]
        /\ IsEnvironment(envs'[e]) /\ envs'[e].sources = envs[e].sources /\ envs'[e].cache = envs[e].cache
        /\ \A u \in Table : u # t => envs'[e].tables[u] = Tables[u]
        /\ DOMAIN envs'[e].tables[t] = DOMAIN Tables[t] \cup {Decl.name}
    BY <1>4, <2>1, <2>2
  <2> QED
    BY <1>1, <1>2, <2>3 DEF t, e
<1> QED
  BY <1>5, <1>6, <1>7 DEF Insert

\* What becomes of the entries and the tables of classes and aliases.
LEMMA InsertModuleStep ==
  ASSUME TypeOK, LinkInv, InsertModule
  PROVE  /\ Decl.kind \in ModuleKind /\ Decl.name \notin DOMAIN Tables["class_decls"]
         /\ entries' = Append(entries, [kind |-> Decl.kind, decls |-> <<Decl>>])
         /\ \A n \in DOMAIN Tables["class_decls"] : Classes(adding.env)'[n] = Classes(adding.env)[n]
         /\ Classes(adding.env)'[Decl.name] = Len(entries) + 1
         /\ DOMAIN Classes(adding.env)' = DOMAIN Classes(adding.env) \cup {Decl.name}
<1> DEFINE e == adding.env
           table == Set(Tables["class_decls"], Decl.name, Len(entries) + 1)
           new == [envs[e] EXCEPT !.tables["class_decls"] = table]
           env == envs[e]
<1>1. e \in DOMAIN envs /\ "class_decls" \in Table
  BY InsertStep DEF Insert, Table
<1>2. envs' = [envs EXCEPT ![e] = new]
  BY DEF InsertModule, Tables
<1>3. adding'.env = e
  BY InsertStep DEF Insert
<1>4. new = [env EXCEPT !.tables["class_decls"] = table] /\ IsEnvironment(env)
  BY <1>1 DEF TypeOK
<1>5. /\ DOMAIN table = DOMAIN Tables["class_decls"] \cup {Decl.name}
      /\ table[Decl.name] = Len(entries) + 1
      /\ \A n \in DOMAIN Tables["class_decls"] : n # Decl.name => table[n] = Tables["class_decls"][n]
  BY DEF Set
<1> HIDE DEF new, env, table
<1>6. new.tables["class_decls"] = table
  BY <1>1, <1>4, EnvironmentInserted
<1>7. envs'[e] = new
  BY <1>1, <1>2, IsSeqExcept DEF TypeOK
<1>8. Classes(e)' = table /\ Classes(e) = Tables["class_decls"]
  BY <1>3, <1>6, <1>7 DEF Classes, Tables
<1> QED
  BY <1>5, <1>8 DEF InsertModule, Inserting

\* Losing the environment that was being built.
Lost == Duplicated /\ adding.from # 0

\* What goes is the last environment, its entries and its cache.
LEMMA LostStep ==
  ASSUME TypeOK, BuildInv, Lost
  PROVE  /\ ~Idle /\ adding.env \in DOMAIN envs /\ adding.env = Len(envs)
         /\ adding.from \in DOMAIN envs /\ adding.from # adding.env
         /\ adding.decls # <<>> /\ ~Accepts(Tables, Decl)
         /\ IsSeq(envs') /\ DOMAIN envs' = DOMAIN envs \ {adding.env}
         /\ \A e \in DOMAIN envs' : envs'[e] = envs[e]
         /\ IsSeq(entries') /\ DOMAIN entries' = 1..adding.made /\ DOMAIN entries' \subseteq DOMAIN entries
         /\ \A x \in DOMAIN entries' : entries'[x] = entries[x]
         /\ IsSeq(caches') /\ DOMAIN caches' = DOMAIN caches \ {Len(caches)}
         /\ \A c \in DOMAIN caches' : caches'[c] = caches[c]
         /\ adding' = Nothing /\ failed' = failed \cup {adding.from} /\ raised' = raised
<1>1. /\ ~Idle /\ adding.decls # <<>> /\ ~Accepts(Tables, Decl) /\ adding' = Nothing
      /\ failed' = failed \cup {adding.from} /\ raised' = raised
      /\ envs' = SubSeq(envs, 1, Len(envs) - 1)
      /\ entries' = SubSeq(entries, 1, adding.made)
      /\ caches' = SubSeq(caches, 1, Len(caches) - 1)
  BY DEF Lost, Duplicated
<1>2. /\ adding.env = Len(envs) /\ adding.env \in DOMAIN envs /\ adding.from \in DOMAIN envs
      /\ adding.from # adding.env /\ adding.made \in 0..Len(entries)
  BY <1>1 DEF Lost, BuildInv, TypeOK
<1>3. ASSUME NEW s, IsSeq(s), Len(s) > 0
      PROVE  LET t == SubSeq(s, 1, Len(s) - 1)
             IN  IsSeq(t) /\ DOMAIN t = DOMAIN s \ {Len(s)} /\ \A i \in DOMAIN t : t[i] = s[i]
  <2> DEFINE t == SubSeq(s, 1, Len(s) - 1)
  <2>1. Len(s) \in Nat /\ DOMAIN s = 1..Len(s)
    BY <1>3, IsSeqBasics
  <2>2. Len(s) - 1 \in 0..Len(s)
    BY <1>3, <2>1
  <2>3. IsSeq(t) /\ DOMAIN t = 1..(Len(s) - 1) /\ \A i \in 1..(Len(s) - 1) : t[i] = s[i]
    BY <1>3, <2>2, IsSeqFront
  <2> HIDE DEF t
  <2>4. IsSeq(t) /\ DOMAIN t = DOMAIN s \ {Len(s)} /\ \A i \in DOMAIN t : t[i] = s[i]
    BY <2>1, <2>3
  <2> QED
    BY <2>4 DEF t
<1>4. /\ IsSeq(envs') /\ DOMAIN envs' = DOMAIN envs \ {adding.env}
      /\ \A e \in DOMAIN envs' : envs'[e] = envs[e]
  <2>1. IsSeq(envs)
    BY DEF TypeOK
  <2>2. Len(envs) > 0
    BY <1>2, <2>1, IsSeqBasics
  <2>3. LET t == SubSeq(envs, 1, Len(envs) - 1)
        IN  IsSeq(t) /\ DOMAIN t = DOMAIN envs \ {Len(envs)} /\ \A i \in DOMAIN t : t[i] = envs[i]
    BY <1>3, <2>1, <2>2, Zenon
  <2> QED
    BY <1>1, <1>2, <2>3, Zenon
<1>5. /\ IsSeq(entries') /\ DOMAIN entries' = 1..adding.made /\ DOMAIN entries' \subseteq DOMAIN entries
      /\ \A x \in DOMAIN entries' : entries'[x] = entries[x]
  BY <1>1, <1>2, IsSeqFront DEF TypeOK
<1>6. /\ IsSeq(caches') /\ DOMAIN caches' = DOMAIN caches \ {Len(caches)}
      /\ \A c \in DOMAIN caches' : caches'[c] = caches[c]
  <2>1. envs[adding.from].cache < Len(caches) /\ envs[adding.env].cache = Len(caches)
    BY <1>2 DEF BuildInv, Lost
  <2>2. Len(caches) > 0 \/ Len(caches) = 0
    BY IsSeqBasics DEF TypeOK
  <2>3. CASE Len(caches) > 0
    <3>1. IsSeq(caches)
      BY DEF TypeOK
    <3>2. LET t == SubSeq(caches, 1, Len(caches) - 1)
          IN  IsSeq(t) /\ DOMAIN t = DOMAIN caches \ {Len(caches)} /\ \A i \in DOMAIN t : t[i] = caches[i]
      BY <1>3, <2>3, <3>1, Zenon
    <3> QED
      BY <1>1, <3>2, Zenon
  <2>4. CASE Len(caches) = 0
    <3>1. caches = <<>>
      BY <2>4, IsSeqBasics DEF TypeOK
    <3>2. SubSeq(<<>>, 1, 0 - 1) = <<>> /\ DOMAIN <<>> = {}
      OBVIOUS
    <3> QED
      BY <1>1, <2>4, <3>1, <3>2, IsSeqEmpty
  <2> QED
    BY <2>2, <2>3, <2>4
<1> QED
  BY <1>1, <1>2, <1>4, <1>5, <1>6

\* What an environment is rebuilt from are sources of the other one.
LEMMA RebuildStep ==
  ASSUME TypeOK, NEW e \in DOMAIN envs,
         (\E source \in Source : Unload(e, source.path)) \/ ResolveTypeNames(e)
  PROVE  \E meant, sources :
           Rebuild(e, meant, sources) /\ IsSources(sources) /\ AreOf(sources, envs[e].sources)
<1> DEFINE sources == envs[e].sources
<1>1. IsSources(sources)
  BY DEF TypeOK, IsEnvironment
<1>2. ASSUME NEW path, Unload(e, path)
      PROVE  \E meant, new : Rebuild(e, meant, new) /\ IsSources(new) /\ AreOf(new, sources)
  <2> DEFINE rest == Subsequence(sources, {i \in DOMAIN sources : sources[i].path # path})
  <2>1. IsSources(rest) /\ AreOf(rest, sources)
    BY <1>1, SomeAreOf
  <2>2. Rebuild(e, <<>>, RbsFirst(rest))
    BY <1>2 DEF Unload
  <2> HIDE DEF rest, sources
  <2>3. IsSources(RbsFirst(rest)) /\ AreOf(RbsFirst(rest), sources)
    BY <2>1, RbsFirstAreOf, AreOfOthers
  <2> QED
    BY <2>2, <2>3
<1>3. ASSUME ResolveTypeNames(e)
      PROVE  \E meant, new : Rebuild(e, meant, new) /\ IsSources(new) /\ AreOf(new, sources)
  <2> DEFINE program == ProgramOf(e)
             resolved == [i \in DOMAIN sources |-> ResolveSource(program, sources[i])]
             means == IF \A i \in DOMAIN sources : sources[i].resolve
                      THEN [n \in DOMAIN program.aliases |-> ResolvedNamespace(program, Absolute(n), <<>>)]
                      ELSE <<>>
  <2>1. Rebuild(e, means, RbsFirst(resolved))
    BY <1>3 DEF ResolveTypeNames
  <2> HIDE DEF program, means, sources
  <2>2. IsSources(resolved) /\ AreOf(resolved, sources)
    BY <1>1, ResolvedAreOf
  <2> HIDE DEF resolved
  <2>3. IsSources(RbsFirst(resolved)) /\ AreOf(RbsFirst(resolved), sources)
    BY <2>2, RbsFirstAreOf, AreOfOthers
  <2> QED
    BY <2>1, <2>3
<1> QED
  BY <1>2, <1>3

\* The steps there are.
Sourced(e, source) ==
  \/ e \in DOMAIN envs /\ source \in Source /\ AddSource(e, source)
  \/ AddNextSource /\ e = adding.env /\ source = Head(adding.sources)

Raised == Duplicated /\ adding.from = 0

Rebuilt(e, meant, sources) ==
  Rebuild(e, meant, sources) /\ IsSources(sources) /\ AreOf(sources, envs[e].sources)

\* There are no others.
LEMMA NextSteps ==
  ASSUME TypeOK, [Next]_vars
  PROVE  \/ \E e, source : Sourced(e, source)
         \/ FinishAdding
         \/ Insert
         \/ Raised
         \/ Lost
         \/ \E e \in DOMAIN envs : \E meant, sources : Rebuilt(e, meant, sources)
         \/ \E e \in DOMAIN envs : Dup(e)
         \/ \E e \in DOMAIN envs : \E name \in Queried : NormalizeModuleName(e, name)
         \/ UNCHANGED vars
<1>1. CASE AddNextSource \/ FinishAdding
  BY <1>1 DEF Sourced
<1>2. CASE InsertModule \/ OpenModule \/ InsertSingle \/ Duplicated
  BY <1>2 DEF Insert, Raised, Lost
<1>3. ASSUME NEW e \in DOMAIN envs, \E source \in Source : AddSource(e, source)
      PROVE  \E f, source : Sourced(f, source)
  BY <1>3 DEF Sourced
<1>4. ASSUME NEW e \in DOMAIN envs, (\E source \in Source : Unload(e, source.path)) \/ ResolveTypeNames(e)
      PROVE  \E f \in DOMAIN envs : \E meant, sources : Rebuilt(f, meant, sources)
  <2>1. \E meant, sources : Rebuilt(e, meant, sources)
    BY <1>4, RebuildStep DEF Rebuilt
  <2> QED
    BY <2>1
<1> QED
  BY <1>1, <1>2, <1>3, <1>4 DEF Next

\* Making an environment.
LEMMA RebuiltStep ==
  ASSUME TypeOK, NEW e \in DOMAIN envs, NEW meant, NEW sources, Rebuilt(e, meant, sources)
  PROVE  LET n == Len(envs) + 1
         IN  /\ Idle /\ n \notin DOMAIN envs /\ IsSeq(envs') /\ DOMAIN envs' = DOMAIN envs \cup {n}
             /\ Len(envs') = n
             /\ \A f \in DOMAIN envs : envs'[f] = envs[f]
             /\ IsEnvironment(envs'[n]) /\ envs'[n].sources = <<>>
             /\ \A t \in Table : envs'[n].tables[t] = <<>>
             /\ envs'[n].cache = Len(caches) + 1
             /\ IsSeq(caches') /\ DOMAIN caches' = DOMAIN caches \cup {Len(caches) + 1}
             /\ \A c \in DOMAIN caches : caches'[c] = caches[c]
             /\ caches'[Len(caches) + 1] = <<>> /\ Len(caches') = Len(caches) + 1
             /\ adding' = [env |-> n, from |-> e, made |-> Len(entries), decls |-> <<>>, sources |-> sources]
             /\ UNCHANGED <<entries, raised, failed>>
<1> DEFINE n == Len(envs) + 1
           base == NewEnvironment(Len(caches) + 1)
           new == [base EXCEPT !.meant = meant]
<1>1. /\ Idle /\ envs' = Append(envs, new) /\ caches' = Append(caches, <<>>)
      /\ adding' = [env |-> n, from |-> e, made |-> Len(entries), decls |-> <<>>, sources |-> sources]
      /\ UNCHANGED <<entries, raised, failed>>
  BY DEF Rebuilt, Rebuild
<1>2. base = [sources |-> <<>>, tables |-> NoTables, cache |-> Len(caches) + 1, meant |-> <<>>]
  BY DEF NewEnvironment
<1> HIDE DEF base
<1>3. new = [sources |-> <<>>, tables |-> NoTables, cache |-> Len(caches) + 1, meant |-> meant]
  BY <1>2
<1> HIDE DEF new
<1>4. /\ new.sources = <<>> /\ new.cache = Len(caches) + 1
      /\ \A t \in Table : new.tables[t] = <<>>
  BY <1>3 DEF NoTables
<1>5. NoTables = [t \in Table |-> NoTables[t]]
  BY DEF NoTables
<1>6. IsEnvironment(new)
  BY <1>3, <1>5, NoDecls DEF IsEnvironment
<1>7. /\ IsSeq(envs') /\ Len(envs') = n /\ DOMAIN envs' = DOMAIN envs \cup {n}
      /\ envs'[n] = new /\ \A f \in DOMAIN envs : envs'[f] = envs[f]
  BY <1>1, IsSeqAppend DEF TypeOK
<1>8. /\ IsSeq(caches') /\ DOMAIN caches' = DOMAIN caches \cup {Len(caches) + 1}
      /\ \A c \in DOMAIN caches : caches'[c] = caches[c]
      /\ caches'[Len(caches) + 1] = <<>> /\ Len(caches') = Len(caches) + 1
  BY <1>1, IsSeqAppend DEF TypeOK
<1>9. n \notin DOMAIN envs
  BY IsSeqBasics DEF TypeOK
<1> QED
  BY <1>1, <1>4, <1>6, <1>7, <1>8, <1>9

\* Copying an environment.
LEMMA DupStep ==
  ASSUME TypeOK, NEW e \in DOMAIN envs, Dup(e)
  PROVE  LET n == Len(envs) + 1
         IN  /\ Idle /\ n \notin DOMAIN envs /\ n # 0
             /\ IsSeq(envs') /\ DOMAIN envs' = DOMAIN envs \cup {n}
             /\ \A f \in DOMAIN envs : envs'[f] = envs[f]
             /\ envs'[n] = envs[e]
             /\ raised' = IF e \in raised THEN raised \cup {n} ELSE raised
             /\ UNCHANGED <<entries, caches, adding, failed>>
<1>1. Len(envs) + 1 \notin DOMAIN envs /\ Len(envs) + 1 # 0
  BY IsSeqBasics DEF TypeOK
<1> QED
  BY <1>1, IsSeqAppend DEF Dup, TypeOK

\* Keeping a name.
LEMMA NormalizeStep ==
  ASSUME TypeOK, LinkInv, NEW e \in DOMAIN envs, NEW name, NormalizeModuleName(e, name)
  PROVE  LET c == envs[e].cache
         IN  /\ Idle /\ c \in DOMAIN caches /\ IsKept(e, name)
             /\ IsSeq(caches') /\ DOMAIN caches' = DOMAIN caches
             /\ \A d \in DOMAIN caches : d # c => caches'[d] = caches[d]
             /\ DOMAIN caches'[c] = DOMAIN caches[c] \cup {name}
             /\ caches'[c][name] = Normalized(e, name)
             /\ \A n \in DOMAIN caches[c] : n # name => caches'[c][n] = caches[c][n]
             /\ Len(caches') = Len(caches)
             /\ UNCHANGED <<envs, entries, adding, raised, failed>>
<1> DEFINE c == envs[e].cache
           table == Set(caches[c], name, Normalized(e, name))
<1>1. /\ Idle /\ IsKept(e, name) /\ caches' = [caches EXCEPT ![c] = table]
      /\ UNCHANGED <<envs, entries, adding, raised, failed>>
  BY DEF NormalizeModuleName
<1>2. c \in DOMAIN caches
  BY DEF LinkInv
<1>3. /\ DOMAIN table = DOMAIN caches[c] \cup {name} /\ table[name] = Normalized(e, name)
      /\ \A n \in DOMAIN caches[c] : n # name => table[n] = caches[c][n]
  BY DEF Set
<1> HIDE DEF table, c
<1>4. /\ IsSeq(caches') /\ Len(caches') = Len(caches) /\ DOMAIN caches' = DOMAIN caches
      /\ caches'[c] = table /\ \A d \in DOMAIN caches : d # c => caches'[d] = caches[d]
  <2>1. IsSeq(caches)
    BY DEF TypeOK
  <2>2. caches' = [caches EXCEPT ![c] = table]
    BY <1>1
  <2> QED
    BY <1>2, <2>1, <2>2, IsSeqExcept
<1> QED
  BY <1>1, <1>2, <1>3, <1>4 DEF c

-----------------------------------------------------------------------------
(* The types, the links and what is being built.                           *)

\* An empty environment.
LEMMA InitHolds ==
  ASSUME Init
  PROVE  CachesInv /\ IInv
<1>1. /\ IsSeq(envs) /\ Len(envs) = 1 /\ DOMAIN envs = {1} /\ envs[1] = NewEnvironment(1)
      /\ IsSeq(caches) /\ Len(caches) = 1 /\ DOMAIN caches = {1} /\ caches[1] = <<>>
      /\ entries = <<>> /\ adding = Nothing /\ raised = {} /\ failed = {}
  <2>1. ASSUME NEW x
        PROVE  IsSeq(<<x>>) /\ Len(<<x>>) = 1 /\ DOMAIN <<x>> = {1} /\ <<x>>[1] = x
    <3>1. <<x>> \in Seq({x}) /\ Len(<<x>>) = 1 /\ DOMAIN <<x>> = {1} /\ <<x>>[1] = x
      OBVIOUS
    <3> QED
      BY <3>1, SeqIsSeq
  <2>2. envs = <<NewEnvironment(1)>> /\ caches = << <<>> >>
    BY DEF Init
  <2>3. entries = <<>> /\ adding = Nothing /\ raised = {} /\ failed = {}
    BY DEF Init
  <2> QED
    BY <2>1, <2>2, <2>3, Zenon
<1>2. /\ envs[1] = [sources |-> <<>>, tables |-> NoTables, cache |-> 1, meant |-> <<>>]
      /\ envs[1].sources = <<>> /\ envs[1].cache = 1 /\ IsEnvironment(envs[1])
      /\ \A t \in Table : envs[1].tables[t] = <<>>
  <2>1. NoTables = [t \in Table |-> NoTables[t]]
    BY DEF NoTables
  <2>2. envs[1] = [sources |-> <<>>, tables |-> NoTables, cache |-> 1, meant |-> <<>>]
    BY <1>1 DEF NewEnvironment
  <2> QED
    BY <2>1, <2>2, NoDecls DEF IsEnvironment, NoTables
<1>3. TypeOK
  BY <1>1, <1>2, NoDecls, IsSeqEmpty DEF TypeOK, Nothing, Idle
<1>4. DOMAIN Classes(1) = {}
  BY <1>2, IsSeqEmpty DEF Classes, Table
<1>5. LinkInv
  BY <1>1, <1>2, <1>4 DEF LinkInv
<1>6. BuildInv /\ OriginInv /\ RestInv /\ RaisedInv
  BY <1>1 DEF BuildInv, OriginInv, RestInv, RaisedInv, Nothing, Idle
<1>7. CacheInv
  BY <1>1, <1>2, IsSeqEmpty DEF CacheInv
<1>8. Inserted(1) = <<>>
  <2>1. AllDecls(1) = <<>>
    BY <1>2, AllDeclsAre, NoDecls
  <2> QED
    BY <1>1, <2>1 DEF Inserted, Nothing
<1>9. TableInv
  <2>1. \A t \in Table : DOMAIN envs[1].tables[t] = NamesIn(<<>>, t)
    BY <1>2, IsSeqEmpty DEF NamesIn
  <2> QED
    BY <1>1, <1>8, <2>1, IsSeqEmpty DEF TableInv, HasConflict
<1>10. OrderInv
  BY <1>1, <1>4 DEF OrderInv
<1> QED
  BY <1>3, <1>5, <1>6, <1>7, <1>9, <1>10 DEF CachesInv, IInv

\* The types are kept.
LEMMA TypeStep ==
  ASSUME TypeOK, LinkInv, BuildInv, [Next]_vars
  PROVE  TypeOK'
<1>0. /\ IsSeq(envs) /\ IsSeq(entries) /\ IsSeq(caches)
      /\ \A e \in DOMAIN envs : IsEnvironment(envs[e])
      /\ \A x \in DOMAIN entries : IsEntry(entries[x])
      /\ raised \subseteq DOMAIN envs /\ failed \subseteq DOMAIN envs
      /\ IsDecls(adding.decls) /\ IsSources(adding.sources)
  BY DEF TypeOK
<1>1. ASSUME NEW e, NEW source, Sourced(e, source)
      PROVE  TypeOK'
  <2>1. /\ e \in DOMAIN envs /\ IsSource(source)
        /\ IsSeq(envs') /\ DOMAIN envs' = DOMAIN envs
        /\ \A f \in DOMAIN envs : f # e => envs'[f] = envs[f]
        /\ IsEnvironment(envs'[e])
        /\ adding' = [env |-> e, from |-> adding.from, made |-> adding.made,
                      decls |-> source.decls, sources |-> adding'.sources]
        /\ IsSources(adding'.sources)
        /\ UNCHANGED <<entries, caches, raised, failed>>
    BY <1>1, SourceStep DEF Sourced
  <2>2. adding'.env = e /\ adding'.from = adding.from /\ adding'.made = adding.made /\ adding'.decls = source.decls
    BY <2>1
  <2>3. e # 0
    BY <1>0, <2>1, IsSeqBasics
  <2>4. IsDecls(source.decls)
    BY <2>1 DEF IsSource
  <2> QED
    BY <1>0, <2>1, <2>2, <2>3, <2>4 DEF TypeOK
<1>2. CASE FinishAdding
  <2>1. adding' = Nothing /\ UNCHANGED <<envs, entries, caches, raised, failed>>
    BY <1>2 DEF FinishAdding
  <2> QED
    BY <1>0, <2>1, NoDecls DEF TypeOK, Nothing, Idle
<1>3. CASE Insert
  <2>1. /\ ~Idle /\ adding.env \in DOMAIN envs /\ adding.decls # <<>>
        /\ adding' = [env |-> adding.env, from |-> adding.from, made |-> adding.made,
                      decls |-> Tail(adding.decls), sources |-> adding.sources]
        /\ IsSeq(envs') /\ DOMAIN envs' = DOMAIN envs
        /\ \A f \in DOMAIN envs : f # adding.env => envs'[f] = envs[f]
        /\ IsEnvironment(envs'[adding.env])
        /\ UNCHANGED <<caches, raised, failed>>
    BY <1>3, InsertStep
  <2>2. IsDecls(Tail(adding.decls))
    <3> DEFINE d == adding.decls
               tail == Tail(d)
    <3>1. IsDecls(d) /\ d # <<>>
      BY <1>0, <2>1
    <3> HIDE DEF d
    <3>2. IsSeq(tail) /\ \A i \in DOMAIN tail : i + 1 \in DOMAIN d /\ tail[i] = d[i + 1]
      BY <3>1, IsSeqTail DEF IsDecls
    <3> HIDE DEF tail
    <3>3. IsDecls(tail)
      BY <3>1, <3>2 DEF IsDecls
    <3> QED
      BY <3>3 DEF tail, d
  <2>3. adding.env # 0
    BY <1>0, <2>1, IsSeqBasics
  <2>4. IsSeq(entries') /\ \A x \in DOMAIN entries' : IsEntry(entries'[x])
    <3>1. CASE InsertModule
      <4> DEFINE entry == [kind |-> Decl.kind, decls |-> <<Decl>>]
      <4>1. entries' = Append(entries, entry)
        BY <3>1 DEF InsertModule
      <4>2. IsSeq(<<Decl>>)
        <5>1. <<Decl>> \in Seq({Decl})
          OBVIOUS
        <5> QED
          BY <5>1, SeqIsSeq
      <4>3. IsEntry(entry)
        BY <4>2 DEF IsEntry
      <4> HIDE DEF entry
      <4> QED
        BY <1>0, <4>1, <4>3, IsSeqAppend
    <3>2. CASE OpenModule
      <4> DEFINE x == Tables["class_decls"][Decl.name]
                 entry == [entries[x] EXCEPT !.decls = Append(@, Decl)]
      <4>1. entries' = [entries EXCEPT ![x] = entry]
        BY <3>2 DEF OpenModule
      <4>2. x \in DOMAIN entries
        BY <2>1, <3>2 DEF OpenModule, LinkInv, Classes, Tables
      <4>3. IsEntry(entries[x])
        BY <1>0, <4>2
      <4>4. IsEntry(entry)
        <5> DEFINE old == entries[x]
        <5>1. old = [kind |-> old.kind, decls |-> old.decls] /\ IsSeq(old.decls)
          BY <4>3 DEF IsEntry
        <5>2. entry = [old EXCEPT !.decls = Append(@, Decl)]
          OBVIOUS
        <5> HIDE DEF old, entry, x
        <5>3. entry = [kind |-> old.kind, decls |-> Append(old.decls, Decl)]
          BY <5>1, <5>2
        <5>4. IsSeq(Append(old.decls, Decl))
          BY <5>1, IsSeqAppend
        <5> QED
          BY <5>3, <5>4 DEF IsEntry
      <4> HIDE DEF x, entry
      <4> QED
        BY <1>0, <4>1, <4>2, <4>4, IsSeqExcept
    <3>3. CASE InsertSingle
      BY <1>0, <3>3 DEF InsertSingle
    <3> QED
      BY <1>3, <3>1, <3>2, <3>3 DEF Insert
  <2> QED
    BY <1>0, <2>1, <2>2, <2>3, <2>4 DEF TypeOK
<1>4. CASE Raised
  <2>1. /\ adding' = Nothing /\ raised' = raised \cup {adding.env}
        /\ UNCHANGED <<envs, entries, caches, failed>> /\ ~Idle
    BY <1>4 DEF Raised, Duplicated
  <2>2. adding.env \in DOMAIN envs
    BY <2>1 DEF TypeOK
  <2> QED
    BY <1>0, <2>1, <2>2, NoDecls DEF TypeOK, Nothing, Idle
<1>5. CASE Lost
  <2>1. /\ IsSeq(envs') /\ DOMAIN envs' = DOMAIN envs \ {adding.env}
        /\ \A e \in DOMAIN envs' : envs'[e] = envs[e]
        /\ IsSeq(entries') /\ DOMAIN entries' \subseteq DOMAIN entries
        /\ \A x \in DOMAIN entries' : entries'[x] = entries[x]
        /\ IsSeq(caches') /\ adding' = Nothing
        /\ failed' = failed \cup {adding.from} /\ raised' = raised
        /\ adding.from \in DOMAIN envs /\ adding.from # adding.env /\ adding.from # 0
    BY <1>5, LostStep DEF Lost
  <2>2. adding.env \notin raised
    BY <2>1 DEF BuildInv
  <2>3. adding.env \notin failed
    BY <2>1 DEF BuildInv
  <2> QED
    BY <1>0, <2>1, <2>2, <2>3, NoDecls DEF TypeOK, Nothing, Idle
<1>6. ASSUME NEW e \in DOMAIN envs, NEW meant, NEW sources, Rebuilt(e, meant, sources)
      PROVE  TypeOK'
  <2> DEFINE n == Len(envs) + 1
  <2>1. /\ IsSeq(envs') /\ DOMAIN envs' = DOMAIN envs \cup {n}
        /\ \A f \in DOMAIN envs : envs'[f] = envs[f]
        /\ IsEnvironment(envs'[n]) /\ IsSeq(caches')
        /\ adding' = [env |-> n, from |-> e, made |-> Len(entries), decls |-> <<>>, sources |-> sources]
        /\ UNCHANGED <<entries, raised, failed>>
    BY <1>6, RebuiltStep
  <2>2. n # 0 /\ IsSources(sources)
    BY <1>0, <1>6, IsSeqBasics DEF Rebuilt
  <2> HIDE DEF n
  <2>3. /\ adding'.env = n /\ adding'.from = e /\ adding'.made = Len(entries)
        /\ adding'.decls = <<>> /\ adding'.sources = sources
    BY <2>1
  <2> QED
    BY <1>0, <2>1, <2>2, <2>3, NoDecls DEF TypeOK
<1>7. ASSUME NEW e \in DOMAIN envs, Dup(e)
      PROVE  TypeOK'
  <2> DEFINE n == Len(envs) + 1
  <2>1. /\ IsSeq(envs') /\ DOMAIN envs' = DOMAIN envs \cup {n} /\ Idle
        /\ \A f \in DOMAIN envs : envs'[f] = envs[f]
        /\ envs'[n] = envs[e]
        /\ raised' = IF e \in raised THEN raised \cup {n} ELSE raised
        /\ UNCHANGED <<entries, caches, adding, failed>>
    BY <1>7, DupStep
  <2> HIDE DEF n
  <2> QED
    BY <1>0, <2>1 DEF TypeOK, Idle
<1>8. ASSUME NEW e \in DOMAIN envs, NEW name, NormalizeModuleName(e, name)
      PROVE  TypeOK'
  <2>1. IsSeq(caches') /\ UNCHANGED <<envs, entries, adding, raised, failed>>
    BY <1>8, NormalizeStep
  <2> QED
    BY <1>0, <2>1 DEF TypeOK, Idle
<1>9. CASE UNCHANGED vars
  BY <1>9 DEF vars, TypeOK, Idle
<1> QED
  BY <1>1, <1>2, <1>3, <1>4, <1>5, <1>6, <1>7, <1>8, <1>9, NextSteps

\* A class is given an entry that is there, and no second one.
LEMMA LinkStep ==
  ASSUME TypeOK, LinkInv, BuildInv, [Next]_vars
  PROVE  LinkInv'
<1>0. IsSeq(envs) /\ IsSeq(entries) /\ IsSeq(caches) /\ "class_decls" \in Table
  BY DEF TypeOK, Table
<1>1. ASSUME NEW e, NEW source, Sourced(e, source)
      PROVE  LinkInv'
  <2>1. /\ e \in DOMAIN envs /\ DOMAIN envs' = DOMAIN envs
        /\ \A f \in DOMAIN envs : f # e => envs'[f] = envs[f]
        /\ envs'[e].tables = envs[e].tables /\ envs'[e].cache = envs[e].cache
        /\ UNCHANGED <<entries, caches>>
    BY <1>1, SourceStep DEF Sourced
  <2> QED
    BY <2>1 DEF LinkInv, Classes
<1>2. CASE FinishAdding \/ Raised \/ UNCHANGED vars
  <2>1. UNCHANGED <<envs, entries, caches>>
    BY <1>2 DEF FinishAdding, Raised, Duplicated, vars
  <2> QED
    BY <2>1 DEF LinkInv, Classes
<1>3. CASE Insert
  <2> DEFINE a == adding.env
  <2>1. /\ a \in DOMAIN envs /\ DOMAIN envs' = DOMAIN envs
        /\ \A f \in DOMAIN envs : f # a => envs'[f] = envs[f]
        /\ envs'[a].cache = envs[a].cache /\ caches' = caches
        /\ \A t \in Table : t # TableOf(Decl.kind) => envs'[a].tables[t] = Tables[t]
        /\ adding'.env = a /\ Decl.kind \in Kind
    BY <1>3, InsertStep
  <2>2. CASE InsertModule
    <3>1. /\ entries' = Append(entries, [kind |-> Decl.kind, decls |-> <<Decl>>])
          /\ \A n \in DOMAIN Classes(a) : Classes(a)'[n] = Classes(a)[n]
          /\ Classes(a)'[Decl.name] = Len(entries) + 1
          /\ DOMAIN Classes(a)' = DOMAIN Classes(a) \cup {Decl.name}
      BY <2>2, InsertModuleStep DEF Classes, Tables
    <3>2. DOMAIN entries' = DOMAIN entries \cup {Len(entries) + 1} /\ Len(entries) + 1 \notin DOMAIN entries
      BY <1>0, <3>1, IsSeqAppend, IsSeqBasics
    <3>3. /\ Classes(a)' = envs'[a].tables["class_decls"]
          /\ \A e \in DOMAIN envs : e # a => envs'[e].tables["class_decls"] = Classes(e)
      BY <2>1 DEF Classes
    <3> HIDE DEF a
    <3>4. ASSUME NEW e \in DOMAIN envs'
          PROVE  LET c == envs'[e].tables["class_decls"]
                 IN  /\ \A n \in DOMAIN c : c[n] \in DOMAIN entries'
                     /\ \A n, m \in DOMAIN c : c[n] = c[m] => n = m
                     /\ envs'[e].cache \in DOMAIN caches'
      <4>1. envs'[e].cache \in DOMAIN caches'
        BY <2>1 DEF LinkInv
      <4>2. CASE e # a
        BY <2>1, <3>2, <3>3, <4>1, <4>2 DEF LinkInv
      <4>3. CASE e = a
        <5> DEFINE c == Classes(a)'
        <5>1. /\ \A n \in DOMAIN Classes(a) : Classes(a)[n] \in DOMAIN entries
              /\ \A n, m \in DOMAIN Classes(a) : Classes(a)[n] = Classes(a)[m] => n = m
          BY <2>1 DEF LinkInv
        <5>2. /\ \A n \in DOMAIN Classes(a) : c[n] = Classes(a)[n]
              /\ c[Decl.name] = Len(entries) + 1
              /\ DOMAIN c = DOMAIN Classes(a) \cup {Decl.name}
              /\ c = envs'[a].tables["class_decls"]
          BY <3>1, <3>3
        <5> HIDE DEF c
        <5>3. \A n \in DOMAIN c : c[n] \in DOMAIN entries'
          BY <3>2, <5>1, <5>2
        <5>4. \A n, m \in DOMAIN c : c[n] = c[m] => n = m
          BY <3>2, <5>1, <5>2
        <5> QED
          BY <4>1, <4>3, <5>2, <5>3, <5>4
      <4> QED
        BY <4>2, <4>3
    <3> QED
      BY <3>4 DEF LinkInv, Classes
  <2>3. CASE OpenModule
    <3>1. envs' = envs
      BY <2>3 DEF OpenModule
    <3>2. DOMAIN entries' = DOMAIN entries
      BY <2>3 DEF OpenModule
    <3> QED
      BY <2>1, <3>1, <3>2 DEF LinkInv, Classes
  <2>4. CASE InsertSingle
    <3>1. entries' = entries
      BY <2>4 DEF InsertSingle
    <3>2. TableOf(Decl.kind) # "class_decls"
      <4>1. Decl.kind \notin ModuleKind
        BY <2>4 DEF InsertSingle, Inserting, SingleKind, AliasKind, ModuleKind
      <4> QED
        BY <2>1, <4>1, KindsOfTables
    <3>3. envs'[a].tables["class_decls"] = envs[a].tables["class_decls"]
      BY <1>0, <2>1, <3>2 DEF Tables
    <3> QED
      BY <2>1, <3>1, <3>3 DEF LinkInv, Classes
  <2> QED
    BY <1>3, <2>2, <2>3, <2>4 DEF Insert
<1>4. CASE Lost
  <2>1. /\ DOMAIN envs' = DOMAIN envs \ {adding.env}
        /\ \A e \in DOMAIN envs' : envs'[e] = envs[e]
        /\ DOMAIN entries' = 1..adding.made /\ DOMAIN caches' = DOMAIN caches \ {Len(caches)}
        /\ adding.from # 0
    BY <1>4, LostStep DEF Lost
  <2>2. ASSUME NEW e \in DOMAIN envs'
        PROVE  /\ \A n \in DOMAIN Classes(e) : Classes(e)[n] \in DOMAIN entries'
               /\ envs[e].cache \in DOMAIN caches'
    <3>1. /\ \A n \in DOMAIN Classes(e) : Classes(e)[n] <= adding.made
          /\ envs[e].cache < Len(caches)
      BY <2>1 DEF BuildInv
    <3>2. /\ \A n \in DOMAIN Classes(e) : Classes(e)[n] \in DOMAIN entries
          /\ envs[e].cache \in DOMAIN caches
      BY <2>1 DEF LinkInv
    <3>3. DOMAIN entries = 1..Len(entries) /\ DOMAIN caches = 1..Len(caches) /\ Len(caches) \in Nat
          /\ Len(entries) \in Nat
      BY <1>0, IsSeqBasics
    <3>4. adding.made \in Nat
      BY <2>1, <3>3 DEF BuildInv
    <3> QED
      BY <2>1, <3>1, <3>2, <3>3, <3>4
  <2> QED
    BY <2>1, <2>2 DEF LinkInv, Classes
<1>5. ASSUME NEW e \in DOMAIN envs, NEW meant, NEW sources, Rebuilt(e, meant, sources)
      PROVE  LinkInv'
  <2> DEFINE n == Len(envs) + 1
  <2>1. /\ DOMAIN envs' = DOMAIN envs \cup {n}
        /\ \A f \in DOMAIN envs : envs'[f] = envs[f]
        /\ \A t \in Table : envs'[n].tables[t] = <<>>
        /\ envs'[n].cache = Len(caches) + 1
        /\ DOMAIN caches' = DOMAIN caches \cup {Len(caches) + 1}
        /\ entries' = entries
    BY <1>5, RebuiltStep
  <2> HIDE DEF n
  <2>2. DOMAIN envs'[n].tables["class_decls"] = {}
    BY <1>0, <2>1, IsSeqEmpty
  <2> QED
    BY <2>1, <2>2 DEF LinkInv, Classes
<1>6. ASSUME NEW e \in DOMAIN envs, Dup(e)
      PROVE  LinkInv'
  <2> DEFINE n == Len(envs) + 1
  <2>1. /\ DOMAIN envs' = DOMAIN envs \cup {n}
        /\ \A f \in DOMAIN envs : envs'[f] = envs[f]
        /\ envs'[n] = envs[e]
        /\ UNCHANGED <<entries, caches>>
    BY <1>6, DupStep
  <2> HIDE DEF n
  <2> QED
    BY <2>1 DEF LinkInv, Classes
<1>7. ASSUME NEW e \in DOMAIN envs, NEW name, NormalizeModuleName(e, name)
      PROVE  LinkInv'
  <2>1. DOMAIN caches' = DOMAIN caches /\ UNCHANGED <<envs, entries>>
    BY <1>7, NormalizeStep
  <2> QED
    BY <2>1 DEF LinkInv, Classes
<1> QED
  BY <1>1, <1>2, <1>3, <1>4, <1>5, <1>6, <1>7, NextSteps

\* What is being built keeps its entries and its cache to itself.
LEMMA BuildStep ==
  ASSUME TypeOK, LinkInv, BuildInv, [Next]_vars
  PROVE  BuildInv'
<1>0. /\ IsSeq(envs) /\ IsSeq(entries) /\ IsSeq(caches) /\ "class_decls" \in Table
      /\ raised \subseteq DOMAIN envs /\ failed \subseteq DOMAIN envs
      /\ Len(entries) \in Nat /\ Len(caches) \in Nat /\ Len(envs) \in Nat
      /\ DOMAIN entries = 1..Len(entries) /\ DOMAIN caches = 1..Len(caches) /\ DOMAIN envs = 1..Len(envs)
  BY IsSeqBasics DEF TypeOK, Table
<1>1. ASSUME NEW e, NEW source, Sourced(e, source)
      PROVE  BuildInv'
  <2>1. /\ e \in DOMAIN envs /\ DOMAIN envs' = DOMAIN envs /\ Len(envs') = Len(envs)
        /\ \A f \in DOMAIN envs : f # e => envs'[f] = envs[f]
        /\ envs'[e].tables = envs[e].tables /\ envs'[e].cache = envs[e].cache
        /\ adding' = [env |-> e, from |-> adding.from, made |-> adding.made,
                      decls |-> source.decls, sources |-> adding'.sources]
        /\ adding.from # 0 => e = adding.env
        /\ UNCHANGED <<entries, caches, raised, failed>>
    BY <1>1, SourceStep DEF Sourced
  <2>2. adding'.env = e /\ adding'.from = adding.from /\ adding'.made = adding.made
    BY <2>1
  <2>3. \A f \in DOMAIN envs : envs'[f].tables = envs[f].tables /\ envs'[f].cache = envs[f].cache
    BY <2>1
  <2> QED
    BY <2>1, <2>2, <2>3 DEF BuildInv, Classes
<1>2. CASE FinishAdding \/ Raised \/ Lost
  <2>1. adding' = Nothing
    BY <1>2 DEF FinishAdding, Raised, Lost, Duplicated
  <2> QED
    BY <2>1 DEF BuildInv, Nothing
<1>3. CASE Insert
  <2> DEFINE a == adding.env
  <2>1. /\ a \in DOMAIN envs /\ DOMAIN envs' = DOMAIN envs /\ Len(envs') = Len(envs)
        /\ \A f \in DOMAIN envs : f # a => envs'[f] = envs[f]
        /\ envs'[a].cache = envs[a].cache /\ UNCHANGED <<caches, raised, failed>>
        /\ \A t \in Table : t # TableOf(Decl.kind) => envs'[a].tables[t] = Tables[t]
        /\ Decl.kind \in Kind
        /\ adding' = [env |-> adding.env, from |-> adding.from, made |-> adding.made,
                      decls |-> Tail(adding.decls), sources |-> adding.sources]
    BY <1>3, InsertStep
  <2>2. adding'.env = a /\ adding'.from = adding.from /\ adding'.made = adding.made
    BY <2>1
  <2>3. /\ Len(entries') \in Nat /\ Len(entries') >= Len(entries)
        /\ \A n \in DOMAIN Classes(a)' : \/ n \in DOMAIN Classes(a) /\ Classes(a)'[n] = Classes(a)[n]
                                         \/ Classes(a)'[n] = Len(entries) + 1
    <3>1. CASE InsertModule
      <4>1. /\ entries' = Append(entries, [kind |-> Decl.kind, decls |-> <<Decl>>])
            /\ \A n \in DOMAIN Classes(a) : Classes(a)'[n] = Classes(a)[n]
            /\ Classes(a)'[Decl.name] = Len(entries) + 1
            /\ DOMAIN Classes(a)' = DOMAIN Classes(a) \cup {Decl.name}
        BY <3>1, InsertModuleStep DEF Classes, Tables
      <4>2. Len(entries') = Len(entries) + 1
        BY <1>0, <4>1, IsSeqAppend
      <4> QED
        BY <1>0, <4>1, <4>2
    <3>2. CASE OpenModule
      <4>1. envs' = envs
        BY <3>2 DEF OpenModule
      <4>2. Classes(a)' = Classes(a)
        BY <2>2, <4>1 DEF Classes
      <4>3. Len(entries') = Len(entries)
        <5> DEFINE x == Tables["class_decls"][Decl.name]
                   entry == [entries[x] EXCEPT !.decls = Append(@, Decl)]
        <5>1. entries' = [entries EXCEPT ![x] = entry]
          BY <3>2 DEF OpenModule
        <5>2. x \in DOMAIN entries
          BY <2>1, <3>2 DEF OpenModule, LinkInv, Classes, Tables
        <5> HIDE DEF x, entry
        <5> QED
          BY <1>0, <5>1, <5>2, IsSeqExcept
      <4> QED
        BY <1>0, <4>2, <4>3
    <3>3. CASE InsertSingle
      <4>1. entries' = entries
        BY <3>3 DEF InsertSingle
      <4>2. Decl.kind \notin ModuleKind
        BY <3>3 DEF InsertSingle, Inserting, SingleKind, AliasKind, ModuleKind
      <4>3. TableOf(Decl.kind) # "class_decls"
        BY <2>1, <4>2, KindsOfTables
      <4>4. envs'[a].tables["class_decls"] = Tables["class_decls"]
        BY <1>0, <2>1, <4>3
      <4>5. Classes(a)' = Classes(a)
        BY <2>2, <4>4 DEF Classes, Tables
      <4> QED
        BY <1>0, <4>1, <4>5
    <3> QED
      BY <1>3, <3>1, <3>2, <3>3 DEF Insert
  <2> SUFFICES ASSUME adding.from # 0
               PROVE  BuildInv'
    BY <2>2 DEF BuildInv
  <2>4. /\ a = Len(envs) /\ a \notin raised \cup failed
        /\ adding.from \in DOMAIN envs \ {a}
        /\ adding.made \in 0..Len(entries)
        /\ \A n \in DOMAIN Classes(a) : Classes(a)[n] > adding.made
        /\ envs[a].cache = Len(caches)
        /\ \A e \in DOMAIN envs \ {a} :
             /\ \A n \in DOMAIN Classes(e) : Classes(e)[n] <= adding.made
             /\ envs[e].cache < Len(caches)
    BY DEF BuildInv
  <2>5. \A e \in DOMAIN envs \ {a} : envs'[e] = envs[e]
    BY <2>1
  <2>6. adding.made \in 0..Len(entries')
    BY <1>0, <2>3, <2>4
  <2>7. \A n \in DOMAIN Classes(a)' : Classes(a)'[n] > adding.made
    BY <1>0, <2>3, <2>4
  <2>8. \A e \in DOMAIN envs \ {a} : \A n \in DOMAIN Classes(e)' : Classes(e)'[n] <= adding.made
    BY <2>4, <2>5 DEF Classes
  <2>9. Classes(a)' = envs'[adding'.env].tables["class_decls"]
    BY DEF Classes
  <2> QED
    BY <2>1, <2>2, <2>4, <2>5, <2>6, <2>7, <2>8, <2>9 DEF BuildInv, Classes
<1>4. ASSUME NEW e \in DOMAIN envs, NEW meant, NEW sources, Rebuilt(e, meant, sources)
      PROVE  BuildInv'
  <2> DEFINE n == Len(envs) + 1
  <2>1. /\ n \notin DOMAIN envs /\ DOMAIN envs' = DOMAIN envs \cup {n} /\ Len(envs') = n
        /\ \A f \in DOMAIN envs : envs'[f] = envs[f]
        /\ \A t \in Table : envs'[n].tables[t] = <<>>
        /\ envs'[n].cache = Len(caches) + 1 /\ Len(caches') = Len(caches) + 1
        /\ adding' = [env |-> n, from |-> e, made |-> Len(entries), decls |-> <<>>, sources |-> sources]
        /\ UNCHANGED <<entries, raised, failed>>
    BY <1>4, RebuiltStep
  <2> HIDE DEF n
  <2>2. adding'.env = n /\ adding'.from = e /\ adding'.made = Len(entries)
    BY <2>1
  <2>3. DOMAIN envs'[n].tables["class_decls"] = {}
    BY <1>0, <2>1, IsSeqEmpty
  <2>4. \A f \in DOMAIN envs : \A m \in DOMAIN Classes(f) : Classes(f)[m] <= Len(entries)
    BY <1>0 DEF LinkInv
  <2>5. \A f \in DOMAIN envs : envs[f].cache < Len(caches) + 1
    BY <1>0 DEF LinkInv
  <2>6. Len(entries) \in 0..Len(entries')
    BY <1>0, <2>1
  <2> QED
    BY <1>0, <2>1, <2>2, <2>3, <2>4, <2>5, <2>6 DEF BuildInv, Classes
<1>5. ASSUME NEW e \in DOMAIN envs, Dup(e)
      PROVE  BuildInv'
  <2>1. adding' = Nothing
    BY <1>5, DupStep DEF Idle
  <2> QED
    BY <2>1 DEF BuildInv, Nothing
<1>6. ASSUME NEW e \in DOMAIN envs, NEW name, NormalizeModuleName(e, name)
      PROVE  BuildInv'
  <2>1. adding' = Nothing
    BY <1>6, NormalizeStep DEF Idle
  <2> QED
    BY <2>1 DEF BuildInv, Nothing
<1>7. CASE UNCHANGED vars
  BY <1>7 DEF vars, BuildInv, Classes
<1> QED
  BY <1>1, <1>2, <1>3, <1>4, <1>5, <1>6, <1>7, NextSteps

-----------------------------------------------------------------------------
(* The cache of normalized names.                                          *)

\* A name that is normalized to a name stays so, whatever is inserted: it is no alias,
\* and cannot become one, or it is one that stays.
LEMMA NormalizedStays ==
  ASSUME TypeOK, LinkInv, Insert, NEW e \in DOMAIN envs, NEW n,
         IsUnresolved(e, n) \/ IsName(Normalized(e, n))
  PROVE  \/ IsUnresolved(e, n)'
         \/ ~IsUnresolved(e, n) /\ Normalized(e, n)' = Normalized(e, n)
<1> DEFINE a == adding.env
           t == TableOf(Decl.kind)
           classes == Tables["class_decls"]
           aliases == Tables["class_alias_decls"]
<1>1. /\ a \in DOMAIN envs /\ Accepts(Tables, Decl) /\ Decl.kind \in Kind
      /\ \A f \in DOMAIN envs : f # a => envs'[f] = envs[f]
      /\ \A u \in Table : u # t => envs'[a].tables[u] = Tables[u]
      /\ DOMAIN envs'[a].tables[t] = DOMAIN Tables[t] \cup {Decl.name}
      /\ IsEnvironment(envs[a])
  BY InsertStep DEF TypeOK
<1>2. "class_decls" \in Table /\ "class_alias_decls" \in Table /\ t \in Table
  BY <1>1, KindsOfTables DEF Table
<1>3. CASE e # a
  BY <1>1, <1>3 DEF IsUnresolved, Normalized, ProgramOf
<1>4. CASE e = a
  <2> DEFINE classes2 == envs'[a].tables["class_decls"]
             aliases2 == envs'[a].tables["class_alias_decls"]
  <2>1. DOMAIN classes \subseteq DOMAIN classes2
    BY <1>1, <1>2
  <2>2. \A m \in DOMAIN aliases : m \in DOMAIN aliases2 /\ aliases2[m] = aliases[m]
    <3>1. CASE t # "class_alias_decls"
      BY <1>1, <1>2, <3>1
    <3>2. CASE t = "class_alias_decls"
      <4>1. Decl.kind \in AliasKind
        BY <1>1, <3>2, KindsOfTables
      <4>2. InsertSingle
        BY <4>1 DEF Insert, InsertModule, OpenModule, Inserting, AliasKind, ModuleKind
      <4>3. Decl.name \notin DOMAIN aliases
        BY <1>1, <4>1 DEF Accepts, ConstantNames, AliasKind, ModuleKind
      <4> DEFINE table == Set(aliases, Decl.name, Decl)
                 new == [envs[a] EXCEPT !.tables["class_alias_decls"] = table]
                 env == envs[a]
      <4>4. envs' = [envs EXCEPT ![a] = new]
        BY <3>2, <4>2 DEF InsertSingle, Tables
      <4>5. new = [env EXCEPT !.tables["class_alias_decls"] = table] /\ IsEnvironment(env)
        BY <1>1
      <4>6. \A m \in DOMAIN aliases : m # Decl.name => m \in DOMAIN table /\ table[m] = aliases[m]
        BY DEF Set
      <4> HIDE DEF table, new, env
      <4>7. new.tables["class_alias_decls"] = table
        BY <1>2, <4>5, EnvironmentInserted, SMTT(20)
      <4>8. envs'[a] = new
        <5>1. IsSeq(envs) /\ a \in DOMAIN envs
          BY <1>1 DEF TypeOK
        <5> QED
          BY <4>4, <5>1, IsSeqExcept
      <4> QED
        BY <4>3, <4>6, <4>7, <4>8
    <3> QED
      BY <3>1, <3>2
  <2>3. IsUnresolved(a, n) <=> n \in DOMAIN aliases /\ ~aliases[n].old.absolute
    BY DEF IsUnresolved, Tables
  <2>4. envs'[a].tables["class_decls"] = classes2 /\ envs'[a].tables["class_alias_decls"] = aliases2
    OBVIOUS
  <2>5. IsUnresolved(e, n)' <=> n \in DOMAIN aliases2 /\ ~aliases2[n].old.absolute
    BY <1>4 DEF IsUnresolved
  <2>6. CASE IsUnresolved(e, n)
    BY <1>4, <2>2, <2>3, <2>5, <2>6
  <2>7. CASE ~IsUnresolved(e, n)
    <3>1. IsName(Normalized(e, n))
      BY <2>7
    <3>2. CASE n \in DOMAIN aliases
      <4>1. /\ aliases[n].old.absolute
            /\ Normalized(e, n) = IF aliases[n].old.path \in DOMAIN classes THEN Found(aliases[n].old.path) ELSE Nil
        BY <1>4, <2>3, <2>7, <3>2 DEF Normalized, Tables
      <4>2. aliases[n].old.path \in DOMAIN classes
        BY <3>1, <4>1 DEF IsName, Nil
      <4>3. n \in DOMAIN aliases2 /\ aliases2[n] = aliases[n] /\ aliases[n].old.path \in DOMAIN classes2
        BY <2>1, <2>2, <3>2, <4>2
      <4>4. Normalized(e, n)' = Found(aliases[n].old.path)
        BY <1>4, <4>1, <4>3 DEF Normalized, Found
      <4> QED
        BY <2>7, <4>1, <4>2, <4>4
    <3>3. CASE n \notin DOMAIN aliases
      <4>1. Normalized(e, n) = IF n \in DOMAIN classes THEN Found(n) ELSE Nil
        BY <1>4, <3>3 DEF Normalized, Tables
      <4>2. n \in DOMAIN classes
        BY <3>1, <4>1 DEF IsName, Nil
      <4>3. n \notin DOMAIN aliases2
        <5>1. CASE t # "class_alias_decls"
          BY <1>1, <1>2, <3>3, <5>1
        <5>2. CASE t = "class_alias_decls"
          <6>1. Decl.kind \in AliasKind
            BY <1>1, <5>2, KindsOfTables
          <6>2. Decl.name \notin DOMAIN classes
            BY <1>1, <6>1 DEF Accepts, ConstantNames, AliasKind, ModuleKind
          <6> QED
            BY <1>1, <3>3, <4>2, <5>2, <6>2
        <5> QED
          BY <5>1, <5>2
      <4>4. Normalized(e, n)' = Found(n)
        BY <1>4, <2>1, <4>2, <4>3 DEF Normalized, Found
      <4> QED
        BY <2>7, <4>1, <4>2, <4>4
    <3> QED
      BY <3>2, <3>3
  <2> QED
    BY <2>6, <2>7
<1> QED
  BY <1>3, <1>4

\* A cache that is not shared only gets names that are found, and they stay found.
LEMMA CacheStep ==
  ASSUME TypeOK, LinkInv, BuildInv, CacheInv, [Next]_vars
  PROVE  CacheInv'
<1>0. /\ IsSeq(envs) /\ IsSeq(caches) /\ Len(caches) \in Nat /\ DOMAIN caches = 1..Len(caches)
      /\ \A e \in DOMAIN envs : envs[e].cache \in DOMAIN caches
  BY IsSeqBasics DEF TypeOK, LinkInv

\* An environment has the same tables, and nobody new has its cache.
<1>1. ASSUME NEW e \in DOMAIN envs, e \in DOMAIN envs',
             envs'[e].tables = envs[e].tables, envs'[e].cache = envs[e].cache,
             caches'[envs[e].cache] = caches[envs[e].cache], CachesAlone(e)
      PROVE  \A n \in DOMAIN caches'[envs'[e].cache] :
               \/ IsUnresolved(e, n)'
               \/ caches'[envs'[e].cache][n] = Normalized(e, n)' /\ IsName(Normalized(e, n)')
  <2> TAKE n \in DOMAIN caches'[envs'[e].cache]
  <2>1. IsUnresolved(e, n)' = IsUnresolved(e, n) /\ Normalized(e, n)' = Normalized(e, n)
    BY <1>1 DEF IsUnresolved, Normalized, ProgramOf
  <2>2. n \in DOMAIN caches[envs[e].cache]
    BY <1>1
  <2>3. IsUnresolved(e, n) \/ (caches[envs[e].cache][n] = Normalized(e, n) /\ IsName(Normalized(e, n)))
    BY <1>1, <2>2 DEF CacheInv
  <2> QED
    BY <1>1, <2>1, <2>3
<1>2. ASSUME NEW f, DOMAIN envs' = DOMAIN envs, UNCHANGED caches,
             \A e \in DOMAIN envs : envs'[e].tables = envs[e].tables /\ envs'[e].cache = envs[e].cache
      PROVE  CacheInv'
  <2>1. \A e \in DOMAIN envs : CachesAlone(e)' => CachesAlone(e)
    BY <1>2 DEF CachesAlone
  <2> QED
    BY <1>1, <1>2, <2>1 DEF CacheInv
<1>3. CASE \E e, source : Sourced(e, source)
  <2>1. PICK e, source : Sourced(e, source)
    BY <1>3
  <2>2. /\ DOMAIN envs' = DOMAIN envs /\ UNCHANGED caches
        /\ \A f \in DOMAIN envs : envs'[f].tables = envs[f].tables /\ envs'[f].cache = envs[f].cache
    BY <2>1, SourceStep DEF Sourced
  <2> QED
    BY <1>2, <2>2
<1>4. CASE FinishAdding \/ Raised \/ UNCHANGED vars
  <2>1. UNCHANGED <<envs, caches>>
    BY <1>4 DEF FinishAdding, Raised, Duplicated, vars
  <2> QED
    BY <1>2, <2>1
<1>5. CASE Insert
  <2>1. /\ DOMAIN envs' = DOMAIN envs /\ caches' = caches
        /\ \A e \in DOMAIN envs : envs'[e].cache = envs[e].cache
    BY <1>5, InsertStep
  <2>2. \A e \in DOMAIN envs : CachesAlone(e)' => CachesAlone(e)
    BY <2>1 DEF CachesAlone
  <2>3. ASSUME NEW e \in DOMAIN envs, CachesAlone(e)', NEW n \in DOMAIN caches[envs[e].cache]
        PROVE  \/ IsUnresolved(e, n)'
               \/ caches[envs[e].cache][n] = Normalized(e, n)' /\ IsName(Normalized(e, n)')
    <3>1. IsUnresolved(e, n) \/ (caches[envs[e].cache][n] = Normalized(e, n) /\ IsName(Normalized(e, n)))
      BY <2>2, <2>3 DEF CacheInv
    <3>2. \/ IsUnresolved(e, n)'
          \/ ~IsUnresolved(e, n) /\ Normalized(e, n)' = Normalized(e, n)
      BY <1>5, <3>1, NormalizedStays
    <3> QED
      BY <3>1, <3>2
  <2> QED
    BY <2>1, <2>3 DEF CacheInv
<1>6. CASE Lost
  <2>1. /\ DOMAIN envs' = DOMAIN envs \ {adding.env} /\ adding.env \in DOMAIN envs
        /\ \A e \in DOMAIN envs' : envs'[e] = envs[e]
        /\ DOMAIN caches' = DOMAIN caches \ {Len(caches)}
        /\ \A c \in DOMAIN caches' : caches'[c] = caches[c]
        /\ adding.from # 0
    BY <1>6, LostStep DEF Lost
  <2>2. /\ envs[adding.env].cache = Len(caches)
        /\ \A e \in DOMAIN envs' : envs[e].cache < Len(caches)
    BY <2>1 DEF BuildInv
  <2>3. ASSUME NEW e \in DOMAIN envs', CachesAlone(e)'
        PROVE  CachesAlone(e) /\ caches'[envs[e].cache] = caches[envs[e].cache]
    <3>1. envs[e].cache \in DOMAIN caches'
      BY <1>0, <2>1, <2>2
    <3>2. envs[e].cache # envs[adding.env].cache
      BY <1>0, <2>1, <2>2
    <3> QED
      BY <2>1, <2>3, <3>1, <3>2 DEF CachesAlone
  <2> QED
    BY <1>1, <2>1, <2>3 DEF CacheInv
<1>7. ASSUME NEW e \in DOMAIN envs, NEW meant, NEW sources, Rebuilt(e, meant, sources)
      PROVE  CacheInv'
  <2> DEFINE n == Len(envs) + 1
             c == Len(caches) + 1
  <2>1. /\ n \notin DOMAIN envs /\ DOMAIN envs' = DOMAIN envs \cup {n}
        /\ \A f \in DOMAIN envs : envs'[f] = envs[f]
        /\ envs'[n].cache = c /\ caches'[c] = <<>>
        /\ \A d \in DOMAIN caches : caches'[d] = caches[d]
    BY <1>7, RebuiltStep
  <2> HIDE DEF n, c
  <2>2. \A f \in DOMAIN envs : CachesAlone(f)' => CachesAlone(f)
    BY <2>1 DEF CachesAlone
  <2>3. DOMAIN caches'[envs'[n].cache] = {}
    BY <2>1, IsSeqEmpty
  <2> QED
    BY <1>0, <1>1, <2>1, <2>2, <2>3 DEF CacheInv
<1>8. ASSUME NEW e \in DOMAIN envs, Dup(e)
      PROVE  CacheInv'
  <2>1. PICK n : /\ n \notin DOMAIN envs /\ DOMAIN envs' = DOMAIN envs \cup {n}
                 /\ \A f \in DOMAIN envs : envs'[f] = envs[f]
                 /\ envs'[n] = envs[e] /\ caches' = caches
    BY <1>8, DupStep
  <2>2. \A f \in DOMAIN envs : CachesAlone(f)' => CachesAlone(f)
    BY <2>1 DEF CachesAlone
  <2>3. ~CachesAlone(n)'
    BY <2>1 DEF CachesAlone
  <2>4. ASSUME NEW f \in DOMAIN envs', CachesAlone(f)'
        PROVE  \A m \in DOMAIN caches'[envs'[f].cache] :
                 \/ IsUnresolved(f, m)'
                 \/ caches'[envs'[f].cache][m] = Normalized(f, m)' /\ IsName(Normalized(f, m)')
    <3>1. f \in DOMAIN envs
      BY <2>1, <2>3, <2>4
    <3> QED
      BY <1>1, <2>1, <2>2, <2>4, <3>1
  <2> QED
    BY <2>4 DEF CacheInv
<1>9. ASSUME NEW e \in DOMAIN envs, NEW name, NormalizeModuleName(e, name)
      PROVE  CacheInv'
  <2> DEFINE c == envs[e].cache
  <2>1. /\ c \in DOMAIN caches /\ IsKept(e, name) /\ UNCHANGED envs
        /\ \A d \in DOMAIN caches : d # c => caches'[d] = caches[d]
        /\ DOMAIN caches'[c] = DOMAIN caches[c] \cup {name}
        /\ caches'[c][name] = Normalized(e, name)
        /\ \A n \in DOMAIN caches[c] : n # name => caches'[c][n] = caches[c][n]
    BY <1>9, NormalizeStep
  <2>2. /\ \A f \in DOMAIN envs : CachesAlone(f)' = CachesAlone(f)
        /\ \A f \in DOMAIN envs : \A n : IsUnresolved(f, n)' = IsUnresolved(f, n)
        /\ \A f \in DOMAIN envs : \A n : Normalized(f, n)' = Normalized(f, n)
    BY <2>1 DEF CachesAlone, IsUnresolved, Normalized, ProgramOf
  <2>3. ASSUME NEW f \in DOMAIN envs, CachesAlone(f), NEW n \in DOMAIN caches'[envs[f].cache]
        PROVE  \/ IsUnresolved(f, n)
               \/ caches'[envs[f].cache][n] = Normalized(f, n) /\ IsName(Normalized(f, n))
    <3>1. CASE f # e
      <4>1. envs[f].cache # c
        BY <2>3, <3>1 DEF CachesAlone
      <4>2. caches'[envs[f].cache] = caches[envs[f].cache]
        BY <1>0, <2>1, <4>1
      <4> QED
        BY <2>3, <4>2 DEF CacheInv
    <3>2. CASE f = e /\ n = name
      BY <2>1, <3>2 DEF IsKept
    <3>3. CASE f = e /\ n # name
      <4>1. n \in DOMAIN caches[c] /\ caches'[c][n] = caches[c][n]
        BY <2>1, <2>3, <3>3
      <4> QED
        BY <2>3, <3>3, <4>1 DEF CacheInv
    <3> QED
      BY <3>1, <3>2, <3>3
  <2> QED
    BY <2>1, <2>2, <2>3 DEF CacheInv
<1> QED
  BY <1>3, <1>4, <1>5, <1>6, <1>7, <1>8, <1>9, NextSteps

\* The part of the invariant that normalized names depend on is kept by every step.
THEOREM CachesInvariance == Spec => []CachesInv
<1>1. Init => CachesInv
  BY InitHolds
<1>2. CachesInv /\ [Next]_vars => CachesInv'
  BY TypeStep, LinkStep, BuildStep, CacheStep DEF CachesInv
<1> QED
  BY <1>1, <1>2, PTL DEF Spec

\* normalize_module_name? never answers from its cache what it would not find now: a
\* name that was found stays what it was when declarations are added, because
\* insert_rbs_decl and insert_ruby_decl take no second declaration of an alias, and none
\* of an alias that has the name of a class.
THEOREM CacheIsCurrentAlways == Spec => []CacheIsCurrent
<1>1. CachesInv => CacheIsCurrent
  BY DEF CachesInv, CacheInv, CacheIsCurrent, Settled
<1> QED
  BY <1>1, CachesInvariance, PTL
-----------------------------------------------------------------------------
(* What is inserted, and what is left.                                     *)

\* Nothing that is left.
LEMMA JoinNothing ==
  ASSUME NEW s, IsSeq(s)
  PROVE  s \o <<>> = s /\ <<>> \o s = s
<1>1. PICK T : s \in Seq(T)
  BY DEF IsSeq
<1> QED
  BY <1>1

\* A source puts its declarations after those that are there.
LEMMA SourcedDecls ==
  ASSUME TypeOK, NEW e, NEW source, Sourced(e, source)
  PROVE  /\ e \in DOMAIN envs /\ IsDecls(source.decls)
         /\ AllDecls(e)' = AllDecls(e) \o source.decls
         /\ \A f \in DOMAIN envs : f # e => AllDecls(f)' = AllDecls(f)
<1>1. /\ e \in DOMAIN envs /\ IsSource(source)
      /\ \A f \in DOMAIN envs : f # e => envs'[f] = envs[f]
      /\ envs'[e].sources = Append(envs[e].sources, source)
  BY SourceStep DEF Sourced
<1>2. IsSources(envs[e].sources) /\ IsDecls(source.decls)
  BY <1>1 DEF TypeOK, IsEnvironment, IsSource
<1> QED
  BY <1>1, <1>2, AllDeclsAre, DeclsOfAppend

\* Only steps that insert a declaration change what is inserted.
LEMMA RestStep ==
  ASSUME TypeOK, LinkInv, BuildInv, RestInv, [Next]_vars
  PROVE  /\ RestInv'
         /\ Insert => /\ Inserted(adding.env)' = Append(Inserted(adding.env), Decl)
                      /\ \A e \in DOMAIN envs : e # adding.env => Inserted(e)' = Inserted(e)
                      /\ \A e \in DOMAIN envs : AllDecls(e)' = AllDecls(e)
         /\ Raised => \A e \in DOMAIN envs : e # adding.env => Inserted(e)' = Inserted(e)
         /\ ~Insert /\ ~Raised =>
              \A e \in DOMAIN envs \cap DOMAIN envs' : Inserted(e)' = Inserted(e)
<1>0. /\ \A e \in DOMAIN envs : IsDecls(AllDecls(e)) /\ IsDecls(Inserted(e))
      /\ \A e : e # adding.env => Inserted(e) = AllDecls(e)
      /\ ~Idle => adding.env \in DOMAIN envs /\ AllDecls(adding.env) = Inserted(adding.env) \o adding.decls
      /\ Idle => \A e \in DOMAIN envs : e # adding.env
  BY InsertedAre
<1>1. /\ \A e : AllDecls(e) = DeclsOf(envs[e].sources)
      /\ \A e : AllDecls(e)' = DeclsOf(envs'[e].sources)
  BY AllDeclsAre
<1>2. \A e : e # adding'.env => Inserted(e)' = AllDecls(e)'
  BY DEF Inserted
<1>3. ASSUME ~Idle, adding.decls = <<>>
      PROVE  AllDecls(adding.env) = Inserted(adding.env)
  BY <1>0, <1>3, JoinNothing DEF IsDecls
<1>4. ASSUME adding' = Nothing
      PROVE  RestInv' /\ \A e \in DOMAIN envs : Inserted(e)' = AllDecls(e)'
  <2>1. Idle' /\ adding'.env = 0
    BY <1>4 DEF Idle, Nothing
  <2>2. \A e \in DOMAIN envs : e # 0
    BY IsSeqBasics DEF TypeOK
  <2> QED
    BY <1>2, <2>1, <2>2 DEF RestInv
<1>5. ASSUME NEW e, NEW source, Sourced(e, source)
      PROVE  /\ RestInv' /\ ~Insert /\ ~Raised
             /\ \A f \in DOMAIN envs : Inserted(f)' = Inserted(f)
  <2>1. /\ e \in DOMAIN envs /\ IsSource(source)
        /\ \A f \in DOMAIN envs : f # e => envs'[f] = envs[f]
        /\ envs'[e].sources = Append(envs[e].sources, source)
        /\ adding' = [env |-> e, from |-> adding.from, made |-> adding.made,
                      decls |-> source.decls, sources |-> adding'.sources]
    BY <1>5, SourceStep DEF Sourced
  <2>2. adding'.env = e /\ adding'.decls = source.decls /\ IsDecls(source.decls)
    BY <2>1 DEF IsSource
  <2>3. AllDecls(e)' = AllDecls(e) \o source.decls
    BY <1>5, SourcedDecls
  <2>4. \A f \in DOMAIN envs : f # e => AllDecls(f)' = AllDecls(f)
    BY <1>5, SourcedDecls
  <2>5. Inserted(e)' = AllDecls(e)
    <3> DEFINE s == AllDecls(e)
               t == source.decls
               d == AllDecls(e)'
    <3>1. Inserted(e)' = SubSeq(d, 1, Len(d) - Len(t))
      BY <2>2 DEF Inserted
    <3>2. IsSeq(s) /\ IsSeq(t)
      BY <1>0, <2>1, <2>2 DEF IsDecls
    <3>3. d = s \o t
      BY <2>3
    <3> HIDE DEF s, t, d
    <3>4. SubSeq(s \o t, 1, Len(s \o t) - Len(t)) = s
      BY <3>2, JoinFront
    <3> QED
      BY <3>1, <3>3, <3>4 DEF s
  <2>6. /\ AllDecls(e) = Inserted(e) /\ ~Insert /\ ~Raised
        /\ \A f \in DOMAIN envs : f # e => f # adding.env
    <3>1. CASE Idle
      BY <1>0, <2>1, <3>1 DEF Insert, InsertModule, OpenModule, InsertSingle, Inserting, Raised, Duplicated
    <3>2. CASE ~Idle
      <4>1. AddNextSource /\ e = adding.env /\ adding.decls = <<>>
        BY <1>5, <3>2 DEF Sourced, AddSource, AddNextSource
      <4> QED
        BY <1>3, <3>2, <4>1 DEF Insert, InsertModule, OpenModule, InsertSingle, Inserting, Raised, Duplicated
    <3> QED
      BY <3>1, <3>2
  <2>7. RestInv'
    <3>1. IsSeq(AllDecls(e))
      BY <1>0, <2>1 DEF IsDecls
    <3>2. AllDecls(adding.env)' = AllDecls(e) \o adding'.decls
      BY <1>1, <2>2, <2>3
    <3> QED
      BY <3>1, <3>2 DEF RestInv
  <2>8. ASSUME NEW f \in DOMAIN envs, f # e
        PROVE  Inserted(f)' = Inserted(f)
    BY <1>0, <1>2, <2>2, <2>4, <2>6, <2>8
  <2> QED
    BY <2>5, <2>6, <2>7, <2>8
<1>6. CASE FinishAdding
  <2>1. /\ ~Idle /\ adding.decls = <<>> /\ adding' = Nothing /\ UNCHANGED envs
    BY <1>6 DEF FinishAdding
  <2>2. \A e \in DOMAIN envs : AllDecls(e)' = AllDecls(e)
    BY <1>1, <2>1
  <2>3. ~Insert /\ ~Raised
    BY <2>1 DEF Insert, InsertModule, OpenModule, InsertSingle, Inserting, Raised, Duplicated
  <2> QED
    BY <1>0, <1>3, <1>4, <2>1, <2>2, <2>3
<1>7. CASE Insert
  <2> DEFINE a == adding.env
  <2>1. /\ ~Idle /\ a \in DOMAIN envs /\ adding.decls # <<>>
        /\ adding' = [env |-> adding.env, from |-> adding.from, made |-> adding.made,
                      decls |-> Tail(adding.decls), sources |-> adding.sources]
        /\ \A f \in DOMAIN envs : f # a => envs'[f] = envs[f]
        /\ envs'[a].sources = envs[a].sources
    BY <1>7, InsertStep
  <2>2. adding'.env = a /\ adding'.decls = Tail(adding.decls)
    BY <2>1
  <2>3. \A e \in DOMAIN envs : AllDecls(e)' = AllDecls(e)
    BY <1>1, <2>1
  <2>4. IsSeq(adding.decls) /\ IsSeq(Inserted(a))
    BY <1>0, <2>1 DEF TypeOK, IsDecls
  <2>5. AllDecls(a) = Append(Inserted(a), Decl) \o Tail(adding.decls)
    BY <1>0, <2>1, <2>4, ShiftFirst DEF Decl
  <2>6. IsSeq(Append(Inserted(a), Decl)) /\ IsSeq(Tail(adding.decls))
    BY <2>1, <2>4, IsSeqAppend, IsSeqTail
  <2>7. AllDecls(adding.env)' = Append(Inserted(a), Decl) \o adding'.decls
    <3>1. AllDecls(adding.env)' = AllDecls(a)
      BY <1>1, <2>1, <2>2
    <3> QED
      BY <2>2, <2>5, <3>1
  <2>8. RestInv'
    BY <2>6, <2>7 DEF RestInv
  <2>9. Inserted(adding.env)' = Append(Inserted(a), Decl)
    <3> DEFINE s == Append(Inserted(a), Decl)
               t == Tail(adding.decls)
               d == AllDecls(adding.env)'
    <3>1. Inserted(adding.env)' = SubSeq(d, 1, Len(d) - Len(t))
      BY <2>2 DEF Inserted
    <3>2. IsSeq(s) /\ IsSeq(t)
      BY <2>6
    <3>3. d = s \o t
      BY <2>2, <2>7
    <3> HIDE DEF s, t, d
    <3>4. SubSeq(s \o t, 1, Len(s \o t) - Len(t)) = s
      BY <3>2, JoinFront
    <3> QED
      BY <3>1, <3>3, <3>4 DEF s
  <2>10. \A e \in DOMAIN envs : e # a => Inserted(e)' = Inserted(e)
    BY <1>0, <1>2, <2>2, <2>3
  <2>11. ~Raised
    BY <1>7 DEF Raised, Duplicated, Insert, InsertModule, OpenModule, InsertSingle, Inserting
  <2> QED
    BY <1>7, <2>3, <2>8, <2>9, <2>10, <2>11
<1>8. CASE Raised
  <2>1. adding' = Nothing /\ UNCHANGED envs
    BY <1>8 DEF Raised, Duplicated
  <2>2. \A e \in DOMAIN envs : AllDecls(e)' = AllDecls(e)
    BY <1>1, <2>1
  <2>3. ~Insert
    BY <1>8 DEF Raised, Duplicated, Insert, InsertModule, OpenModule, InsertSingle, Inserting
  <2> QED
    BY <1>0, <1>4, <1>8, <2>1, <2>2, <2>3
<1>9. CASE Lost
  <2>1. /\ adding' = Nothing /\ DOMAIN envs' = DOMAIN envs \ {adding.env}
        /\ \A e \in DOMAIN envs' : envs'[e] = envs[e]
    BY <1>9, LostStep
  <2>2. \A e \in DOMAIN envs' : AllDecls(e)' = AllDecls(e)
    BY <1>1, <2>1
  <2>3. ~Insert /\ ~Raised
    BY <1>9 DEF Lost, Raised, Duplicated, Insert, InsertModule, OpenModule, InsertSingle, Inserting
  <2> QED
    BY <1>0, <1>4, <2>1, <2>2, <2>3
<1>10. ASSUME NEW e \in DOMAIN envs, NEW meant, NEW sources, Rebuilt(e, meant, sources)
       PROVE  /\ RestInv' /\ ~Insert /\ ~Raised
              /\ \A f \in DOMAIN envs : Inserted(f)' = Inserted(f)
  <2>1. PICK n : /\ Idle /\ n \notin DOMAIN envs
                 /\ \A f \in DOMAIN envs : envs'[f] = envs[f]
                 /\ envs'[n].sources = <<>>
                 /\ adding' = [env |-> n, from |-> e, made |-> Len(entries), decls |-> <<>>, sources |-> sources]
    BY <1>10, RebuiltStep
  <2>2. adding'.env = n /\ adding'.decls = <<>>
    BY <2>1
  <2>3. \A f \in DOMAIN envs : AllDecls(f)' = AllDecls(f)
    BY <1>1, <2>1
  <2>4. AllDecls(n)' = <<>>
    BY <1>1, <2>1, NoDecls
  <2>5. RestInv'
    <3>1. <<>> \o <<>> = <<>> /\ IsSeq(<<>>)
      BY IsSeqEmpty, JoinNothing
    <3>2. AllDecls(adding.env)' = <<>> \o adding'.decls
      BY <1>1, <2>1, <2>2, <3>1, NoDecls
    <3> QED
      BY <3>1, <3>2 DEF RestInv
  <2>6. ~Insert /\ ~Raised
    BY <2>1 DEF Raised, Duplicated, Insert, InsertModule, OpenModule, InsertSingle, Inserting
  <2> QED
    BY <1>0, <1>2, <2>1, <2>2, <2>3, <2>5, <2>6
<1>11. ASSUME NEW e \in DOMAIN envs, Dup(e)
       PROVE  /\ RestInv' /\ ~Insert /\ ~Raised
              /\ \A f \in DOMAIN envs : Inserted(f)' = Inserted(f)
  <2>1. Idle /\ adding' = Nothing /\ \A f \in DOMAIN envs : envs'[f] = envs[f]
    BY <1>11, DupStep DEF Idle
  <2>2. \A f \in DOMAIN envs : AllDecls(f)' = AllDecls(f)
    BY <1>1, <2>1
  <2>3. ~Insert /\ ~Raised
    BY <2>1 DEF Raised, Duplicated, Insert, InsertModule, OpenModule, InsertSingle, Inserting
  <2> QED
    BY <1>0, <1>4, <2>1, <2>2, <2>3
<1>12. ASSUME UNCHANGED <<envs, adding>>
       PROVE  RestInv' /\ \A f : Inserted(f)' = Inserted(f)
  BY <1>1, <1>12 DEF RestInv, Inserted, Idle
<1>13. ASSUME NEW e \in DOMAIN envs, NEW name, NormalizeModuleName(e, name)
       PROVE  Idle /\ UNCHANGED <<envs, adding>>
  BY <1>13 DEF NormalizeModuleName
<1>14. CASE UNCHANGED vars
  <2>1. UNCHANGED <<envs, adding>>
    BY <1>14 DEF vars
  <2>2. ~Insert
    <3>1. ASSUME Insert PROVE FALSE
      <4>1. adding.decls # <<>> /\ IsSeq(adding.decls)
        BY <3>1, InsertStep DEF TypeOK, IsDecls
      <4>2. Len(Tail(adding.decls)) = Len(adding.decls) - 1 /\ Len(adding.decls) \in Nat
        BY <4>1, IsSeqTail, IsSeqBasics
      <4>3. adding'.decls = Tail(adding.decls)
        BY <3>1, InsertStep
      <4>4. Tail(adding.decls) = adding.decls
        BY <2>1, <4>3
      <4>5. Len(adding.decls) = Len(adding.decls) - 1
        BY <4>2, <4>4
      <4> QED
        BY <4>2, <4>5
    <3> QED
      BY <3>1
  <2>3. ~Raised
    BY <2>1 DEF Raised, Duplicated, Idle
  <2> QED
    BY <1>12, <2>1, <2>2, <2>3
<1>15. ASSUME Idle PROVE ~Insert /\ ~Raised
  BY <1>15 DEF Raised, Duplicated, Insert, InsertModule, OpenModule, InsertSingle, Inserting
<1> QED
  BY <1>5, <1>6, <1>7, <1>8, <1>9, <1>10, <1>11, <1>12, <1>13, <1>14, <1>15, NextSteps
-----------------------------------------------------------------------------
(* Where the sources of what is built come from, and who raised.           *)

\* A source that is added moves from those left to those that are there.
LEMMA OriginStep ==
  ASSUME TypeOK, LinkInv, BuildInv, OriginInv, [Next]_vars
  PROVE  OriginInv'
<1>1. ASSUME NEW e, NEW source, Sourced(e, source)
      PROVE  OriginInv'
  <2>1. /\ \A f \in DOMAIN envs : f # e => envs'[f] = envs[f]
        /\ adding' = [env |-> e, from |-> adding.from, made |-> adding.made,
                      decls |-> source.decls, sources |-> adding'.sources]
        /\ adding.from # 0 => /\ e = adding.env
                              /\ envs'[e].sources \o adding'.sources = envs[e].sources \o adding.sources
    BY <1>1, SourceStep DEF Sourced
  <2>2. adding'.env = e /\ adding'.from = adding.from
    BY <2>1
  <2> SUFFICES ASSUME adding.from # 0
               PROVE  AreOf(envs'[e].sources \o adding'.sources, envs'[adding.from].sources)
    BY <2>2 DEF OriginInv
  <2>3. adding.from \in DOMAIN envs /\ adding.from # adding.env
    BY DEF BuildInv
  <2>4. AreOf(envs[adding.env].sources \o adding.sources, envs[adding.from].sources)
    BY DEF OriginInv
  <2> QED
    BY <2>1, <2>3, <2>4
<1>2. CASE FinishAdding \/ Raised \/ Lost
  <2>1. adding' = Nothing
    BY <1>2 DEF FinishAdding, Raised, Lost, Duplicated
  <2> QED
    BY <2>1 DEF OriginInv, Nothing
<1>3. CASE Insert
  <2>1. /\ adding' = [env |-> adding.env, from |-> adding.from, made |-> adding.made,
                      decls |-> Tail(adding.decls), sources |-> adding.sources]
        /\ \A f \in DOMAIN envs : f # adding.env => envs'[f] = envs[f]
        /\ envs'[adding.env].sources = envs[adding.env].sources
    BY <1>3, InsertStep
  <2>2. adding'.env = adding.env /\ adding'.from = adding.from /\ adding'.sources = adding.sources
    BY <2>1
  <2>3. adding.from # 0 => adding.from \in DOMAIN envs /\ adding.from # adding.env
    BY DEF BuildInv
  <2> QED
    BY <2>1, <2>2, <2>3 DEF OriginInv
<1>4. ASSUME NEW e \in DOMAIN envs, NEW meant, NEW sources, Rebuilt(e, meant, sources)
      PROVE  OriginInv'
  <2>1. PICK n : /\ \A f \in DOMAIN envs : envs'[f] = envs[f]
                 /\ envs'[n].sources = <<>>
                 /\ adding' = [env |-> n, from |-> e, made |-> Len(entries), decls |-> <<>>, sources |-> sources]
    BY <1>4, RebuiltStep
  <2>2. adding'.env = n /\ adding'.from = e /\ adding'.sources = sources
    BY <2>1
  <2>3. IsSeq(sources) /\ AreOf(sources, envs[e].sources)
    BY <1>4 DEF Rebuilt, IsSources
  <2>4. <<>> \o sources = sources
    BY <2>3, JoinNothing
  <2>5. AreOf(envs'[n].sources \o adding'.sources, envs'[e].sources)
    BY <2>1, <2>2, <2>3, <2>4
  <2> QED
    BY <2>2, <2>5 DEF OriginInv
<1>5. ASSUME NEW e \in DOMAIN envs, Dup(e)
      PROVE  OriginInv'
  <2>1. adding' = Nothing
    BY <1>5, DupStep DEF Idle
  <2> QED
    BY <2>1 DEF OriginInv, Nothing
<1>6. ASSUME UNCHANGED <<envs, adding>>
      PROVE  OriginInv'
  BY <1>6 DEF OriginInv
<1> QED
  BY <1>1, <1>2, <1>3, <1>4, <1>5, <1>6, NextSteps DEF NormalizeModuleName, vars

\* A declaration is refused if it conflicts with one that is there, or if another one did.
LEMMA RefusedConflicts ==
  ASSUME TypeOK, RestInv, RaisedInv, TableInv, ~Idle, adding.decls # <<>>, ~Accepts(Tables, Decl)
  PROVE  HasConflict(AllDecls(adding.env))
<1> DEFINE a == adding.env
           decls == Inserted(a)
           rest == adding.decls
<1>1. a \in DOMAIN envs /\ AllDecls(a) = decls \o rest /\ IsDecls(decls)
  BY InsertedAre
<1>2. IsDecls(rest) /\ Decl = Head(rest)
  BY DEF TypeOK, Decl
<1>3. CASE a \in raised
  BY <1>3 DEF RaisedInv
<1>4. CASE a \notin raised
  <2>1. IsTableOf(Tables, entries, decls)
    BY <1>1, <1>4 DEF TableInv, IsTableOf, Tables, Classes
  <2>2. Decl.kind \in Kind
    BY <1>2, IsSeqTail DEF IsDecls
  <2>3. \E i \in DOMAIN decls : Conflict(decls[i], Decl)
    BY <1>1, <2>1, <2>2, AcceptsIffNoConflict
  <2> HIDE DEF decls, rest
  <2>4. rest # <<>>
    BY DEF rest
  <2>5. HasConflict(decls \o rest)
    BY <1>1, <1>2, <2>3, <2>4, ConflictStays
  <2> QED
    BY <1>1, <2>5
<1> QED
  BY <1>3, <1>4

\* What raises has a conflict, and so has what it was rebuilt from.
LEMMA RaisedStep ==
  ASSUME TypeOK, LinkInv, BuildInv, OriginInv, RestInv, RaisedInv, TableInv, [Next]_vars
  PROVE  RaisedInv'
<1>0. raised \subseteq DOMAIN envs /\ failed \subseteq raised /\ \A e \in raised : HasConflict(AllDecls(e))
  BY DEF TypeOK, RaisedInv
<1>1. ASSUME NEW e, NEW source, Sourced(e, source)
      PROVE  RaisedInv'
  <2>1. /\ e \in DOMAIN envs /\ IsDecls(source.decls) /\ AllDecls(e)' = AllDecls(e) \o source.decls
        /\ \A f \in DOMAIN envs : f # e => AllDecls(f)' = AllDecls(f)
    BY <1>1, SourcedDecls
  <2>2. UNCHANGED <<raised, failed>>
    BY <1>1, SourceStep DEF Sourced
  <2>3. IsDecls(AllDecls(e))
    BY <2>1, InsertedAre
  <2>4. HasConflict(AllDecls(e)) => HasConflict(AllDecls(e)')
    BY <2>1, <2>3, ConflictStays
  <2> QED
    BY <1>0, <2>1, <2>2, <2>4 DEF RaisedInv
<1>2. ASSUME UNCHANGED <<raised, failed>>, \A e \in raised : AllDecls(e)' = AllDecls(e)
      PROVE  RaisedInv'
  BY <1>0, <1>2 DEF RaisedInv
<1>3. ASSUME UNCHANGED envs
      PROVE  \A e : AllDecls(e)' = AllDecls(e)
  BY <1>3, AllDeclsAre
<1>4. CASE Insert
  <2>1. UNCHANGED <<raised, failed>> /\ \A e \in DOMAIN envs : AllDecls(e)' = AllDecls(e)
    BY <1>4, InsertStep, RestStep
  <2> QED
    BY <1>0, <1>2, <2>1
<1>5. CASE Raised
  <2>1. /\ UNCHANGED <<envs, failed>> /\ raised' = raised \cup {adding.env}
        /\ ~Idle /\ adding.decls # <<>> /\ ~Accepts(Tables, Decl)
    BY <1>5 DEF Raised, Duplicated
  <2>2. HasConflict(AllDecls(adding.env))
    BY <2>1, RefusedConflicts
  <2> QED
    BY <1>0, <1>3, <2>1, <2>2 DEF RaisedInv
<1>6. CASE Lost
  <2> DEFINE a == adding.env
             f == adding.from
  <2>1. /\ ~Idle /\ a \in DOMAIN envs /\ f \in DOMAIN envs /\ f # a /\ f # 0
        /\ adding.decls # <<>> /\ ~Accepts(Tables, Decl)
        /\ DOMAIN envs' = DOMAIN envs \ {a} /\ \A e \in DOMAIN envs' : envs'[e] = envs[e]
        /\ failed' = failed \cup {f} /\ raised' = raised
    BY <1>6, LostStep DEF Lost
  <2>2. HasConflict(AllDecls(a))
    BY <2>1, RefusedConflicts
  <2>3. IsSources(envs[a].sources) /\ IsSources(envs[f].sources) /\ IsSources(adding.sources)
    BY <2>1 DEF TypeOK, IsEnvironment
  <2>4. AreOf(envs[a].sources, envs[f].sources)
    <3>1. AreOf(envs[a].sources \o adding.sources, envs[f].sources)
      BY <2>1 DEF OriginInv
    <3> QED
      BY <2>3, <3>1, AreOfFront DEF IsSources
  <2>5. HasConflict(AllDecls(f))
    BY <2>2, <2>3, <2>4, AllDeclsAre, ConflictIsOfOrigin
  <2>6. f \in raised
    <3>1. Inserted(f) = AllDecls(f)
      BY <2>1, InsertedAre
    <3> QED
      BY <2>1, <2>5, <3>1 DEF TableInv
  <2>7. a \notin raised
    BY <2>1 DEF BuildInv
  <2>8. \A e \in raised : AllDecls(e)' = AllDecls(e)
    BY <1>0, <2>1, <2>7, AllDeclsAre
  <2> QED
    BY <1>0, <2>1, <2>6, <2>8 DEF RaisedInv
<1>7. ASSUME NEW e \in DOMAIN envs, NEW meant, NEW sources, Rebuilt(e, meant, sources)
      PROVE  RaisedInv'
  <2>1. UNCHANGED <<raised, failed>> /\ \A f \in DOMAIN envs : envs'[f] = envs[f]
    BY <1>7, RebuiltStep
  <2>2. \A f \in raised : AllDecls(f)' = AllDecls(f)
    BY <1>0, <2>1, AllDeclsAre
  <2> QED
    BY <1>2, <2>1, <2>2
<1>8. ASSUME NEW e \in DOMAIN envs, Dup(e)
      PROVE  RaisedInv'
  <2>1. PICK n : /\ \A f \in DOMAIN envs : envs'[f] = envs[f]
                 /\ envs'[n] = envs[e] /\ failed' = failed
                 /\ raised' = IF e \in raised THEN raised \cup {n} ELSE raised
    BY <1>8, DupStep
  <2>2. AllDecls(n)' = AllDecls(e) /\ \A f \in raised : AllDecls(f)' = AllDecls(f)
    BY <1>0, <2>1, AllDeclsAre
  <2> QED
    BY <1>0, <2>1, <2>2 DEF RaisedInv
<1>9. CASE FinishAdding
  BY <1>2, <1>3, <1>9 DEF FinishAdding
<1>10. ASSUME NEW e \in DOMAIN envs, NEW name, NormalizeModuleName(e, name)
       PROVE  RaisedInv'
  BY <1>2, <1>3, <1>10 DEF NormalizeModuleName
<1>11. CASE UNCHANGED vars
  BY <1>2, <1>3, <1>11 DEF vars
<1> QED
  BY <1>1, <1>4, <1>5, <1>6, <1>7, <1>8, <1>9, <1>10, <1>11, NextSteps
-----------------------------------------------------------------------------
(* The tables.                                                             *)

\* Opening a class again only adds to its entry.
LEMMA OpenModuleStep ==
  ASSUME TypeOK, LinkInv, OpenModule
  PROVE  LET x == Classes(adding.env)[Decl.name]
         IN  /\ Decl.kind \in ModuleKind /\ Decl.name \in DOMAIN Classes(adding.env) /\ x \in DOMAIN entries
             /\ UNCHANGED envs /\ DOMAIN entries' = DOMAIN entries
             /\ entries'[x].kind = entries[x].kind
             /\ entries'[x].decls = Append(entries[x].decls, Decl)
             /\ \A y \in DOMAIN entries : y # x => entries'[y] = entries[y]
<1> DEFINE x == Classes(adding.env)[Decl.name]
           old == entries[x]
           entry == [entries[x] EXCEPT !.decls = Append(@, Decl)]
<1>1. /\ Decl.kind \in ModuleKind /\ Decl.name \in DOMAIN Classes(adding.env) /\ UNCHANGED envs
      /\ entries' = [entries EXCEPT ![x] = entry]
  BY DEF OpenModule, Inserting, Classes, Tables
<1>2. x \in DOMAIN entries
  <2>1. adding.env \in DOMAIN envs
    BY InsertStep DEF Insert
  <2> QED
    BY <1>1, <2>1 DEF LinkInv
<1>3. entry = [old EXCEPT !.decls = Append(@, Decl)]
  OBVIOUS
<1>4. old = [kind |-> old.kind, decls |-> old.decls]
  BY <1>2 DEF TypeOK, IsEntry
<1> HIDE DEF x, old, entry
<1>5. entry.kind = old.kind /\ entry.decls = Append(old.decls, Decl)
  BY <1>3, <1>4
<1>6. DOMAIN entries' = DOMAIN entries /\ entries'[x] = entry /\ \A y \in DOMAIN entries : y # x => entries'[y] = entries[y]
  BY <1>1, <1>2
<1> QED
  BY <1>1, <1>2, <1>5, <1>6 DEF x, old

\* No entry becomes one of another kind.
LEMMA KindsStay ==
  ASSUME TypeOK, LinkInv, Insert
  PROVE  \A x \in DOMAIN entries : x \in DOMAIN entries' /\ entries'[x].kind = entries[x].kind
<1>1. CASE InsertModule
  BY <1>1, InsertModuleStep, IsSeqAppend DEF TypeOK
<1>2. CASE OpenModule
  BY <1>2, OpenModuleStep
<1>3. CASE InsertSingle
  BY <1>3 DEF InsertSingle
<1> QED
  BY <1>1, <1>2, <1>3 DEF Insert

\* What is neither a class nor a module leaves them alone.
LEMMA InsertSingleStep ==
  ASSUME TypeOK, LinkInv, InsertSingle
  PROVE  /\ Decl.kind \notin ModuleKind /\ UNCHANGED entries
         /\ envs'[adding.env].tables["class_decls"] = envs[adding.env].tables["class_decls"]
<1>1. Decl.kind \notin ModuleKind /\ UNCHANGED entries
  BY DEF InsertSingle, Inserting, SingleKind, AliasKind, ModuleKind
<1>2. /\ Decl.kind \in Kind
      /\ \A u \in Table : u # TableOf(Decl.kind) => envs'[adding.env].tables[u] = Tables[u]
  BY InsertStep DEF Insert
<1>3. TableOf(Decl.kind) # "class_decls" /\ "class_decls" \in Table
  BY <1>1, <1>2, KindsOfTables DEF Table
<1> QED
  BY <1>1, <1>2, <1>3 DEF Tables

\* A class or module keeps its entry.
LEMMA ClassesStay ==
  ASSUME TypeOK, LinkInv, Insert
  PROVE  \A n \in DOMAIN envs[adding.env].tables["class_decls"] :
           /\ n \in DOMAIN envs'[adding.env].tables["class_decls"]
           /\ envs'[adding.env].tables["class_decls"][n] = envs[adding.env].tables["class_decls"][n]
<1>1. CASE InsertModule
  <2>1. adding'.env = adding.env
    BY InsertStep
  <2> QED
    BY <1>1, <2>1, InsertModuleStep DEF Classes, Tables
<1>2. CASE OpenModule
  BY <1>2 DEF OpenModule
<1>3. CASE InsertSingle
  BY <1>3, InsertSingleStep
<1> QED
  BY <1>1, <1>2, <1>3 DEF Insert

\* Tables that stay, with entries that do.
LEMMA TablesStay ==
  ASSUME TypeOK, LinkInv, TableInv, NEW e \in DOMAIN envs, e \notin raised,
         \A n \in DOMAIN Classes(e) : entries'[Classes(e)[n]].kind = entries[Classes(e)[n]].kind
  PROVE  IsTableOf(envs[e].tables, entries', Inserted(e))
<1> DEFINE decls == Inserted(e)
<1>1. /\ \A t \in Table : DOMAIN envs[e].tables[t] = NamesIn(decls, t)
      /\ \A i \in DOMAIN decls :
           decls[i].kind \in ModuleKind => entries[Classes(e)[decls[i].name]].kind = decls[i].kind
      /\ ~HasConflict(decls)
  BY DEF TableInv
<1>2. \A i \in DOMAIN decls : decls[i].kind \in ModuleKind => TableOf(decls[i].kind) = "class_decls"
  BY DEF TableOf, ModuleKind, AliasKind
<1>3. "class_decls" \in Table
  BY DEF Table
<1> HIDE DEF decls
<1>4. ASSUME NEW i \in DOMAIN decls, decls[i].kind \in ModuleKind
      PROVE  entries'[Classes(e)[decls[i].name]].kind = decls[i].kind
  <2>1. decls[i].name \in NamesIn(decls, "class_decls")
    BY <1>2, <1>4, NameIsSomewhere
  <2>2. decls[i].name \in DOMAIN Classes(e)
    BY <1>1, <1>3, <2>1 DEF Classes
  <2> QED
    BY <1>1, <1>4, <2>2
<1> QED
  BY <1>1, <1>4 DEF IsTableOf, Classes, decls

\* The tables of the environment that a declaration is inserted into.
LEMMA TableInsert ==
  ASSUME TypeOK, LinkInv, RestInv, TableInv, BuildInv, Insert, adding.env \notin raised
  PROVE  IsTableOf(envs'[adding.env].tables, entries', Append(Inserted(adding.env), Decl))
<1> DEFINE a == adding.env
           decls == Inserted(a)
           more == Append(decls, Decl)
           tables == envs[a].tables
           tables2 == envs'[a].tables
           t == TableOf(Decl.kind)
           l == Len(decls) + 1
<1>1. /\ a \in DOMAIN envs /\ Accepts(tables, Decl) /\ Decl.kind \in Kind
      /\ \A u \in Table : u # t => tables2[u] = tables[u]
      /\ DOMAIN tables2[t] = DOMAIN tables[t] \cup {Decl.name}
      /\ adding'.env = a
  BY InsertStep DEF Tables
<1>2. IsDecls(decls) /\ IsTableOf(tables, entries, decls)
  BY <1>1, InsertedAre DEF TableInv, IsTableOf, Classes
<1>3. IsTableOf(tables, entries', decls)
  <2>1. \A n \in DOMAIN Classes(a) : entries'[Classes(a)[n]].kind = entries[Classes(a)[n]].kind
    BY <1>1, KindsStay DEF LinkInv
  <2> QED
    BY <1>1, <2>1, TablesStay
<1>4. ~HasConflict(more)
  <2>1. ~\E i \in DOMAIN decls : Conflict(decls[i], Decl)
    BY <1>1, <1>2, AcceptsIffNoConflict
  <2>2. ~HasConflict(decls)
    BY <1>2 DEF IsTableOf
  <2> HIDE DEF decls
  <2> QED
    BY <1>2, <2>1, <2>2, ConflictAppend
<1>5. \A u \in Table : DOMAIN tables2[u] = NamesIn(more, u)
  <2> TAKE u \in Table
  <2>1. DOMAIN tables[u] = NamesIn(decls, u)
    BY <1>2 DEF IsTableOf
  <2>2. NamesIn(more, u) = IF t = u THEN NamesIn(decls, u) \cup {Decl.name} ELSE NamesIn(decls, u)
    BY <1>2, NamesAppend
  <2> QED
    BY <1>1, <2>1, <2>2
<1>6. \A n \in DOMAIN tables["class_decls"] : tables2["class_decls"][n] = tables["class_decls"][n]
  BY ClassesStay
<1>7. Decl.kind \in ModuleKind => entries'[tables2["class_decls"][Decl.name]].kind = Decl.kind
  <2>1. CASE InsertModule
    <3>1. /\ entries' = Append(entries, [kind |-> Decl.kind, decls |-> <<Decl>>])
          /\ tables2["class_decls"][Decl.name] = Len(entries) + 1
      BY <1>1, <2>1, InsertModuleStep DEF Classes
    <3>2. entries'[Len(entries) + 1] = [kind |-> Decl.kind, decls |-> <<Decl>>]
      BY <3>1, IsSeqAppend DEF TypeOK
    <3> QED
      BY <3>1, <3>2
  <2>2. CASE OpenModule
    <3>1. /\ Decl.name \in DOMAIN tables["class_decls"]
          /\ entries'[tables["class_decls"][Decl.name]].kind = entries[tables["class_decls"][Decl.name]].kind
          /\ Decl.kind \in ModuleKind
      BY <2>2, OpenModuleStep DEF Classes
    <3>2. PICK i \in DOMAIN decls : decls[i].name = Decl.name /\ TableOf(decls[i].kind) = "class_decls"
      <4>1. Decl.name \in NamesIn(decls, "class_decls")
        BY <1>2, <3>1 DEF IsTableOf, Table
      <4> QED
        BY <4>1, NameIsSomewhere
    <3>3. ~Conflict(decls[i], Decl)
      BY <1>1, <1>2, AcceptsIffNoConflict
    <3>4. t = "class_decls"
      BY <3>1 DEF TableOf, ModuleKind, AliasKind
    <3>5. decls[i].kind = Decl.kind
      BY <3>2, <3>3, <3>4 DEF Conflict
    <3>6. entries[tables["class_decls"][Decl.name]].kind = decls[i].kind
      BY <1>2, <3>1, <3>2, <3>5 DEF IsTableOf
    <3> QED
      BY <1>6, <3>1, <3>5, <3>6
  <2>3. CASE InsertSingle
    BY <2>3 DEF InsertSingle, Inserting, SingleKind, AliasKind, ModuleKind
  <2> QED
    BY <2>1, <2>2, <2>3 DEF Insert
<1>8. /\ DOMAIN more = DOMAIN decls \cup {l} /\ more[l] = Decl
      /\ \A i \in DOMAIN decls : more[i] = decls[i]
  BY <1>2, IsSeqAppend DEF IsDecls
<1>9. ASSUME NEW i \in DOMAIN more, more[i].kind \in ModuleKind
      PROVE  entries'[tables2["class_decls"][more[i].name]].kind = more[i].kind
  <2> HIDE DEF more, l
  <2>1. CASE i = l
    BY <1>7, <1>8, <1>9, <2>1
  <2>2. CASE i \in DOMAIN decls
    <3>1. more[i] = decls[i] /\ decls[i].kind \in ModuleKind
      BY <1>8, <1>9, <2>2
    <3>2. entries'[tables["class_decls"][decls[i].name]].kind = decls[i].kind
      BY <1>3, <2>2, <3>1 DEF IsTableOf
    <3>3. TableOf(decls[i].kind) = "class_decls"
      BY <3>1 DEF TableOf, ModuleKind, AliasKind
    <3>4. decls[i].name \in NamesIn(decls, "class_decls")
      BY <2>2, <3>3, NameIsSomewhere
    <3>5. decls[i].name \in DOMAIN tables["class_decls"]
      BY <1>2, <3>4 DEF IsTableOf, Table
    <3> QED
      BY <1>6, <3>1, <3>2, <3>5
  <2> QED
    BY <1>8, <1>9, <2>1, <2>2
<1> HIDE DEF more, tables2, decls, t
<1>10. IsTableOf(tables2, entries', more)
  BY <1>4, <1>5, <1>9 DEF IsTableOf
<1> QED
  BY <1>10 DEF more, tables2, decls

\* The tables are what was inserted, after every step.
LEMMA TableStep ==
  ASSUME TypeOK, LinkInv, BuildInv, RestInv, TableInv, [Next]_vars
  PROVE  TableInv'
<1>0. /\ raised \subseteq DOMAIN envs /\ "class_decls" \in Table
      /\ \A e \in DOMAIN envs : \A n \in DOMAIN Classes(e) : Classes(e)[n] \in DOMAIN entries
  BY DEF TypeOK, LinkInv, Table
<1>1. ASSUME \A e \in DOMAIN envs' \ raised' : IsTableOf(envs'[e].tables, entries', Inserted(e)')
      PROVE  TableInv'
  BY <1>1 DEF TableInv, IsTableOf, Classes

\* The tables of an environment to which nothing is inserted.
<1>2. ASSUME NEW e \in DOMAIN envs, e \notin raised, envs'[e].tables = envs[e].tables, Inserted(e)' = Inserted(e),
             \A n \in DOMAIN Classes(e) : entries'[Classes(e)[n]].kind = entries[Classes(e)[n]].kind
      PROVE  IsTableOf(envs'[e].tables, entries', Inserted(e)')
  BY <1>2, TablesStay
<1>3. ASSUME DOMAIN envs' = DOMAIN envs, \A e \in DOMAIN envs : envs'[e].tables = envs[e].tables,
             UNCHANGED entries, raised \subseteq raised',
             \A e \in DOMAIN envs \ raised' : Inserted(e)' = Inserted(e)
      PROVE  TableInv'
  <2>1. \A e \in DOMAIN envs' \ raised' : IsTableOf(envs'[e].tables, entries', Inserted(e)')
    BY <1>2, <1>3
  <2> QED
    BY <1>1, <2>1
<1>4. ASSUME NEW e, NEW source, Sourced(e, source)
      PROVE  TableInv'
  <2>1. /\ DOMAIN envs' = DOMAIN envs /\ UNCHANGED <<entries, raised>>
        /\ \A f \in DOMAIN envs : envs'[f].tables = envs[f].tables
    BY <1>4, SourceStep DEF Sourced
  <2>2. ~Insert /\ ~Raised
    <3>1. Idle \/ adding.decls = <<>>
      BY <1>4 DEF Sourced, AddSource, AddNextSource
    <3> QED
      BY <3>1 DEF Insert, InsertModule, OpenModule, InsertSingle, Inserting, Raised, Duplicated
  <2>3. \A f \in DOMAIN envs : Inserted(f)' = Inserted(f)
    BY <2>1, <2>2, RestStep
  <2> QED
    BY <1>3, <2>1, <2>3
<1>5. CASE FinishAdding
  <2>1. UNCHANGED <<envs, entries, raised>>
    BY <1>5 DEF FinishAdding
  <2>2. ~Insert /\ ~Raised
    BY <1>5 DEF FinishAdding, Insert, InsertModule, OpenModule, InsertSingle, Inserting, Raised, Duplicated
  <2> QED
    BY <1>3, <2>1, <2>2, RestStep
<1>6. CASE Insert
  <2> DEFINE a == adding.env
  <2>1. /\ a \in DOMAIN envs /\ DOMAIN envs' = DOMAIN envs /\ raised' = raised
        /\ \A f \in DOMAIN envs : f # a => envs'[f] = envs[f]
        /\ adding'.env = a
    BY <1>6, InsertStep
  <2>2. /\ Inserted(a)' = Append(Inserted(a), Decl)
        /\ \A e \in DOMAIN envs : e # a => Inserted(e)' = Inserted(e)
    BY <1>6, RestStep
  <2>3. ASSUME NEW e \in DOMAIN envs, e \notin raised
        PROVE  IsTableOf(envs'[e].tables, entries', Inserted(e)')
    <3>1. CASE e # a
      <4>1. \A n \in DOMAIN Classes(e) : entries'[Classes(e)[n]].kind = entries[Classes(e)[n]].kind
        BY <1>0, <1>6, KindsStay
      <4> QED
        BY <1>2, <2>1, <2>2, <2>3, <3>1, <4>1
    <3>2. CASE e = a
      <4>1. IsTableOf(envs'[a].tables, entries', Append(Inserted(a), Decl))
        BY <1>6, <2>3, <3>2, TableInsert
      <4>2. Inserted(e)' = Append(Inserted(a), Decl)
        BY <2>1, <2>2, <3>2 DEF Inserted
      <4> QED
        BY <3>2, <4>1, <4>2
    <3> QED
      BY <3>1, <3>2
  <2> QED
    BY <1>1, <2>1, <2>3
<1>7. CASE Raised
  <2>1. UNCHANGED <<envs, entries>> /\ raised' = raised \cup {adding.env}
    BY <1>7 DEF Raised, Duplicated
  <2> QED
    BY <1>3, <1>7, <2>1, RestStep
<1>8. CASE Lost
  <2>1. /\ ~Idle /\ DOMAIN envs' = DOMAIN envs \ {adding.env}
        /\ \A e \in DOMAIN envs' : envs'[e] = envs[e]
        /\ DOMAIN entries' = 1..adding.made
        /\ \A x \in DOMAIN entries' : entries'[x] = entries[x]
        /\ raised' = raised /\ adding.from # 0
    BY <1>8, LostStep DEF Lost
  <2>2. ~Insert /\ ~Raised
    BY <1>8 DEF Lost, Insert, InsertModule, OpenModule, InsertSingle, Inserting, Raised, Duplicated
  <2>3. \A e \in DOMAIN envs' : Inserted(e)' = Inserted(e)
    BY <2>1, <2>2, RestStep
  <2>4. \A e \in DOMAIN envs' : \A n \in DOMAIN Classes(e) : entries'[Classes(e)[n]] = entries[Classes(e)[n]]
    <3>1. \A x \in DOMAIN entries : x \in Nat /\ x >= 1
      BY IsSeqBasics DEF TypeOK
    <3>2. adding.made \in Nat
      BY <2>1, IsSeqBasics DEF BuildInv, TypeOK
    <3>3. \A e \in DOMAIN envs' : \A n \in DOMAIN Classes(e) : Classes(e)[n] <= adding.made
      BY <2>1 DEF BuildInv
    <3> QED
      BY <1>0, <2>1, <3>1, <3>2, <3>3
  <2>5. \A e \in DOMAIN envs' \ raised' : IsTableOf(envs'[e].tables, entries', Inserted(e)')
    BY <1>2, <2>1, <2>3, <2>4
  <2> QED
    BY <1>1, <2>5
<1>9. ASSUME NEW e \in DOMAIN envs, NEW meant, NEW sources, Rebuilt(e, meant, sources)
      PROVE  TableInv'
  <2>0. PICK n : n = Len(envs) + 1
    OBVIOUS
  <2>1. /\ Idle /\ n \notin DOMAIN envs /\ DOMAIN envs' = DOMAIN envs \cup {n}
        /\ \A f \in DOMAIN envs : envs'[f] = envs[f]
        /\ envs'[n].sources = <<>> /\ \A t \in Table : envs'[n].tables[t] = <<>>
        /\ adding' = [env |-> n, from |-> e, made |-> Len(entries), decls |-> <<>>, sources |-> sources]
        /\ UNCHANGED <<entries, raised>>
    BY <1>9, <2>0, RebuiltStep
  <2>2. ~Insert /\ ~Raised
    BY <2>1 DEF Insert, InsertModule, OpenModule, InsertSingle, Inserting, Raised, Duplicated
  <2>3. \A f \in DOMAIN envs : Inserted(f)' = Inserted(f)
    BY <2>1, <2>2, RestStep
  <2>4. Inserted(n)' = <<>>
    <3>1. AllDecls(n)' = <<>> /\ adding'.decls = <<>> /\ adding'.env = n
      BY <2>1, AllDeclsAre, NoDecls
    <3>2. Inserted(n)' = SubSeq(<<>>, 1, Len(<<>>) - Len(<<>>))
      BY <3>1 DEF Inserted
    <3>3. SubSeq(<<>>, 1, Len(<<>>) - Len(<<>>)) = <<>>
      OBVIOUS
    <3> QED
      BY <3>2, <3>3
  <2>5. IsTableOf(envs'[n].tables, entries', <<>>)
    <3>1. \A t \in Table : DOMAIN envs'[n].tables[t] = NamesIn(<<>>, t)
      BY <2>1, IsSeqEmpty DEF NamesIn
    <3> QED
      BY <3>1, IsSeqEmpty DEF IsTableOf, HasConflict
  <2>6. \A f \in DOMAIN envs' \ raised' : IsTableOf(envs'[f].tables, entries', Inserted(f)')
    BY <1>2, <2>1, <2>3, <2>4, <2>5
  <2> QED
    BY <1>1, <2>6
<1>10. ASSUME NEW e \in DOMAIN envs, Dup(e)
       PROVE  TableInv'
  <2>1. PICK n : /\ Idle /\ n \notin DOMAIN envs /\ DOMAIN envs' = DOMAIN envs \cup {n}
                 /\ \A f \in DOMAIN envs : envs'[f] = envs[f]
                 /\ envs'[n] = envs[e] /\ n # 0
                 /\ raised' = IF e \in raised THEN raised \cup {n} ELSE raised
                 /\ UNCHANGED <<entries, adding>>
    BY <1>10, DupStep
  <2>2. ~Insert /\ ~Raised
    BY <2>1 DEF Insert, InsertModule, OpenModule, InsertSingle, Inserting, Raised, Duplicated
  <2>3. \A f \in DOMAIN envs : Inserted(f)' = Inserted(f)
    BY <2>1, <2>2, RestStep
  <2>4. Inserted(n)' = Inserted(e)
    <3>1. n # adding.env
      BY <2>1 DEF Idle, Nothing
    <3>2. Inserted(n)' = AllDecls(n)'
      BY <2>1, <3>1 DEF Inserted
    <3>3. AllDecls(n)' = AllDecls(e)
      BY <2>1, AllDeclsAre
    <3> QED
      BY <2>1, <3>2, <3>3, InsertedAre
  <2>5. e \notin raised => IsTableOf(envs'[n].tables, entries', Inserted(n)')
    BY <2>1, <2>4, TablesStay
  <2>6. \A f \in DOMAIN envs' \ raised' : IsTableOf(envs'[f].tables, entries', Inserted(f)')
    BY <1>2, <2>1, <2>3, <2>5
  <2> QED
    BY <1>1, <2>6
<1>11. ASSUME NEW e \in DOMAIN envs, NEW name, NormalizeModuleName(e, name)
       PROVE  TableInv'
  <2>1. Idle /\ UNCHANGED <<envs, entries, adding, raised>>
    BY <1>11 DEF NormalizeModuleName
  <2>2. ~Insert /\ ~Raised
    BY <2>1 DEF Insert, InsertModule, OpenModule, InsertSingle, Inserting, Raised, Duplicated
  <2> QED
    BY <1>3, <2>1, <2>2, RestStep
<1>12. CASE UNCHANGED vars
  <2>1. UNCHANGED <<envs, entries, raised>> /\ \A e : Inserted(e)' = Inserted(e)
    BY <1>12 DEF vars, Inserted, AllDecls
  <2> QED
    BY <1>3, <2>1
<1> QED
  BY <1>4, <1>5, <1>6, <1>7, <1>8, <1>9, <1>10, <1>11, <1>12, NextSteps
-----------------------------------------------------------------------------
(* The order of the declarations of a class.                               *)

\* HasAlone and OrderInv, of any environments and entries.
IsAlone(all, e, x) ==
  \A f \in DOMAIN all \ {e} : \A n \in DOMAIN all[f].tables["class_decls"] :
    all[f].tables["class_decls"][n] # x

IsOrdered(all, objects, e, decls) ==
  \A n \in DOMAIN all[e].tables["class_decls"] :
    IsAlone(all, e, all[e].tables["class_decls"][n]) =>
      objects[all[e].tables["class_decls"][n]].decls = Openings(decls, n)

\* What OrderInv says, with the environments and the entries as parameters.
LEMMA OrderIs ==
  /\ OrderInv => \A e \in DOMAIN envs \ raised : IsOrdered(envs, entries, e, Inserted(e))
  /\ (\A e \in DOMAIN envs' \ raised' : IsOrdered(envs', entries', e, Inserted(e)')) => OrderInv'
  BY DEF OrderInv, HasAlone, Classes, IsAlone, IsOrdered

\* An entry that is alone among more environments is so among fewer.
LEMMA AloneBefore ==
  ASSUME NEW all, NEW more, NEW e, NEW x, IsAlone(more, e, x),
         \A f \in DOMAIN all \ {e} :
           /\ f \in DOMAIN more
           /\ \A n \in DOMAIN all[f].tables["class_decls"] :
                /\ n \in DOMAIN more[f].tables["class_decls"]
                /\ more[f].tables["class_decls"][n] = all[f].tables["class_decls"][n]
  PROVE  IsAlone(all, e, x)
  BY DEF IsAlone

\* Declarations of an environment that others are not inserted into.
LEMMA OrderOfOthers ==
  ASSUME TypeOK, LinkInv, OrderInv, Insert, NEW e \in DOMAIN envs \ raised, e # adding.env
  PROVE  IsOrdered(envs', entries', e, Inserted(e))
<1> DEFINE a == adding.env
<1>1. /\ a \in DOMAIN envs /\ DOMAIN envs' = DOMAIN envs
      /\ \A f \in DOMAIN envs : f # a => envs'[f] = envs[f]
  BY InsertStep
<1>2. IsOrdered(envs, entries, e, Inserted(e)) /\ envs'[e] = envs[e]
  BY <1>1, OrderIs
<1>3. ASSUME NEW x, IsAlone(envs', e, x)
      PROVE  IsAlone(envs, e, x)
  <2>1. \A f \in DOMAIN envs \ {e} : \A n \in DOMAIN envs[f].tables["class_decls"] :
          /\ n \in DOMAIN envs'[f].tables["class_decls"]
          /\ envs'[f].tables["class_decls"][n] = envs[f].tables["class_decls"][n]
    BY <1>1, ClassesStay
  <2> QED
    BY <1>1, <1>3, <2>1, AloneBefore
<1>4. ASSUME NEW x \in DOMAIN entries, IsAlone(envs, e, x)
      PROVE  entries'[x].decls = entries[x].decls
  <2>1. CASE InsertModule
    <3> DEFINE new == [kind |-> Decl.kind, decls |-> <<Decl>>]
    <3>1. IsSeq(entries) /\ entries' = Append(entries, new)
      BY <2>1, InsertModuleStep DEF TypeOK
    <3> HIDE DEF new
    <3>2. entries'[x] = entries[x]
      BY <1>4, <3>1, IsSeqAppend
    <3> QED
      BY <3>2
  <2>2. CASE OpenModule
    <3>1. Decl.name \in DOMAIN Classes(a) /\ \A y \in DOMAIN entries : y # Classes(a)[Decl.name] => entries'[y] = entries[y]
      BY <2>2, OpenModuleStep
    <3>2. x # Classes(a)[Decl.name]
      BY <1>1, <1>4, <3>1 DEF IsAlone, Classes
    <3> QED
      BY <3>1, <3>2
  <2>3. CASE InsertSingle
    BY <2>3 DEF InsertSingle
  <2> QED
    BY <2>1, <2>2, <2>3 DEF Insert
<1>5. \A n \in DOMAIN envs[e].tables["class_decls"] : envs[e].tables["class_decls"][n] \in DOMAIN entries
  BY DEF LinkInv, Classes
<1> QED
  BY <1>2, <1>3, <1>4, <1>5 DEF IsOrdered

\* Declarations of the environment they are inserted into.
LEMMA OrderInsert ==
  ASSUME TypeOK, LinkInv, RestInv, TableInv, OrderInv, Insert, adding.env \notin raised
  PROVE  IsOrdered(envs', entries', adding.env, Append(Inserted(adding.env), Decl))
<1> DEFINE a == adding.env
           decls == Inserted(a)
           more == Append(decls, Decl)
           classes == envs[a].tables["class_decls"]
           classes2 == envs'[a].tables["class_decls"]
<1>1. /\ a \in DOMAIN envs /\ DOMAIN envs' = DOMAIN envs /\ adding'.env = a
      /\ \A f \in DOMAIN envs : f # a => envs'[f] = envs[f]
  BY InsertStep
<1>2. IsDecls(decls) /\ IsOrdered(envs, entries, a, decls)
  BY <1>1, InsertedAre, OrderIs
<1>3. \A n \in DOMAIN classes : n \in DOMAIN classes2 /\ classes2[n] = classes[n] /\ classes[n] \in DOMAIN entries
  BY <1>1, ClassesStay DEF LinkInv, Classes
<1>4. \A x : IsAlone(envs', a, x) => IsAlone(envs, a, x)
  BY <1>1, AloneBefore
<1>5. \A n : Openings(more, n) =
        IF Decl.name = n /\ Decl.kind \in ModuleKind THEN Append(Openings(decls, n), Decl) ELSE Openings(decls, n)
  <2> HIDE DEF decls
  <2> QED
    BY <1>2, OpeningsAppend

\* A class whose entry stays as it is, and that the declaration does not open.
<1>6. ASSUME NEW n \in DOMAIN classes, entries'[classes[n]].decls = entries[classes[n]].decls,
             Decl.name # n \/ Decl.kind \notin ModuleKind, IsAlone(envs', a, classes2[n])
      PROVE  entries'[classes2[n]].decls = Openings(more, n)
  <2>1. Openings(more, n) = Openings(decls, n)
    BY <1>5, <1>6
  <2>2. entries[classes[n]].decls = Openings(decls, n)
    BY <1>2, <1>3, <1>4, <1>6 DEF IsOrdered
  <2> HIDE DEF more, decls, classes, classes2
  <2> QED
    BY <1>3, <1>6, <2>1, <2>2
<1>7. ASSUME NEW n \in DOMAIN classes2, IsAlone(envs', a, classes2[n])
      PROVE  entries'[classes2[n]].decls = Openings(more, n)
  <2>1. CASE InsertModule
    <3>1. /\ DOMAIN classes2 = DOMAIN classes \cup {Decl.name} /\ Decl.name \notin DOMAIN classes
          /\ classes2[Decl.name] = Len(entries) + 1 /\ Decl.kind \in ModuleKind
          /\ entries' = Append(entries, [kind |-> Decl.kind, decls |-> <<Decl>>])
      BY <1>1, <2>1, InsertModuleStep DEF Classes, Tables
    <3>2. /\ entries'[Len(entries) + 1] = [kind |-> Decl.kind, decls |-> <<Decl>>]
          /\ \A x \in DOMAIN entries : entries'[x] = entries[x]
      <4> DEFINE new == [kind |-> Decl.kind, decls |-> <<Decl>>]
      <4>1. IsSeq(entries)
        BY DEF TypeOK
      <4>2. entries' = Append(entries, new)
        BY <3>1
      <4> HIDE DEF new
      <4>3. entries'[Len(entries) + 1] = new /\ \A x \in DOMAIN entries : entries'[x] = entries[x]
        BY <4>1, <4>2, IsSeqAppend
      <4> QED
        BY <4>3 DEF new
    <3>3. CASE n = Decl.name
      <4>1. n \notin NamesIn(decls, "class_decls")
        BY <1>1, <3>1, <3>3 DEF TableInv, Table
      <4>2. Openings(decls, n) = <<>>
        <5> HIDE DEF decls
        <5> QED
          BY <1>2, <4>1, NoOpenings
      <4>3. Openings(more, n) = Append(<<>>, Decl)
        <5>1. Openings(more, n) = Append(Openings(decls, n), Decl)
          <6>1. Decl.name = n /\ Decl.kind \in ModuleKind
            BY <3>1, <3>3
          <6> HIDE DEF decls, more, classes2
          <6> QED
            BY <1>5, <6>1
        <5> HIDE DEF decls, more
        <5> QED
          BY <4>2, <5>1
      <4>4. entries'[classes2[n]].decls = <<Decl>>
        <5>1. classes2[n] = Len(entries) + 1
          <6> HIDE DEF decls, more, classes, classes2
          <6> QED
            BY <3>1, <3>3
        <5>2. entries'[Len(entries) + 1].decls = <<Decl>>
          <6> DEFINE new == [kind |-> Decl.kind, decls |-> <<Decl>>]
          <6>1. entries'[Len(entries) + 1] = new
            BY <3>2
          <6>2. new.decls = <<Decl>>
            OBVIOUS
          <6> HIDE DEF new, decls, more, classes, classes2
          <6> QED
            BY <6>1, <6>2
        <5> HIDE DEF decls, more, classes, classes2
        <5> QED
          BY <5>1, <5>2
      <4>5. Append(<<>>, Decl) = <<Decl>>
        OBVIOUS
      <4> QED
        BY <4>3, <4>4, <4>5
    <3>4. CASE n # Decl.name
      BY <1>3, <1>6, <1>7, <3>1, <3>2, <3>4
    <3> QED
      BY <3>3, <3>4
  <2>2. CASE OpenModule
    <3>1. /\ Decl.kind \in ModuleKind /\ Decl.name \in DOMAIN classes /\ classes2 = classes
          /\ entries'[classes[Decl.name]].decls = Append(entries[classes[Decl.name]].decls, Decl)
          /\ \A x \in DOMAIN entries : x # classes[Decl.name] => entries'[x] = entries[x]
      BY <2>2, OpenModuleStep DEF Classes
    <3>2. CASE n = Decl.name
      <4>1. entries[classes[n]].decls = Openings(decls, n)
        BY <1>2, <1>4, <1>7, <3>1, <3>2 DEF IsOrdered
      <4>2. Openings(more, n) = Append(Openings(decls, n), Decl)
        BY <1>5, <3>1, <3>2
      <4> HIDE DEF more, decls, classes, classes2
      <4> QED
        BY <3>1, <3>2, <4>1, <4>2
    <3>3. CASE n # Decl.name
      <4>1. classes[n] # classes[Decl.name]
        BY <1>1, <1>7, <3>1, <3>3 DEF LinkInv, Classes
      <4> QED
        BY <1>3, <1>6, <1>7, <3>1, <3>3, <4>1
    <3> QED
      BY <3>2, <3>3
  <2>3. CASE InsertSingle
    BY <1>6, <1>7, <2>3, InsertSingleStep
  <2> QED
    BY <2>1, <2>2, <2>3 DEF Insert
<1> QED
  BY <1>7 DEF IsOrdered

\* The declarations of a class stay in their order.
LEMMA OrderStep ==
  ASSUME TypeOK, LinkInv, BuildInv, RestInv, TableInv, OrderInv, [Next]_vars
  PROVE  OrderInv'
<1>0. /\ \A e \in DOMAIN envs \ raised : IsOrdered(envs, entries, e, Inserted(e))
      /\ \A e \in DOMAIN envs : \A n \in DOMAIN Classes(e) : Classes(e)[n] \in DOMAIN entries
  BY OrderIs DEF LinkInv
<1>1. ASSUME \A e \in DOMAIN envs' \ raised' : IsOrdered(envs', entries', e, Inserted(e)')
      PROVE  OrderInv'
  BY <1>1, OrderIs

\* Environments that stay, with their tables and the entries.
<1>2. ASSUME \A f \in DOMAIN envs : f \in DOMAIN envs' /\ envs'[f].tables = envs[f].tables,
             UNCHANGED entries, NEW e \in DOMAIN envs \ raised, Inserted(e)' = Inserted(e)
      PROVE  IsOrdered(envs', entries', e, Inserted(e)')
  <2>1. \A x : IsAlone(envs', e, x) => IsAlone(envs, e, x)
    BY <1>2, AloneBefore
  <2> QED
    BY <1>0, <1>2, <2>1 DEF IsOrdered
<1>3. ASSUME DOMAIN envs' = DOMAIN envs, \A f \in DOMAIN envs : envs'[f].tables = envs[f].tables,
             UNCHANGED entries, raised \subseteq raised',
             \A e \in DOMAIN envs \ raised' : Inserted(e)' = Inserted(e)
      PROVE  OrderInv'
  <2>1. \A e \in DOMAIN envs' \ raised' : IsOrdered(envs', entries', e, Inserted(e)')
    BY <1>2, <1>3
  <2> QED
    BY <1>1, <2>1
<1>4. ASSUME NEW e, NEW source, Sourced(e, source)
      PROVE  OrderInv'
  <2>1. /\ DOMAIN envs' = DOMAIN envs /\ UNCHANGED <<entries, raised>>
        /\ \A f \in DOMAIN envs : envs'[f].tables = envs[f].tables
    BY <1>4, SourceStep DEF Sourced
  <2>2. ~Insert /\ ~Raised
    <3>1. Idle \/ adding.decls = <<>>
      BY <1>4 DEF Sourced, AddSource, AddNextSource
    <3> QED
      BY <3>1 DEF Insert, InsertModule, OpenModule, InsertSingle, Inserting, Raised, Duplicated
  <2>3. \A f \in DOMAIN envs : Inserted(f)' = Inserted(f)
    BY <2>1, <2>2, RestStep
  <2> QED
    BY <1>3, <2>1, <2>3
<1>5. CASE FinishAdding
  <2>1. UNCHANGED <<envs, entries, raised>>
    BY <1>5 DEF FinishAdding
  <2>2. ~Insert /\ ~Raised
    BY <1>5 DEF FinishAdding, Insert, InsertModule, OpenModule, InsertSingle, Inserting, Raised, Duplicated
  <2> QED
    BY <1>3, <2>1, <2>2, RestStep
<1>6. CASE Insert
  <2> DEFINE a == adding.env
  <2>1. a \in DOMAIN envs /\ DOMAIN envs' = DOMAIN envs /\ raised' = raised
    BY <1>6, InsertStep
  <2>2. /\ Inserted(a)' = Append(Inserted(a), Decl)
        /\ \A e \in DOMAIN envs : e # a => Inserted(e)' = Inserted(e)
    BY <1>6, RestStep
  <2>3. ASSUME NEW e \in DOMAIN envs \ raised
        PROVE  IsOrdered(envs', entries', e, Inserted(e)')
    <3>1. CASE e # a
      BY <1>6, <2>2, <3>1, OrderOfOthers
    <3>2. CASE e = a
      <4>1. IsOrdered(envs', entries', a, Append(Inserted(a), Decl))
        BY <1>6, <3>2, OrderInsert
      <4>2. Inserted(e)' = Append(Inserted(a), Decl)
        <5>1. adding'.env = a
          BY <1>6, InsertStep
        <5> QED
          BY <2>2, <3>2, <5>1 DEF Inserted
      <4> QED
        BY <3>2, <4>1, <4>2
    <3> QED
      BY <3>1, <3>2
  <2> QED
    BY <1>1, <2>1, <2>3
<1>7. CASE Raised
  <2>1. UNCHANGED <<envs, entries>> /\ raised' = raised \cup {adding.env}
    BY <1>7 DEF Raised, Duplicated
  <2> QED
    BY <1>3, <1>7, <2>1, RestStep
<1>8. CASE Lost
  <2> DEFINE a == adding.env
  <2>1. /\ a \in DOMAIN envs /\ DOMAIN envs' = DOMAIN envs \ {a}
        /\ \A e \in DOMAIN envs' : envs'[e] = envs[e]
        /\ DOMAIN entries' = 1..adding.made
        /\ \A x \in DOMAIN entries' : entries'[x] = entries[x]
        /\ raised' = raised /\ adding.from # 0
    BY <1>8, LostStep DEF Lost
  <2>2. ~Insert /\ ~Raised
    BY <1>8 DEF Lost, Insert, InsertModule, OpenModule, InsertSingle, Inserting, Raised, Duplicated
  <2>3. \A e \in DOMAIN envs' : Inserted(e)' = Inserted(e)
    BY <2>1, <2>2, RestStep
  <2>4. /\ \A x \in DOMAIN entries : x \in Nat /\ x >= 1
        /\ adding.made \in Nat
        /\ \A e \in DOMAIN envs' : \A n \in DOMAIN Classes(e) : Classes(e)[n] <= adding.made
        /\ \A n \in DOMAIN Classes(a) : Classes(a)[n] > adding.made
    BY <2>1, IsSeqBasics DEF BuildInv, TypeOK
  <2>5. ASSUME NEW e \in DOMAIN envs' \ raised'
        PROVE  IsOrdered(envs', entries', e, Inserted(e)')
    <3>1. ASSUME NEW n \in DOMAIN envs[e].tables["class_decls"]
          PROVE  LET x == envs[e].tables["class_decls"][n]
                 IN  entries'[x] = entries[x] /\ (IsAlone(envs', e, x) => IsAlone(envs, e, x))
      <4> DEFINE x == envs[e].tables["class_decls"][n]
      <4>1. x \in Nat /\ 1 <= x /\ x <= adding.made
        BY <1>0, <2>1, <2>4 DEF Classes
      <4>2. x \in DOMAIN entries'
        BY <2>1, <2>4, <4>1
      <4>3. \A m \in DOMAIN envs[a].tables["class_decls"] : envs[a].tables["class_decls"][m] # x
        <5>1. \A m \in DOMAIN Classes(a) : Classes(a)[m] \in Nat /\ Classes(a)[m] > adding.made
          BY <1>0, <2>1, <2>4
        <5> QED
          BY <2>4, <4>1, <5>1 DEF Classes
      <4> HIDE DEF x
      <4>4. IsAlone(envs', e, x) => IsAlone(envs, e, x)
        BY <2>1, <4>3 DEF IsAlone
      <4> QED
        BY <2>1, <4>2, <4>4 DEF x
    <3>2. IsOrdered(envs, entries, e, Inserted(e)) /\ envs'[e] = envs[e] /\ Inserted(e)' = Inserted(e)
      BY <1>0, <2>1, <2>3
    <3> QED
      BY <3>1, <3>2 DEF IsOrdered
  <2> QED
    BY <1>1, <2>5
<1>9. ASSUME NEW e \in DOMAIN envs, NEW meant, NEW sources, Rebuilt(e, meant, sources)
      PROVE  OrderInv'
  <2>1. PICK n : /\ Idle /\ DOMAIN envs' = DOMAIN envs \cup {n}
                 /\ \A f \in DOMAIN envs : envs'[f] = envs[f]
                 /\ \A t \in Table : envs'[n].tables[t] = <<>>
                 /\ UNCHANGED <<entries, raised>>
    BY <1>9, RebuiltStep
  <2>2. ~Insert /\ ~Raised
    BY <2>1 DEF Insert, InsertModule, OpenModule, InsertSingle, Inserting, Raised, Duplicated
  <2>3. \A f \in DOMAIN envs : Inserted(f)' = Inserted(f)
    BY <2>1, <2>2, RestStep
  <2>4. DOMAIN envs'[n].tables["class_decls"] = {}
    BY <2>1, IsSeqEmpty DEF Table
  <2>5. IsOrdered(envs', entries', n, Inserted(n)')
    BY <2>4 DEF IsOrdered
  <2>6. \A f \in DOMAIN envs' \ raised' : IsOrdered(envs', entries', f, Inserted(f)')
    BY <1>2, <2>1, <2>3, <2>5
  <2> QED
    BY <1>1, <2>6
<1>10. ASSUME NEW e \in DOMAIN envs, Dup(e)
       PROVE  OrderInv'
  <2>1. PICK n : /\ Idle /\ n \notin DOMAIN envs /\ DOMAIN envs' = DOMAIN envs \cup {n}
                 /\ \A f \in DOMAIN envs : envs'[f] = envs[f]
                 /\ envs'[n] = envs[e]
                 /\ raised' = IF e \in raised THEN raised \cup {n} ELSE raised
                 /\ UNCHANGED entries
    BY <1>10, DupStep
  <2>2. ~Insert /\ ~Raised
    BY <2>1 DEF Insert, InsertModule, OpenModule, InsertSingle, Inserting, Raised, Duplicated
  <2>3. \A f \in DOMAIN envs : Inserted(f)' = Inserted(f)
    BY <2>1, <2>2, RestStep
  <2>4. IsOrdered(envs', entries', n, Inserted(n)')
    <3>1. \A m \in DOMAIN envs'[n].tables["class_decls"] :
            ~IsAlone(envs', n, envs'[n].tables["class_decls"][m])
      BY <2>1 DEF IsAlone
    <3> QED
      BY <3>1 DEF IsOrdered
  <2>5. \A f \in DOMAIN envs' \ raised' : IsOrdered(envs', entries', f, Inserted(f)')
    BY <1>2, <2>1, <2>3, <2>4
  <2> QED
    BY <1>1, <2>5
<1>11. ASSUME NEW e \in DOMAIN envs, NEW name, NormalizeModuleName(e, name)
       PROVE  OrderInv'
  <2>1. Idle /\ UNCHANGED <<envs, entries, adding, raised>>
    BY <1>11 DEF NormalizeModuleName
  <2>2. ~Insert /\ ~Raised
    BY <2>1 DEF Insert, InsertModule, OpenModule, InsertSingle, Inserting, Raised, Duplicated
  <2> QED
    BY <1>3, <2>1, <2>2, RestStep
<1>12. CASE UNCHANGED vars
  <2>1. UNCHANGED <<envs, entries, raised>> /\ \A e : Inserted(e)' = Inserted(e)
    BY <1>12 DEF vars, Inserted, AllDecls
  <2> QED
    BY <1>3, <2>1
<1> QED
  BY <1>4, <1>5, <1>6, <1>7, <1>8, <1>9, <1>10, <1>11, <1>12, NextSteps

-----------------------------------------------------------------------------
(* The theorems.                                                           *)

\* The invariant that all the sources added and all that became of them keep.
THEOREM EnvironmentInvariance == Spec => []IInv
<1>1. Init => IInv
  BY InitHolds
<1>2. IInv /\ [Next]_vars => IInv'
  <2> SUFFICES ASSUME IInv, [Next]_vars
               PROVE  IInv'
    OBVIOUS
  <2>1. TypeOK /\ LinkInv /\ BuildInv /\ OriginInv /\ RestInv /\ RaisedInv /\ TableInv /\ OrderInv
    BY DEF IInv
  <2>2. TypeOK' /\ LinkInv' /\ BuildInv'
    BY <2>1, TypeStep, LinkStep, BuildStep
  <2>3. RestInv' /\ OriginInv' /\ RaisedInv'
    BY <2>1, RestStep, OriginStep, RaisedStep
  <2>4. TableInv' /\ OrderInv'
    BY <2>1, TableStep, OrderStep
  <2> QED
    BY <2>2, <2>3, <2>4 DEF IInv
<1> QED
  BY <1>1, <1>2, PTL DEF Spec

\* Adding sources raised exactly if two declarations of them conflict
\* (insert_rbs_decl, insert_ruby_decl), and rebuilding an environment (unload,
\* resolve_type_names) raises only for one that raised itself: for any sources, in any
\* number of environments, and whatever the resolver makes of names.
THEOREM RaisesIffConflictAlways == Spec => []RaisesIffConflict
<1>1. IInv => RaisesIffConflict
  <2> SUFFICES ASSUME IInv
               PROVE  RaisesIffConflict
    OBVIOUS
  <2>1. \A e \in Settled : e \in DOMAIN envs /\ Inserted(e) = AllDecls(e)
    BY InsertedAre DEF IInv, Settled
  <2>2. \A e \in DOMAIN envs \ raised : ~HasConflict(Inserted(e))
    BY DEF IInv, TableInv
  <2>3. failed \subseteq raised /\ \A e \in raised : HasConflict(AllDecls(e))
    BY DEF IInv, RaisedInv
  <2> QED
    BY <2>1, <2>2, <2>3 DEF RaisesIffConflict
<1> QED
  BY <1>1, EnvironmentInvariance, PTL

\* The tables of an environment that did not raise have the names its sources declare,
\* each in the one table of its kind, and a class that only this environment has its
\* declarations in the order of the sources (insert_rbs_decl, insert_ruby_decl,
\* ClassEntry#<<), also after unload, resolve_type_names and copies.
THEOREM TablesAreSourcesAlways == Spec => []TablesAreSources
<1>1. IInv => TablesAreSources
  <2> SUFFICES ASSUME IInv, NEW e \in Settled \ raised
               PROVE  LET decls == AllDecls(e)
                          classes == envs[e].tables["class_decls"]
                      IN  /\ \A t \in Table : DOMAIN envs[e].tables[t] =
                               {decls[i].name : i \in {j \in DOMAIN decls : TableOf(decls[j].kind) = t}}
                          /\ \A n \in DOMAIN classes : HasAlone(e, classes[n]) =>
                               entries[classes[n]].decls = Openings(decls, n)
    BY DEF TablesAreSources
  <2>1. e \in DOMAIN envs /\ Inserted(e) = AllDecls(e)
    BY InsertedAre DEF IInv, Settled
  <2>2. \A t \in Table : DOMAIN envs[e].tables[t] = NamesIn(AllDecls(e), t)
    BY <2>1 DEF IInv, TableInv
  <2>3. \A n \in DOMAIN Classes(e) :
          HasAlone(e, Classes(e)[n]) => entries[Classes(e)[n]].decls = Openings(AllDecls(e), n)
    BY <2>1 DEF IInv, OrderInv
  <2> QED
    BY <2>2, <2>3 DEF NamesIn, Classes
<1> QED
  BY <1>1, EnvironmentInvariance, PTL
=============================================================================
