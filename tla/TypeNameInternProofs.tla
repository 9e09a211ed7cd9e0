------------------------- MODULE TypeNameInternProofs -------------------------
(***************************************************************************)
(* Proofs about TypeNameIntern, for any threads, requests and interrupts.  *)
(* Two things make a returned object canonical.  What a mutex's holder has *)
(* read stays true until it writes, because nobody else writes (ThreadInv  *)
(* with MutexInv); and a write adds to what is there, so that nothing that *)
(* was read without the mutex is ever replaced (LeafInv, CacheInv).        *)
(***************************************************************************)
EXTENDS TypeNameIntern, SequenceTheorems, TLAPS

-----------------------------------------------------------------------------
(* The inductive invariant.                                                *)

\* Where a thread holds a mutex, and where it has its Namespace.
NsPc == {"nsInsert", "nsNode", "nsLeaf"}
TnPc == {"tnOuter", "tnTable", "tnInner", "tnNew", "tnUnlock"}
HasNs == {"outer", "inner", "tnLock"} \cup TnPc

MutexInv ==
  \A t \in Thread : (pc[t] \in NsPc => nsMutex = t) /\ (pc[t] \in TnPc => tnMutex = t)

\* The node i steps down the path of the node k.
Up(k, i) == [path |-> SubSeq(k.path, 1, i), absolute |-> k.absolute]

\* A root, or a node that was made.
IsNode(k) == Len(k.path) = 0 \/ k \in nodes

\* The trie is a tree, and leaves are leaves of its nodes.
TrieInv ==
  /\ \A k \in nodes : \A i \in 1..Len(k.path) : Up(k, i) \in nodes
  /\ \A k \in NsKey : leaf[k] # NIL => IsNode(k)

\* Leaves and Namespace objects are in bijection.
LeafInv ==
  /\ \A k \in NsKey : leaf[k] # NIL => leaf[k] \in DOMAIN namespaces /\ namespaces[leaf[k]] = k
  /\ \A o \in DOMAIN namespaces : leaf[namespaces[o]] = o

\* A TypeName is cached under what it was made of.
CacheInv ==
  \A o \in DOMAIN cache : \A n \in Name : cache[o][n] # NIL =>
    cache[o][n] \in DOMAIN typeNames /\ typeNames[cache[o][n]] = [ns |-> o, name |-> n]

\* What was returned for a key is cached for it.
GotInv ==
  \A k \in Key : \A o \in got[k] :
    leaf[NsOf(k)] \in DOMAIN cache /\ cache[leaf[NsOf(k)]][k.name] = o /\ o # NIL

\* What a thread knows of the caches where it is.
ThreadInv(t) ==
  /\ pc[t] = "idle" => depth[t] = 0
  /\ pc[t] \in {"walk"} \cup NsPc => depth[t] <= Len(key[t].path)
  /\ pc[t] \in {"nsInsert", "nsNode"} => \A i \in 1..depth[t] : Node(t, i) \in nodes
  /\ pc[t] = "nsNode" => depth[t] < Len(key[t].path) /\ Node(t, depth[t] + 1) \notin nodes
  /\ pc[t] = "nsLeaf" => leaf[NsOf(key[t])] = NIL /\ IsNode(NsOf(key[t]))
  /\ pc[t] \in HasNs => ns[t] # NIL /\ ns[t] = leaf[NsOf(key[t])]
  /\ pc[t] \in {"inner", "tnInner", "tnNew", "tnUnlock"} => ns[t] \in DOMAIN cache
  /\ pc[t] = "tnTable" => ns[t] \notin DOMAIN cache
  /\ pc[t] = "tnNew" => cache[ns[t]][key[t].name] = NIL
  /\ pc[t] = "tnUnlock" => cache[ns[t]][key[t].name] # NIL

IInv ==
  /\ TypeOK
  /\ MutexInv
  /\ TrieInv
  /\ LeafInv
  /\ CacheInv
  /\ GotInv
  /\ \A t \in Thread : ThreadInv(t)

-----------------------------------------------------------------------------
(* Paths.                                                                  *)

\* A prefix of a prefix is a prefix.
LEMMA PrefixOfPrefix ==
  ASSUME NEW p \in Seq(Symbol), NEW d \in 0..Len(p), NEW i \in 0..d
  PROVE  /\ SubSeq(p, 1, d) \in Seq(Symbol) /\ Len(SubSeq(p, 1, d)) = d
         /\ SubSeq(SubSeq(p, 1, d), 1, i) = SubSeq(p, 1, i)
<1>1. d \in Nat /\ i \in Nat /\ i <= d /\ d <= Len(p) /\ Len(p) \in Nat
  OBVIOUS
<1>2. \A n \in 0..Len(p) :
        /\ SubSeq(p, 1, n) \in Seq(Symbol) /\ Len(SubSeq(p, 1, n)) = n
        /\ \A j \in 1..n : SubSeq(p, 1, n)[j] = p[j]
  OBVIOUS
<1> DEFINE q == SubSeq(p, 1, d)
<1>3. q \in Seq(Symbol) /\ Len(q) = d /\ \A j \in 1..d : q[j] = p[j]
  BY <1>1, <1>2
<1> HIDE DEF q
<1>4. /\ SubSeq(q, 1, i) \in Seq(Symbol) /\ Len(SubSeq(q, 1, i)) = i
      /\ \A j \in 1..i : SubSeq(q, 1, i)[j] = q[j]
  BY <1>1, <1>3
<1>5. SubSeq(q, 1, i) = SubSeq(p, 1, i)
  BY <1>1, <1>2, <1>3, <1>4, SeqEqual
<1> QED
  BY <1>3, <1>5 DEF q

\* The parts of a request.
LEMMA KeyParts ==
  ASSUME NEW k \in Key
  PROVE  /\ k.path \in Path /\ k.path \in Seq(Symbol) /\ k.absolute \in Flag /\ k.name \in Name
         /\ NsOf(k) \in NsKey /\ NsOf(k).path = k.path /\ NsOf(k).absolute = k.absolute
  BY KeyAssumption, PathAssumption DEF NsOf, NsKey

\* The nodes on the way of a thread, down to the one of its namespace.
LEMMA NodesOnTheWay ==
  ASSUME TypeOK, NEW t \in Thread, NEW d \in 0..Len(key[t].path)
  PROVE  /\ Node(t, d) \in NsKey
         /\ Len(Node(t, d).path) = d
         /\ Node(t, d).absolute = key[t].absolute
         /\ \A i \in 1..d : Up(Node(t, d), i) = Node(t, i)
         /\ Node(t, Len(key[t].path)) = NsOf(key[t])
<1>1. key[t] \in Key
  BY DEF TypeOK
<1>2. /\ key[t].path \in Path /\ key[t].path \in Seq(Symbol) /\ key[t].absolute \in Flag
  BY <1>1, KeyParts
<1>3. SubSeq(key[t].path, 1, d) \in Path
  BY <1>2, PathAssumption
<1>4. Len(SubSeq(key[t].path, 1, d)) = d
  BY <1>2, PrefixOfPrefix
<1>5. ASSUME NEW i \in 1..d
      PROVE  SubSeq(SubSeq(key[t].path, 1, d), 1, i) = SubSeq(key[t].path, 1, i)
  BY <1>2, PrefixOfPrefix
<1>6. SubSeq(key[t].path, 1, Len(key[t].path)) = key[t].path
  BY <1>2
<1> QED
  BY <1>2, <1>3, <1>4, <1>5, <1>6 DEF Node, NsKey, NsOf, Up

\* Below a node that is not there is nothing.
LEMMA NothingWithin ==
  ASSUME TypeOK, TrieInv, NEW n \in NsKey, n \notin nodes, Len(n.path) > 0,
         NEW k \in NsKey, Within(k, n)
  PROVE  k \notin nodes /\ leaf[k] = NIL
<1>1. n = [path |-> n.path, absolute |-> n.absolute] /\ k.path \in Seq(Symbol) /\ n.path \in Seq(Symbol)
  BY PathAssumption DEF NsKey
<1>2. Len(n.path) \in 1..Len(k.path) /\ Up(k, Len(n.path)) = n
  BY <1>1 DEF Within, Up
<1>3. k \notin nodes
  BY <1>2 DEF TrieInv
<1>4. Len(k.path) # 0
  BY <1>1, <1>2
<1> QED
  BY <1>3, <1>4 DEF TrieInv, IsNode

-----------------------------------------------------------------------------
(* Types.                                                                  *)

\* A step of TypeName.[] that the thread t takes, or its interruption.
StepOf(t) == (\E k \in Key : Call(t, k)) \/ Step(t) \/ Interrupt(t)

\* What a step starts from.
LEMMA StepTypes ==
  ASSUME TypeOK, NEW t \in Thread
  PROVE  /\ key[t] \in Key /\ key[t].path \in Seq(Symbol) /\ key[t].name \in Name
         /\ NsOf(key[t]) \in NsKey /\ leaf[NsOf(key[t])] \in Nat
         /\ NsOf(key[t]).path = key[t].path
         /\ depth[t] \in Nat /\ Len(key[t].path) \in Nat /\ ns[t] \in Nat
         /\ NoKey \in Key
<1>1. key[t] \in Key /\ NoKey \in Key
  BY KeyAssumption DEF TypeOK, NoKey
<1>2. key[t].path \in Seq(Symbol) /\ key[t].name \in Name /\ NsOf(key[t]) \in NsKey
      /\ NsOf(key[t]).path = key[t].path
  BY <1>1, KeyParts
<1>3. leaf[NsOf(key[t])] \in Nat
  BY <1>2 DEF TypeOK
<1>4. depth[t] \in Nat /\ ns[t] \in Nat
  BY DEF TypeOK
<1> QED
  BY <1>1, <1>2, <1>3, <1>4

\* Every step keeps the types.
LEMMA TypesKept ==
  ASSUME TypeOK, LeafInv, NEW t \in Thread, ThreadInv(t), StepOf(t)
  PROVE  TypeOK'
<1>1. CASE \E k \in Key : Call(t, k)
  BY <1>1 DEF Call, TypeOK, Goto
<1>2. CASE Descend(t) \/ KeepNode(t)
  <2>1. depth[t] + 1 \in Nat
    BY StepTypes
  <2>2. depth' = [depth EXCEPT ![t] = depth[t] + 1]
    BY <1>2 DEF Descend, KeepNode
  <2>3. depth' \in [Thread -> Nat]
    BY <2>1, <2>2 DEF TypeOK
  <2> QED
    BY <1>2, <2>3 DEF Descend, KeepNode, TypeOK
<1>3. CASE MissNamespace(t) \/ MissNode(t) \/ MissLeaf(t)
  BY <1>3 DEF MissNamespace, MissNode, MissLeaf, TypeOK, Goto
<1>4. CASE HitNamespace(t) \/ KeepLeaf(t)
  <2>1. ns' \in [Thread -> Nat]
    BY <1>4, StepTypes DEF HitNamespace, KeepLeaf, TypeOK
  <2> QED
    BY <1>4, <2>1 DEF HitNamespace, KeepLeaf, TypeOK, Goto
<1>5. CASE LockNamespace(t)
  BY <1>5 DEF LockNamespace, TypeOK, Goto
<1>6. CASE LockTypeName(t)
  BY <1>6 DEF LockTypeName, TypeOK, Goto
<1>7. CASE NewNode(t)
  <2>1. depth[t] + 1 \in 0..Len(key[t].path)
    BY <1>7, StepTypes DEF NewNode, ThreadInv
  <2>2. Node(t, depth[t] + 1) \in NsKey
    BY <2>1, NodesOnTheWay
  <2>3. nodes' \subseteq NsKey
    BY <1>7, <2>2 DEF NewNode, TypeOK
  <2>4. leaf' \in [NsKey -> Nat]
    BY <1>7 DEF NewNode, TypeOK, NIL
  <2>5. depth' \in [Thread -> Nat] /\ pc' = [pc EXCEPT ![t] = "nsInsert"]
    BY <1>7 DEF NewNode, TypeOK, Goto
  <2> QED
    BY <1>7, <2>3, <2>4, <2>5 DEF NewNode, TypeOK
<1>8. CASE NewLeaf(t)
  <2>1. namespaces' \in Seq(NsKey) /\ DOMAIN namespaces \subseteq DOMAIN namespaces'
    BY <1>8, StepTypes DEF NewLeaf, TypeOK
  <2>2. Len(namespaces) + 1 \in Nat
    BY DEF TypeOK
  <2>3. leaf' \in [NsKey -> Nat] /\ ns' \in [Thread -> Nat]
    BY <1>8, <2>2 DEF NewLeaf, TypeOK
  <2> QED
    BY <1>8, <2>1, <2>3 DEF NewLeaf, TypeOK, Goto
<1>9. CASE ReadOuter(t) \/ MissTypeName(t) \/ CheckOuter(t) \/ CheckInner(t)
  BY <1>9 DEF ReadOuter, MissTypeName, CheckOuter, CheckInner, TypeOK, Goto
<1>10. CASE HitTypeName(t) \/ UnlockTypeName(t)
  <2>1. ns[t] \in DOMAIN cache
    BY <1>10 DEF HitTypeName, UnlockTypeName, ThreadInv
  <2>2. cache[ns[t]][key[t].name] \in Nat
    BY <2>1, StepTypes DEF TypeOK
  <2>3. got' = [got EXCEPT ![key[t]] = @ \cup {cache[ns[t]][key[t].name]}]
    BY <1>10 DEF HitTypeName, UnlockTypeName
  <2>4. got' \in [Key -> SUBSET Nat]
    BY <2>2, <2>3, StepTypes DEF TypeOK
  <2>5. /\ pc' = [pc EXCEPT ![t] = "idle"] /\ key' = [key EXCEPT ![t] = NoKey]
        /\ depth' = [depth EXCEPT ![t] = 0] /\ ns' = [ns EXCEPT ![t] = 0]
        /\ tnMutex' \in {tnMutex, None}
        /\ UNCHANGED <<nodes, leaf, namespaces, cache, typeNames, nsMutex, interrupts>>
    BY <1>10 DEF HitTypeName, UnlockTypeName, Leave, Goto, NIL
  <2> QED
    BY <2>4, <2>5, StepTypes DEF TypeOK
<1>11. CASE NewTable(t)
  <2>1. ns[t] \in DOMAIN namespaces
    BY <1>11, StepTypes DEF NewTable, ThreadInv, HasNs, TnPc, LeafInv
  <2>2. NoNames \in [Name -> Nat]
    BY DEF NoNames, NIL
  <2>3. DOMAIN cache' \subseteq DOMAIN namespaces /\ cache' \in [DOMAIN cache' -> [Name -> Nat]]
    BY <1>11, <2>1, <2>2 DEF NewTable, TypeOK
  <2> QED
    BY <1>11, <2>3 DEF NewTable, TypeOK, Goto
<1>12. CASE NewTypeName(t)
  <2>1. ns[t] \in DOMAIN cache /\ Len(typeNames) + 1 \in Nat
    BY <1>12 DEF NewTypeName, ThreadInv, TypeOK
  <2>2. typeNames' \in Seq([ns : Nat, name : Name])
    BY <1>12, StepTypes DEF NewTypeName, TypeOK
  <2>3. DOMAIN cache' = DOMAIN cache /\ cache' \in [DOMAIN cache' -> [Name -> Nat]]
    BY <1>12, <2>1 DEF NewTypeName, TypeOK
  <2> QED
    BY <1>12, <2>2, <2>3 DEF NewTypeName, TypeOK, Goto
<1>13. CASE Interrupt(t)
  <2>1. interrupts' \in 0..MaxInterrupts
    BY <1>13, InterruptsAssumption DEF Interrupt, TypeOK
  <2> QED
    BY <1>13, <2>1, StepTypes DEF Interrupt, Leave, NIL, TypeOK, Goto
<1> QED
  BY <1>1, <1>2, <1>3, <1>4, <1>5, <1>6, <1>7, <1>8, <1>9, <1>10, <1>11, <1>12, <1>13 DEF StepOf, Step

-----------------------------------------------------------------------------
(* Steps of one thread.                                                    *)

\* The other threads keep their locals and the mutexes they hold.
LeavesOthers(t) ==
  /\ \A u \in Thread \ {t} :
       pc'[u] = pc[u] /\ key'[u] = key[u] /\ depth'[u] = depth[u] /\ ns'[u] = ns[u]
  /\ nsMutex' = nsMutex \/ nsMutex \in {None, t}
  /\ tnMutex' = tnMutex \/ tnMutex \in {None, t}

\* Every step does.
LEMMA OthersLeft ==
  ASSUME TypeOK, MutexInv, NEW t \in Thread, StepOf(t)
  PROVE  LeavesOthers(t)
<1>1. CASE \E k \in Key : Call(t, k)
  BY <1>1 DEF Call, TypeOK, Goto, LeavesOthers
<1>2. CASE Descend(t) \/ KeepNode(t)
  BY <1>2 DEF Descend, KeepNode, TypeOK, LeavesOthers
<1>3. CASE MissNamespace(t) \/ MissNode(t) \/ MissLeaf(t)
  BY <1>3 DEF MissNamespace, MissNode, MissLeaf, TypeOK, Goto, LeavesOthers
<1>4. CASE HitNamespace(t) \/ LockNamespace(t) \/ NewNode(t)
  BY <1>4 DEF HitNamespace, LockNamespace, NewNode, TypeOK, Goto, LeavesOthers
<1>5. CASE KeepLeaf(t) \/ NewLeaf(t)
  <2>1. nsMutex = t
    BY <1>5 DEF KeepLeaf, NewLeaf, MutexInv, NsPc
  <2> QED
    BY <1>5, <2>1 DEF KeepLeaf, NewLeaf, TypeOK, Goto, LeavesOthers
<1>6. CASE ReadOuter(t) \/ MissTypeName(t) \/ CheckOuter(t) \/ CheckInner(t)
  BY <1>6 DEF ReadOuter, MissTypeName, CheckOuter, CheckInner, TypeOK, Goto, LeavesOthers
<1>7. CASE LockTypeName(t) \/ NewTable(t) \/ NewTypeName(t)
  BY <1>7 DEF LockTypeName, NewTable, NewTypeName, TypeOK, Goto, LeavesOthers
<1>8. CASE HitTypeName(t)
  BY <1>8 DEF HitTypeName, Leave, TypeOK, Goto, LeavesOthers
<1>9. CASE UnlockTypeName(t)
  <2>1. tnMutex = t
    BY <1>9 DEF UnlockTypeName, MutexInv, TnPc
  <2> QED
    BY <1>9, <2>1 DEF UnlockTypeName, Leave, TypeOK, Goto, LeavesOthers
<1>10. CASE Interrupt(t)
  BY <1>10 DEF Interrupt, Leave, TypeOK, Goto, LeavesOthers
<1> QED
  BY <1>1, <1>2, <1>3, <1>4, <1>5, <1>6, <1>7, <1>8, <1>9, <1>10 DEF StepOf, Step

\* Every step gives its thread the mutex where it needs one.
LEMMA OwnMutex ==
  ASSUME TypeOK, MutexInv, NEW t \in Thread, StepOf(t)
  PROVE  (pc'[t] \in NsPc => nsMutex' = t) /\ (pc'[t] \in TnPc => tnMutex' = t)
<1> USE DEF NsPc, TnPc
<1>1. CASE (\E k \in Key : Call(t, k)) \/ Descend(t) \/ KeepNode(t)
  BY <1>1 DEF Call, Descend, KeepNode, TypeOK, Goto, MutexInv
<1>2. CASE MissNamespace(t) \/ MissNode(t) \/ MissLeaf(t)
  BY <1>2 DEF MissNamespace, MissNode, MissLeaf, TypeOK, Goto, MutexInv
<1>3. CASE HitNamespace(t) \/ LockNamespace(t) \/ NewNode(t) \/ KeepLeaf(t) \/ NewLeaf(t)
  BY <1>3 DEF HitNamespace, LockNamespace, NewNode, KeepLeaf, NewLeaf, TypeOK, Goto, MutexInv
<1>4. CASE ReadOuter(t) \/ MissTypeName(t) \/ CheckOuter(t) \/ CheckInner(t)
  BY <1>4 DEF ReadOuter, MissTypeName, CheckOuter, CheckInner, TypeOK, Goto, MutexInv
<1>5. CASE LockTypeName(t) \/ NewTable(t) \/ NewTypeName(t)
  BY <1>5 DEF LockTypeName, NewTable, NewTypeName, TypeOK, Goto, MutexInv
<1>6. CASE HitTypeName(t) \/ UnlockTypeName(t) \/ Interrupt(t)
  BY <1>6 DEF HitTypeName, UnlockTypeName, Interrupt, Leave, TypeOK, Goto
<1> QED
  BY <1>1, <1>2, <1>3, <1>4, <1>5, <1>6 DEF StepOf, Step

\* So mutual exclusion is kept.
LEMMA MutexKept ==
  ASSUME TypeOK, MutexInv, NEW t \in Thread, StepOf(t)
  PROVE  MutexInv'
<1>1. LeavesOthers(t)
  BY OthersLeft
<1> SUFFICES ASSUME NEW u \in Thread
             PROVE  (pc'[u] \in NsPc => nsMutex' = u) /\ (pc'[u] \in TnPc => tnMutex' = u)
  BY DEF MutexInv
<1>2. CASE u = t
  BY <1>2, OwnMutex
<1>3. CASE u # t
  BY <1>1, <1>3, NoneAssumption DEF MutexInv, LeavesOthers
<1> QED
  BY <1>2, <1>3

\* A step that writes to none of the caches keeps what other threads know.
LEMMA ReadingPreserves ==
  ASSUME IInv, NEW t \in Thread, StepOf(t),
         UNCHANGED <<nodes, leaf, namespaces, cache, typeNames>>,
         GotInv', ThreadInv(t)'
  PROVE  IInv'
<1>1. TypeOK' /\ MutexInv' /\ LeavesOthers(t)
  BY MutexKept, TypesKept, OthersLeft DEF IInv
<1>2. TrieInv' /\ LeafInv' /\ CacheInv'
  BY DEF IInv, TrieInv, LeafInv, CacheInv, IsNode
<1>3. ASSUME NEW u \in Thread PROVE ThreadInv(u)'
  <2>1. CASE u = t
    BY <2>1
  <2>2. CASE u # t
    <3>1. /\ ThreadInv(u) /\ pc'[u] = pc[u] /\ key'[u] = key[u]
          /\ depth'[u] = depth[u] /\ ns'[u] = ns[u]
      BY <1>1, <2>2 DEF IInv, LeavesOthers
    <3> QED
      BY <3>1 DEF ThreadInv, Node, IsNode
  <2> QED
    BY <2>1, <2>2
<1> QED
  BY <1>1, <1>2, <1>3 DEF IInv

\* A thread that is outside TypeName.[] knows nothing.
LEMMA IdleKnows ==
  ASSUME NEW t \in Thread, pc[t] = "idle", depth[t] = 0
  PROVE  ThreadInv(t)
  BY DEF ThreadInv, NsPc, HasNs, TnPc

\* Nothing is returned, and nothing is written.
LEMMA SameGot ==
  ASSUME IInv, UNCHANGED <<leaf, cache, got>>
  PROVE  GotInv'
  BY DEF IInv, GotInv

-----------------------------------------------------------------------------
(* Initially.                                                              *)

\* Empty caches and idle threads satisfy the invariant.
LEMMA InitEstablishes == Init => IInv
<1> SUFFICES ASSUME Init PROVE IInv
  OBVIOUS
<1>1. NoKey \in Key
  BY KeyAssumption DEF NoKey
<1>2. TypeOK
  BY <1>1, InterruptsAssumption DEF Init, TypeOK, NIL
<1>3. MutexInv /\ \A t \in Thread : ThreadInv(t)
  BY IdleKnows DEF Init, MutexInv, NsPc, TnPc
<1>4. TrieInv /\ LeafInv /\ CacheInv /\ GotInv
  BY DEF Init, TrieInv, LeafInv, CacheInv, GotInv
<1> QED
  BY <1>2, <1>3, <1>4 DEF IInv

-----------------------------------------------------------------------------
(* The steps that write to no cache.                                       *)

\* The lock-free walk down the trie.
LEMMA WalkingPreserves ==
  ASSUME IInv, NEW t \in Thread,
         \/ \E k \in Key : Call(t, k)
         \/ Descend(t) \/ MissNamespace(t) \/ HitNamespace(t)
  PROVE  IInv'
<1>1. TypeOK /\ ThreadInv(t) /\ NsOf(key[t]) \in NsKey
  BY StepTypes DEF IInv
<1>2. StepOf(t)
  BY DEF StepOf, Step
<1>3. UNCHANGED <<nodes, leaf, namespaces, cache, typeNames, got>>
  BY DEF Call, Descend, MissNamespace, HitNamespace
<1>4. CASE \E k \in Key : Call(t, k)
  <2>1. PICK k \in Key : Call(t, k)
    BY <1>4
  <2>2. pc'[t] = "walk" /\ key'[t] = k /\ depth'[t] = 0 /\ Len(k.path) \in Nat
    BY <1>1, <2>1, KeyParts DEF Call, Goto, TypeOK, ThreadInv
  <2>3. ThreadInv(t)'
    BY <2>2 DEF ThreadInv, NsPc, HasNs, TnPc
  <2> QED
    BY <1>2, <1>3, <2>3, SameGot, ReadingPreserves
<1>5. CASE Descend(t)
  <2>1. pc'[t] = "walk" /\ key'[t] = key[t] /\ depth'[t] <= Len(key[t].path)
    BY <1>1, <1>5, StepTypes DEF Descend, TypeOK
  <2>2. ThreadInv(t)'
    BY <2>1 DEF ThreadInv, NsPc, HasNs, TnPc
  <2> QED
    BY <1>2, <1>3, <2>2, SameGot, ReadingPreserves
<1>6. CASE MissNamespace(t)
  <2>1. pc'[t] = "nsLock"
    BY <1>1, <1>6 DEF MissNamespace, Goto, TypeOK
  <2>2. ThreadInv(t)'
    BY <2>1 DEF ThreadInv, NsPc, HasNs, TnPc
  <2> QED
    BY <1>2, <1>3, <2>2, SameGot, ReadingPreserves
<1>7. CASE HitNamespace(t)
  <2>1. /\ pc'[t] = "outer" /\ key'[t] = key[t]
        /\ ns'[t] = leaf[NsOf(key[t])] /\ leaf[NsOf(key[t])] # NIL
    BY <1>1, <1>7 DEF HitNamespace, Goto, TypeOK
  <2>2. ThreadInv(t)'
    BY <1>3, <2>1 DEF ThreadInv, NsPc, HasNs, TnPc
  <2> QED
    BY <1>2, <1>3, <2>2, SameGot, ReadingPreserves
<1> QED
  BY <1>4, <1>5, <1>6, <1>7

\* Under Namespace's mutex.
LEMMA NamespaceReadsPreserve ==
  ASSUME IInv, NEW t \in Thread,
         LockNamespace(t) \/ KeepNode(t) \/ MissNode(t) \/ KeepLeaf(t) \/ MissLeaf(t)
  PROVE  IInv'
<1>1. TypeOK /\ TrieInv /\ ThreadInv(t) /\ NsOf(key[t]) \in NsKey
  BY StepTypes DEF IInv
<1>2. StepOf(t)
  BY DEF StepOf, Step
<1>3. UNCHANGED <<nodes, leaf, namespaces, cache, typeNames, got>>
  BY DEF LockNamespace, KeepNode, MissNode, KeepLeaf, MissLeaf
<1>4. SUFFICES ThreadInv(t)'
  BY <1>2, <1>3, SameGot, ReadingPreserves
<1>5. /\ key' = key /\ Len(key[t].path) \in Nat /\ depth[t] \in Nat
      /\ \A d : Node(t, d)' = Node(t, d)
  BY StepTypes, <1>1 DEF LockNamespace, KeepNode, MissNode, KeepLeaf, MissLeaf, Node
<1>6. CASE LockNamespace(t)
  <2>1. pc'[t] = "nsInsert" /\ depth'[t] = 0
    BY <1>1, <1>6 DEF LockNamespace, Goto, TypeOK
  <2> QED
    BY <1>5, <2>1 DEF ThreadInv, NsPc, HasNs, TnPc
<1>7. CASE KeepNode(t)
  <2>1. /\ pc[t] = "nsInsert" /\ pc'[t] = "nsInsert" /\ depth'[t] = depth[t] + 1
        /\ depth[t] < Len(key[t].path) /\ Node(t, depth[t] + 1) \in nodes
    BY <1>1, <1>7 DEF KeepNode, TypeOK
  <2>2. \A i \in 1..depth[t] : Node(t, i) \in nodes
    BY <1>1, <2>1 DEF ThreadInv
  <2>3. \A i \in 1..depth'[t] : Node(t, i) \in nodes
    BY <1>5, <2>1, <2>2
  <2> QED
    BY <1>3, <1>5, <2>1, <2>3 DEF ThreadInv, NsPc, HasNs, TnPc
<1>8. CASE MissNode(t)
  <2>1. /\ pc[t] = "nsInsert" /\ pc'[t] = "nsNode" /\ depth' = depth
        /\ depth[t] < Len(key[t].path) /\ Node(t, depth[t] + 1) \notin nodes
    BY <1>1, <1>8 DEF MissNode, Goto, TypeOK
  <2> QED
    BY <1>1, <1>3, <1>5, <2>1 DEF ThreadInv, NsPc, HasNs, TnPc
<1>9. CASE KeepLeaf(t)
  <2>1. pc'[t] = "outer" /\ ns'[t] = leaf[NsOf(key[t])] /\ leaf[NsOf(key[t])] # NIL
    BY <1>1, <1>9 DEF KeepLeaf, Goto, TypeOK
  <2> QED
    BY <1>3, <1>5, <2>1 DEF ThreadInv, NsPc, HasNs, TnPc
<1>10. CASE MissLeaf(t)
  <2>1. /\ pc[t] = "nsInsert" /\ pc'[t] = "nsLeaf" /\ depth' = depth
        /\ depth[t] = Len(key[t].path) /\ leaf[NsOf(key[t])] = NIL
    BY <1>1, <1>10 DEF MissLeaf, Goto, TypeOK
  <2>2. IsNode(NsOf(key[t]))
    <3>1. Len(key[t].path) = 0 \/ Node(t, Len(key[t].path)) \in nodes
      BY <1>1, <1>5, <2>1 DEF ThreadInv
    <3>2. Node(t, Len(key[t].path)) = NsOf(key[t]) /\ NsOf(key[t]).path = key[t].path
      BY <1>1, <1>5, NodesOnTheWay, StepTypes
    <3> QED
      BY <3>1, <3>2 DEF IsNode
  <2> QED
    BY <1>1, <1>3, <1>5, <2>1, <2>2 DEF ThreadInv, NsPc, HasNs, TnPc, IsNode
<1> QED
  BY <1>6, <1>7, <1>8, <1>9, <1>10

\* TypeName's reads, with its mutex and without.
LEMMA TypeNameReadsPreserve ==
  ASSUME IInv, NEW t \in Thread,
         \/ ReadOuter(t) \/ MissTypeName(t) \/ LockTypeName(t)
         \/ CheckOuter(t) \/ CheckInner(t)
  PROVE  IInv'
<1>1. TypeOK /\ ThreadInv(t)
  BY DEF IInv
<1>2. StepOf(t)
  BY DEF StepOf, Step
<1>3. UNCHANGED <<nodes, leaf, namespaces, cache, typeNames, got, key, ns>>
  BY DEF ReadOuter, MissTypeName, LockTypeName, CheckOuter, CheckInner
<1>4. SUFFICES ThreadInv(t)'
  BY <1>2, <1>3, SameGot, ReadingPreserves
<1>5. pc[t] \in HasNs /\ ns[t] # NIL /\ ns[t] = leaf[NsOf(key[t])]
  BY <1>1 DEF ReadOuter, MissTypeName, LockTypeName, CheckOuter, CheckInner, ThreadInv, HasNs, TnPc
<1>6. CASE ReadOuter(t)
  <2>1. pc'[t] = IF ns[t] \in DOMAIN cache THEN "inner" ELSE "tnLock"
    BY <1>1, <1>6 DEF ReadOuter, Goto, TypeOK
  <2> QED
    BY <1>3, <1>5, <2>1 DEF ThreadInv, NsPc
<1>7. CASE MissTypeName(t)
  <2>1. pc'[t] = "tnLock"
    BY <1>1, <1>7 DEF MissTypeName, Goto, TypeOK
  <2> QED
    BY <1>3, <1>5, <2>1 DEF ThreadInv, NsPc
<1>8. CASE LockTypeName(t)
  <2>1. pc'[t] = "tnOuter"
    BY <1>1, <1>8 DEF LockTypeName, Goto, TypeOK
  <2> QED
    BY <1>3, <1>5, <2>1 DEF ThreadInv, NsPc
<1>9. CASE CheckOuter(t)
  <2>1. pc'[t] = IF ns[t] \in DOMAIN cache THEN "tnInner" ELSE "tnTable"
    BY <1>1, <1>9 DEF CheckOuter, Goto, TypeOK
  <2> QED
    BY <1>3, <1>5, <2>1 DEF ThreadInv, NsPc
<1>10. CASE CheckInner(t)
  <2>1. /\ ns[t] \in DOMAIN cache
        /\ pc'[t] = IF cache[ns[t]][key[t].name] = NIL THEN "tnNew" ELSE "tnUnlock"
    BY <1>1, <1>10 DEF CheckInner, Goto, TypeOK, ThreadInv
  <2> QED
    BY <1>3, <1>5, <2>1 DEF ThreadInv, NsPc
<1> QED
  BY <1>6, <1>7, <1>8, <1>9, <1>10

\* The thread leaves TypeName.[], with an object or interrupted.
LEMMA LeavingPreserves ==
  ASSUME IInv, NEW t \in Thread, HitTypeName(t) \/ UnlockTypeName(t) \/ Interrupt(t)
  PROVE  IInv'
<1>1. TypeOK /\ ThreadInv(t) /\ GotInv /\ key[t] \in Key
  BY StepTypes DEF IInv
<1>2. StepOf(t)
  BY DEF StepOf, Step
<1>3. UNCHANGED <<nodes, leaf, namespaces, cache, typeNames>>
  BY DEF HitTypeName, UnlockTypeName, Interrupt
<1>4. ThreadInv(t)'
  <2>1. pc'[t] = "idle" /\ depth'[t] = 0
    BY <1>1 DEF HitTypeName, UnlockTypeName, Interrupt, Leave, Goto, TypeOK
  <2> QED
    BY <2>1 DEF ThreadInv, NsPc, HasNs, TnPc
<1>5. CASE HitTypeName(t) \/ UnlockTypeName(t)
  <2>1. /\ leaf[NsOf(key[t])] = ns[t] /\ ns[t] \in DOMAIN cache
        /\ cache[ns[t]][key[t].name] # NIL
    BY <1>1, <1>5 DEF HitTypeName, UnlockTypeName, ThreadInv, HasNs, TnPc
  <2>2. got' = [got EXCEPT ![key[t]] = @ \cup {cache[ns[t]][key[t].name]}]
    BY <1>5 DEF HitTypeName, UnlockTypeName
  <2>3. ASSUME NEW k \in Key, NEW o \in got'[k]
        PROVE  o \in got[k] \/ (k = key[t] /\ o = cache[ns[t]][key[t].name])
    BY <1>1, <2>2 DEF TypeOK
  <2>4. GotInv'
    BY <1>1, <1>3, <2>1, <2>3 DEF GotInv
  <2> QED
    BY <1>2, <1>3, <1>4, <2>4, ReadingPreserves
<1>6. CASE Interrupt(t)
  <2>1. GotInv'
    BY <1>3, <1>6, SameGot DEF Interrupt
  <2> QED
    BY <1>2, <1>3, <1>4, <2>1, ReadingPreserves
<1> QED
  BY <1>5, <1>6

-----------------------------------------------------------------------------
(* The steps that write.                                                   *)

\* Nothing that was there is replaced.
OnlyAdds ==
  /\ \A k \in NsKey : leaf[k] # NIL => leaf'[k] = leaf[k]
  /\ \A o \in DOMAIN cache :
       o \in DOMAIN cache' /\ \A n \in Name : cache[o][n] # NIL => cache'[o][n] = cache[o][n]

\* A thread that writes has the mutex of what it writes to.
Exclusive(t) ==
  /\ UNCHANGED <<nodes, leaf>> \/ pc[t] \in NsPc
  /\ UNCHANGED cache \/ pc[t] \in TnPc

\* Then what other threads know stays true.
LEMMA OthersStillKnow ==
  ASSUME IInv, NEW t \in Thread, LeavesOthers(t), OnlyAdds, Exclusive(t), NEW u \in Thread, u # t
  PROVE  ThreadInv(u)'
<1>1. /\ ThreadInv(u) /\ pc'[u] = pc[u] /\ key'[u] = key[u]
      /\ depth'[u] = depth[u] /\ ns'[u] = ns[u] /\ \A d : Node(u, d)' = Node(u, d)
      /\ NsOf(key[u]) \in NsKey /\ key[u].name \in Name
  BY StepTypes DEF IInv, LeavesOthers, Node
<1>2. pc[u] \in NsPc => UNCHANGED <<nodes, leaf>>
  BY DEF IInv, MutexInv, Exclusive
<1>3. pc[u] \in TnPc => UNCHANGED cache
  BY DEF IInv, MutexInv, Exclusive
<1>4. pc[u] \in HasNs => ns'[u] # NIL /\ ns'[u] = leaf'[NsOf(key'[u])]
  BY <1>1 DEF ThreadInv, OnlyAdds
<1>5. pc[u] = "inner" => ns'[u] \in DOMAIN cache'
  BY <1>1 DEF ThreadInv, OnlyAdds
<1>6. CASE pc[u] \in NsPc
  BY <1>1, <1>2, <1>6 DEF ThreadInv, NsPc, TnPc, HasNs, IsNode
<1>7. CASE pc[u] \in TnPc
  BY <1>1, <1>3, <1>4, <1>7 DEF ThreadInv, NsPc, TnPc, HasNs
<1>8. CASE pc[u] \notin NsPc \cup TnPc
  BY <1>1, <1>4, <1>5, <1>8 DEF ThreadInv, NsPc, TnPc, HasNs
<1> QED
  BY <1>6, <1>7, <1>8

\* And what was returned stays cached.
LEMMA WritingPreserves ==
  ASSUME IInv, NEW t \in Thread, StepOf(t), OnlyAdds, Exclusive(t), got' = got,
         TrieInv', LeafInv', CacheInv', ThreadInv(t)'
  PROVE  IInv'
<1>1. TypeOK' /\ MutexInv' /\ LeavesOthers(t)
  BY MutexKept, TypesKept, OthersLeft DEF IInv
<1>2. \A u \in Thread : ThreadInv(u)'
  BY <1>1, OthersStillKnow
<1>3. ASSUME NEW k \in Key, NEW o \in got[k]
      PROVE  leaf'[NsOf(k)] \in DOMAIN cache' /\ cache'[leaf'[NsOf(k)]][k.name] = o /\ o # NIL
  <2>1. NsOf(k) \in NsKey /\ k.name \in Name
    BY KeyParts
  <2>2. /\ leaf[NsOf(k)] \in DOMAIN cache /\ cache[leaf[NsOf(k)]][k.name] = o /\ o # NIL
    BY DEF IInv, GotInv
  <2>3. leaf[NsOf(k)] # NIL
    BY <2>2 DEF IInv, TypeOK, NIL
  <2> QED
    BY <2>1, <2>2, <2>3 DEF OnlyAdds
<1>4. GotInv'
  BY <1>3 DEF GotInv
<1> QED
  BY <1>1, <1>2, <1>4 DEF IInv

\* A new node of the trie has nothing below it to lose.
LEMMA NewNodeAdds ==
  ASSUME TypeOK, TrieInv, NEW t \in Thread, ThreadInv(t), NewNode(t)
  PROVE  nodes' = nodes \cup {Node(t, depth[t] + 1)} /\ leaf' = leaf
<1> DEFINE n == Node(t, depth[t] + 1)
<1>1. /\ pc[t] = "nsNode" /\ depth[t] + 1 \in 1..Len(key[t].path) /\ Len(key[t].path) \in Nat
      /\ n \notin nodes
  BY StepTypes DEF NewNode, ThreadInv
<1>2. n \in NsKey /\ Len(n.path) = depth[t] + 1
  BY <1>1, NodesOnTheWay
<1>3. \A k \in NsKey : Within(k, n) => k \notin nodes /\ leaf[k] = NIL
  BY <1>1, <1>2, NothingWithin
<1> HIDE DEF n
<1>4. /\ nodes' = {k \in nodes : ~Within(k, n)} \cup {n}
      /\ leaf' = [k \in NsKey |-> IF Within(k, n) THEN NIL ELSE leaf[k]]
  BY DEF NewNode, n
<1>5. nodes' = nodes \cup {n}
  BY <1>3, <1>4 DEF TypeOK
<1>6. leaf' = leaf
  BY <1>3, <1>4 DEF TypeOK
<1> QED
  BY <1>5, <1>6 DEF n

\* A node of the trie.
LEMMA NewNodePreserves ==
  ASSUME IInv, NEW t \in Thread, NewNode(t)
  PROVE  IInv'
<1> DEFINE n == Node(t, depth[t] + 1)
<1>1. TypeOK /\ TrieInv /\ ThreadInv(t) /\ StepOf(t)
  BY DEF IInv, StepOf, Step
<1>2. /\ pc[t] = "nsNode" /\ depth[t] \in Nat /\ depth[t] + 1 \in 1..Len(key[t].path)
      /\ Len(key[t].path) \in Nat
  BY <1>1, StepTypes DEF NewNode, ThreadInv
<1>3. \A i \in 1..depth[t] : Node(t, i) \in nodes
  BY <1>1, <1>2 DEF ThreadInv
<1>4. Len(n.path) = depth[t] + 1 /\ \A i \in 1..(depth[t] + 1) : Up(n, i) = Node(t, i)
  BY <1>1, <1>2, NodesOnTheWay
<1>5. nodes' = nodes \cup {n} /\ leaf' = leaf
  BY <1>1, NewNodeAdds
<1> HIDE DEF n
<1>6. /\ depth' = [depth EXCEPT ![t] = depth[t] + 1] /\ pc' = [pc EXCEPT ![t] = "nsInsert"]
      /\ UNCHANGED <<namespaces, cache, typeNames, key, ns, got>>
  BY DEF NewNode, Goto
<1>7. TrieInv'
  <2>1. ASSUME NEW k \in nodes', NEW i \in 1..Len(k.path) PROVE Up(k, i) \in nodes'
    <3>1. CASE k \in nodes
      BY <1>1, <1>5, <3>1 DEF TrieInv
    <3>2. CASE k = n
      <4>1. i \in 1..(depth[t] + 1) /\ Up(n, i) = Node(t, i)
        BY <1>4, <3>2
      <4>2. CASE i = depth[t] + 1
        BY <1>5, <3>2, <4>1, <4>2 DEF n
      <4>3. CASE i # depth[t] + 1
        <5>1. i \in 1..depth[t]
          BY <1>2, <4>1, <4>3
        <5> QED
          BY <1>3, <1>5, <3>2, <4>1, <5>1
      <4> QED
        BY <4>2, <4>3
    <3> QED
      BY <1>5, <3>1, <3>2
  <2>2. ASSUME NEW k \in NsKey, leaf'[k] # NIL PROVE IsNode(k)'
    BY <1>1, <1>5, <2>2 DEF TrieInv, IsNode
  <2> QED
    BY <2>1, <2>2 DEF TrieInv
<1>8. LeafInv' /\ CacheInv'
  BY <1>6, <1>5 DEF IInv, LeafInv, CacheInv
<1>9. ThreadInv(t)'
  <2>1. pc'[t] = "nsInsert" /\ depth'[t] = depth[t] + 1 /\ \A d : Node(t, d)' = Node(t, d)
    BY <1>1, <1>6 DEF TypeOK, Node
  <2>2. ASSUME NEW i \in 1..(depth[t] + 1) PROVE Node(t, i) \in nodes'
    <3>1. i = depth[t] + 1 \/ i \in 1..depth[t]
      BY <1>2
    <3> QED
      BY <1>3, <1>5, <3>1 DEF n
  <2> QED
    BY <1>2, <1>6, <2>1, <2>2 DEF ThreadInv, NsPc, HasNs, TnPc
<1>10. OnlyAdds /\ Exclusive(t)
  BY <1>2, <1>6, <1>5 DEF OnlyAdds, Exclusive, NsPc
<1> QED
  BY <1>1, <1>6, <1>7, <1>8, <1>9, <1>10, WritingPreserves

\* A Namespace.
LEMMA NewLeafPreserves ==
  ASSUME IInv, NEW t \in Thread, NewLeaf(t)
  PROVE  IInv'
<1> DEFINE k0 == NsOf(key[t])
<1> DEFINE o0 == Len(namespaces) + 1
<1>1. TypeOK /\ TrieInv /\ LeafInv /\ ThreadInv(t) /\ StepOf(t)
  BY DEF IInv, StepOf, Step
<1>2. /\ pc[t] = "nsLeaf" /\ k0 \in NsKey /\ leaf[k0] = NIL /\ IsNode(k0)
  BY <1>1, StepTypes DEF NewLeaf, ThreadInv
<1>3. /\ namespaces' = Append(namespaces, k0) /\ leaf' = [leaf EXCEPT ![k0] = o0]
      /\ ns' = [ns EXCEPT ![t] = o0] /\ pc' = [pc EXCEPT ![t] = "outer"]
      /\ UNCHANGED <<nodes, cache, typeNames, key, got>>
  BY DEF NewLeaf, Goto
<1>4. /\ DOMAIN namespaces = 1..Len(namespaces) /\ Len(namespaces) \in Nat /\ o0 # NIL
      /\ DOMAIN namespaces' = DOMAIN namespaces \cup {o0} /\ o0 \notin DOMAIN namespaces
      /\ namespaces'[o0] = k0 /\ \A o \in DOMAIN namespaces : namespaces'[o] = namespaces[o]
      /\ \A o \in DOMAIN namespaces : o # NIL /\ namespaces[o] \in NsKey
  <2>1. namespaces \in Seq(NsKey)
    BY <1>1 DEF TypeOK
  <2> QED
    BY <1>2, <1>3, <2>1 DEF NIL
<1>5. leaf'[k0] = o0 /\ \A k \in NsKey \ {k0} : leaf'[k] = leaf[k]
  BY <1>1, <1>2, <1>3 DEF TypeOK
<1> HIDE DEF k0, o0
<1>6. LeafInv'
  <2>1. ASSUME NEW k \in NsKey, leaf'[k] # NIL
        PROVE  leaf'[k] \in DOMAIN namespaces' /\ namespaces'[leaf'[k]] = k
    BY <1>1, <1>4, <1>5, <2>1 DEF LeafInv
  <2>2. ASSUME NEW o \in DOMAIN namespaces' PROVE leaf'[namespaces'[o]] = o
    BY <1>1, <1>2, <1>4, <1>5 DEF LeafInv
  <2> QED
    BY <2>1, <2>2 DEF LeafInv
<1>7. TrieInv'
  BY <1>1, <1>2, <1>3, <1>5 DEF TrieInv, IsNode
<1>8. CacheInv'
  BY <1>3 DEF IInv, CacheInv
<1>9. ThreadInv(t)'
  <2>1. pc'[t] = "outer" /\ ns'[t] = o0 /\ leaf'[NsOf(key'[t])] = o0
    BY <1>1, <1>3, <1>5 DEF TypeOK, k0
  <2> QED
    BY <1>4, <2>1 DEF ThreadInv, NsPc, HasNs, TnPc
<1>10. OnlyAdds /\ Exclusive(t)
  BY <1>2, <1>3, <1>5 DEF OnlyAdds, Exclusive, NsPc
<1> QED
  BY <1>1, <1>3, <1>6, <1>7, <1>8, <1>9, <1>10, WritingPreserves

\* The table of a Namespace's TypeNames.
LEMMA NewTablePreserves ==
  ASSUME IInv, NEW t \in Thread, NewTable(t)
  PROVE  IInv'
<1>1. TypeOK /\ ThreadInv(t) /\ StepOf(t)
  BY DEF IInv, StepOf, Step
<1>2. /\ pc[t] = "tnTable" /\ ns[t] \notin DOMAIN cache /\ pc'[t] = "tnInner"
      /\ ns[t] # NIL /\ ns[t] = leaf[NsOf(key[t])]
  BY <1>1 DEF NewTable, ThreadInv, Goto, TypeOK, HasNs, TnPc
<1>3. /\ cache' = [o \in DOMAIN cache \cup {ns[t]} |-> IF o = ns[t] THEN NoNames ELSE cache[o]]
      /\ UNCHANGED <<nodes, leaf, namespaces, typeNames, key, ns, got>>
  BY DEF NewTable
<1>4. /\ DOMAIN cache' = DOMAIN cache \cup {ns[t]} /\ \A o \in DOMAIN cache : cache'[o] = cache[o]
      /\ \A n \in Name : cache'[ns[t]][n] = NIL
  BY <1>2, <1>3 DEF NoNames
<1>5. CacheInv'
  BY <1>3, <1>4 DEF IInv, CacheInv
<1>6. TrieInv' /\ LeafInv'
  BY <1>3 DEF IInv, TrieInv, LeafInv, IsNode
<1>7. ThreadInv(t)'
  BY <1>2, <1>3, <1>4 DEF ThreadInv, NsPc, HasNs, TnPc
<1>8. OnlyAdds /\ Exclusive(t)
  BY <1>2, <1>3, <1>4 DEF OnlyAdds, Exclusive, TnPc
<1> QED
  BY <1>1, <1>3, <1>5, <1>6, <1>7, <1>8, WritingPreserves

\* A TypeName.
LEMMA NewTypeNamePreserves ==
  ASSUME IInv, NEW t \in Thread, NewTypeName(t)
  PROVE  IInv'
<1> DEFINE o0 == Len(typeNames) + 1
<1> DEFINE n0 == key[t].name
<1>1. TypeOK /\ CacheInv /\ ThreadInv(t) /\ StepOf(t)
  BY DEF IInv, StepOf, Step
<1>2. /\ pc[t] = "tnNew" /\ ns[t] \in DOMAIN cache /\ pc'[t] = "tnUnlock"
      /\ ns[t] # NIL /\ ns[t] = leaf[NsOf(key[t])] /\ cache[ns[t]][n0] = NIL /\ n0 \in Name
  BY <1>1, StepTypes DEF NewTypeName, ThreadInv, Goto, TypeOK, HasNs, TnPc
<1>3. /\ typeNames' = Append(typeNames, [ns |-> ns[t], name |-> n0])
      /\ cache' = [cache EXCEPT ![ns[t]][n0] = o0]
      /\ UNCHANGED <<nodes, leaf, namespaces, key, ns, got>>
  BY DEF NewTypeName
<1>4. /\ o0 # NIL /\ DOMAIN typeNames' = DOMAIN typeNames \cup {o0}
      /\ typeNames'[o0] = [ns |-> ns[t], name |-> n0]
      /\ \A o \in DOMAIN typeNames : typeNames'[o] = typeNames[o]
  <2>1. typeNames \in Seq([ns : Nat, name : Name]) /\ [ns |-> ns[t], name |-> n0] \in [ns : Nat, name : Name]
    BY <1>1, <1>2, StepTypes DEF TypeOK
  <2> QED
    BY <1>3, <2>1 DEF NIL
<1> HIDE DEF o0, n0
<1>5. /\ DOMAIN cache' = DOMAIN cache /\ \A o \in DOMAIN cache \ {ns[t]} : cache'[o] = cache[o]
      /\ cache'[ns[t]][n0] = o0 /\ \A n \in Name \ {n0} : cache'[ns[t]][n] = cache[ns[t]][n]
  <2>1. cache \in [DOMAIN cache -> [Name -> Nat]]
    BY <1>1 DEF TypeOK
  <2> QED
    BY <1>2, <1>3, <2>1
<1>6. CacheInv'
  <2> SUFFICES ASSUME NEW o \in DOMAIN cache, NEW n \in Name, cache'[o][n] # NIL
               PROVE  /\ cache'[o][n] \in DOMAIN typeNames'
                      /\ typeNames'[cache'[o][n]] = [ns |-> o, name |-> n]
    BY <1>5 DEF CacheInv
  <2>1. CASE o = ns[t] /\ n = n0
    BY <1>4, <1>5, <2>1
  <2>2. CASE ~(o = ns[t] /\ n = n0)
    <3>1. cache'[o][n] = cache[o][n]
      BY <1>5, <2>2
    <3> QED
      BY <1>1, <1>4, <3>1 DEF CacheInv
  <2> QED
    BY <2>1, <2>2
<1>7. TrieInv' /\ LeafInv'
  BY <1>3 DEF IInv, TrieInv, LeafInv, IsNode
<1>8. ThreadInv(t)'
  BY <1>2, <1>3, <1>4, <1>5 DEF ThreadInv, NsPc, HasNs, TnPc, n0
<1>9. OnlyAdds /\ Exclusive(t)
  BY <1>2, <1>3, <1>5 DEF OnlyAdds, Exclusive, TnPc
<1> QED
  BY <1>1, <1>3, <1>6, <1>7, <1>8, <1>9, WritingPreserves

-----------------------------------------------------------------------------
(* Every step, and the theorems.                                           *)

\* The invariant is inductive.
LEMMA StepPreserves ==
  ASSUME IInv, [Next]_vars
  PROVE  IInv'
<1>1. CASE Next
  <2>1. PICK t \in Thread : StepOf(t)
    BY <1>1 DEF Next, StepOf
  <2> QED
    BY <2>1, WalkingPreserves, NamespaceReadsPreserve, TypeNameReadsPreserve, LeavingPreserves,
       NewNodePreserves, NewLeafPreserves, NewTablePreserves, NewTypeNamePreserves
       DEF StepOf, Step
<1>2. CASE UNCHANGED vars
  BY <1>2 DEF vars, IInv, TypeOK, MutexInv, TrieInv, LeafInv, CacheInv, GotInv, ThreadInv,
              IsNode, Node
<1> QED
  BY <1>1, <1>2

\* So it always holds.
LEMMA Invariance == Spec => []IInv
<1>1. Init => IInv
  BY InitEstablishes
<1>2. IInv /\ [Next]_vars => IInv'
  BY StepPreserves
<1> QED
  BY <1>1, <1>2, PTL DEF Spec

\* The caches and the threads stay of their types.
THEOREM TypesStay == Spec => []TypeOK
<1>1. IInv => TypeOK
  BY DEF IInv
<1> QED
  BY <1>1, Invariance, PTL

\* A request is its namespace and its name.
LEMMA KeyIsNamespaceAndName ==
  ASSUME NEW j \in Key, NEW k \in Key, NsOf(j) = NsOf(k), j.name = k.name
  PROVE  j = k
<1>1. /\ j \in [path : Path, absolute : Flag, name : Name]
      /\ k \in [path : Path, absolute : Flag, name : Name]
  BY KeyAssumption
<1>2. j.path = k.path /\ j.absolute = k.absolute
  BY DEF NsOf
<1> QED
  BY <1>1, <1>2

\* A cached TypeName tells the request it is for.
LEMMA CachedFor ==
  ASSUME IInv, NEW k \in Key, leaf[NsOf(k)] \in DOMAIN cache, cache[leaf[NsOf(k)]][k.name] # NIL
  PROVE  LET o == cache[leaf[NsOf(k)]][k.name]
         IN  /\ o \in DOMAIN typeNames /\ typeNames[o].name = k.name
             /\ namespaces[typeNames[o].ns] = NsOf(k)
<1>1. NsOf(k) \in NsKey /\ k.name \in Name
  BY KeyParts
<1>2. leaf[NsOf(k)] # NIL
  BY DEF IInv, TypeOK, NIL
<1>3. namespaces[leaf[NsOf(k)]] = NsOf(k)
  BY <1>1, <1>2 DEF IInv, LeafInv
<1> DEFINE o == cache[leaf[NsOf(k)]][k.name]
<1>4. o \in DOMAIN typeNames /\ typeNames[o] = [ns |-> leaf[NsOf(k)], name |-> k.name]
  BY <1>1 DEF IInv, CacheInv
<1> QED
  BY <1>3, <1>4

\* Two requests whose cached TypeName is the same are the same.
LEMMA CachedOnce ==
  ASSUME IInv, NEW j \in Key, NEW k \in Key,
         leaf[NsOf(j)] \in DOMAIN cache, cache[leaf[NsOf(j)]][j.name] # NIL,
         leaf[NsOf(k)] \in DOMAIN cache,
         cache[leaf[NsOf(j)]][j.name] = cache[leaf[NsOf(k)]][k.name]
  PROVE  j = k
  BY CachedFor, KeyIsNamespaceAndName

\* Namespace.[] makes one object per key (namespace.rb:24-45).
LEMMA NamespacesAreUnique == Spec => []OneObjectPerNamespace
<1>1. IInv => OneObjectPerNamespace
  <2> SUFFICES ASSUME IInv, NEW o \in DOMAIN namespaces, NEW p \in DOMAIN namespaces,
                      namespaces[o] = namespaces[p]
               PROVE  o = p
    BY DEF OneObjectPerNamespace
  <2>1. leaf[namespaces[o]] = o /\ leaf[namespaces[p]] = p
    BY DEF IInv, LeafInv
  <2> QED
    BY <2>1
<1> QED
  BY <1>1, Invariance, PTL

\* Whatever the threads do between a miss and the lock, and wherever they are
\* interrupted, TypeName.[] returns one object per request (type_name.rb:36-48).
THEOREM ObjectsAreCanonical == Spec => []Canonical
<1>1. IInv => OneObjectPerRequest
  <2> SUFFICES ASSUME IInv, NEW j \in Key, NEW k \in Key, NEW o \in got[j], NEW p \in got[k]
               PROVE  j = k <=> o = p
    BY DEF OneObjectPerRequest
  <2>1. /\ leaf[NsOf(j)] \in DOMAIN cache /\ cache[leaf[NsOf(j)]][j.name] = o /\ o # NIL
        /\ leaf[NsOf(k)] \in DOMAIN cache /\ cache[leaf[NsOf(k)]][k.name] = p
    BY DEF IInv, GotInv
  <2> QED
    BY <2>1, CachedOnce
<1> QED
  BY <1>1, Invariance, NamespacesAreUnique, PTL DEF Canonical

\* What is returned for a request was made for it.
THEOREM RequestsAreAnsweredRight == Spec => []ReturnsWhatWasAskedFor
<1>1. IInv => ReturnsWhatWasAskedFor
  <2> SUFFICES ASSUME IInv, NEW k \in Key, NEW o \in got[k]
               PROVE  /\ o \in DOMAIN typeNames /\ typeNames[o].name = k.name
                      /\ namespaces[typeNames[o].ns] = NsOf(k)
    BY DEF ReturnsWhatWasAskedFor
  <2>1. /\ leaf[NsOf(k)] \in DOMAIN cache /\ cache[leaf[NsOf(k)]][k.name] = o /\ o # NIL
    BY DEF IInv, GotInv
  <2> QED
    BY <2>1, CachedFor
<1> QED
  BY <1>1, Invariance, PTL

-----------------------------------------------------------------------------
(* The refinement: the two caches are one table of canonical objects.      *)

\* What the table holds for a request.
LEMMA TableAt ==
  ASSUME NEW k \in Key
  PROVE  /\ leaf[NsOf(k)] \in DOMAIN cache => table[k] = cache[leaf[NsOf(k)]][k.name]
         /\ leaf[NsOf(k)] \notin DOMAIN cache => table[k] = NIL
  BY DEF table

\* A new Namespace has no TypeNames yet.
LEMMA NewLeafStutters ==
  ASSUME IInv, NEW t \in Thread, NewLeaf(t)
  PROVE  table' = table
<1> DEFINE k0 == NsOf(key[t])
           o0 == Len(namespaces) + 1
<1>1. k0 \in NsKey /\ leaf[k0] = NIL /\ leaf' = [leaf EXCEPT ![k0] = o0] /\ cache' = cache
  BY StepTypes DEF IInv, NewLeaf, ThreadInv
<1>2. NIL \notin DOMAIN cache /\ o0 \notin DOMAIN cache
  BY DEF IInv, TypeOK, NIL
<1> HIDE DEF k0, o0
<1>3. leaf'[k0] = o0 /\ \A k \in NsKey \ {k0} : leaf'[k] = leaf[k]
  BY <1>1 DEF IInv, TypeOK
<1>4. ASSUME NEW k \in Key
      PROVE  (IF leaf'[NsOf(k)] \in DOMAIN cache' THEN cache'[leaf'[NsOf(k)]][k.name] ELSE NIL)
               = (IF leaf[NsOf(k)] \in DOMAIN cache THEN cache[leaf[NsOf(k)]][k.name] ELSE NIL)
  BY <1>1, <1>2, <1>3, KeyParts
<1> QED
  BY <1>4 DEF table, NsOf

\* A new table has no TypeNames yet.
LEMMA NewTableStutters ==
  ASSUME IInv, NEW t \in Thread, NewTable(t)
  PROVE  table' = table
<1>1. /\ ns[t] \notin DOMAIN cache /\ leaf' = leaf
      /\ cache' = [o \in DOMAIN cache \cup {ns[t]} |-> IF o = ns[t] THEN NoNames ELSE cache[o]]
  BY DEF IInv, NewTable, ThreadInv
<1>2. ASSUME NEW k \in Key
      PROVE  (IF leaf'[NsOf(k)] \in DOMAIN cache' THEN cache'[leaf'[NsOf(k)]][k.name] ELSE NIL)
               = (IF leaf[NsOf(k)] \in DOMAIN cache THEN cache[leaf[NsOf(k)]][k.name] ELSE NIL)
  BY <1>1, KeyParts DEF NoNames
<1> QED
  BY <1>2 DEF table, NsOf

\* A new TypeName is the object of the request it is made for.
LEMMA NewTypeNameCreates ==
  ASSUME IInv, NEW t \in Thread, NewTypeName(t)
  PROVE  Abstract!Create(key[t])
<1> DEFINE o0 == Len(typeNames) + 1
           k0 == key[t]
<1>1. /\ k0 \in Key /\ k0.name \in Name /\ leaf[NsOf(k0)] = ns[t] /\ ns[t] \in DOMAIN cache
      /\ ns[t] # NIL /\ cache[ns[t]][k0.name] = NIL
      /\ leaf' = leaf /\ got' = got /\ cache' = [cache EXCEPT ![ns[t]][k0.name] = o0]
  BY StepTypes DEF IInv, NewTypeName, ThreadInv, HasNs, TnPc
<1>2. o0 \in Nat \ {NIL} /\ o0 \notin DOMAIN typeNames
  BY DEF IInv, TypeOK, NIL
<1> HIDE DEF o0, k0
<1>3. /\ DOMAIN cache' = DOMAIN cache /\ \A o \in DOMAIN cache \ {ns[t]} : cache'[o] = cache[o]
      /\ cache'[ns[t]][k0.name] = o0
      /\ \A n \in Name \ {k0.name} : cache'[ns[t]][n] = cache[ns[t]][n]
  BY <1>1 DEF IInv, TypeOK
<1>4. table[k0] = NIL
  BY <1>1, TableAt
<1>5. ASSUME NEW j \in Key, j # k0
      PROVE  (IF leaf'[NsOf(j)] \in DOMAIN cache' THEN cache'[leaf'[NsOf(j)]][j.name] ELSE NIL)
               = table[j]
  <2>1. NsOf(j) \in NsKey /\ j.name \in Name /\ NsOf(k0) \in NsKey
    BY <1>1, KeyParts
  <2>2. CASE leaf[NsOf(j)] = ns[t]
    <3>1. NsOf(j) = NsOf(k0)
      BY <1>1, <2>1, <2>2 DEF IInv, LeafInv
    <3>2. j.name # k0.name
      BY <1>1, <1>5, <3>1, KeyIsNamespaceAndName
    <3> QED
      BY <1>1, <1>3, <2>1, <2>2, <3>2, TableAt
  <2>3. CASE leaf[NsOf(j)] # ns[t]
    BY <1>1, <1>3, <2>3, TableAt
  <2> QED
    BY <2>2, <2>3
<1>6. table' = [table EXCEPT ![k0] = o0]
  <2>1. table' = [j \in Key |-> IF leaf'[NsOf(j)] \in DOMAIN cache'
                                   THEN cache'[leaf'[NsOf(j)]][j.name] ELSE NIL]
    BY DEF table, NsOf
  <2>2. table = [j \in Key |-> table[j]]
    BY DEF table
  <2> QED
    BY <1>1, <1>3, <1>5, <2>1, <2>2
<1>7. ASSUME NEW j \in Key PROVE table[j] # o0
  <2>1. CASE table[j] = NIL
    BY <1>2, <2>1
  <2>2. CASE table[j] # NIL
    BY <1>2, <2>2, TableAt, CachedFor
  <2> QED
    BY <2>1, <2>2
<1>8. table'[k0] = o0
  BY <1>1, <1>6 DEF table
<1> QED
  BY <1>1, <1>2, <1>4, <1>6, <1>7, <1>8 DEF Abstract!Create, Abstract!NIL, NIL, k0

\* A request returns its object.
LEMMA HitReturns ==
  ASSUME IInv, NEW t \in Thread, HitTypeName(t) \/ UnlockTypeName(t)
  PROVE  Abstract!Return(key[t])
<1>1. /\ key[t] \in Key /\ leaf[NsOf(key[t])] = ns[t] /\ ns[t] \in DOMAIN cache
      /\ cache[ns[t]][key[t].name] # NIL
  BY StepTypes DEF IInv, HitTypeName, UnlockTypeName, ThreadInv, HasNs, TnPc
<1>2. /\ got' = [got EXCEPT ![key[t]] = @ \cup {cache[ns[t]][key[t].name]}]
      /\ leaf' = leaf /\ cache' = cache
  BY DEF HitTypeName, UnlockTypeName
<1>3. table' = table
  BY <1>2 DEF table, NsOf
<1>4. table[key[t]] = cache[ns[t]][key[t].name]
  BY <1>1, TableAt
<1> QED
  BY <1>1, <1>2, <1>3, <1>4 DEF Abstract!Return, Abstract!NIL, NIL

\* The other steps change neither a canonical object nor what was returned.
LEMMA OthersStutter ==
  ASSUME IInv, NEW t \in Thread, StepOf(t),
         ~NewTypeName(t), ~HitTypeName(t), ~UnlockTypeName(t)
  PROVE  UNCHANGED <<table, got>>
<1>1. CASE NewNode(t)
  <2>1. leaf' = leaf /\ cache' = cache /\ got' = got
    BY <1>1, NewNodeAdds DEF IInv, NewNode
  <2> QED
    BY <2>1 DEF table, NsOf
<1>2. CASE NewLeaf(t)
  BY <1>2, NewLeafStutters DEF NewLeaf
<1>3. CASE NewTable(t)
  BY <1>3, NewTableStutters DEF NewTable
<1>4. CASE ~NewNode(t) /\ ~NewLeaf(t) /\ ~NewTable(t)
  <2>1. leaf' = leaf /\ cache' = cache /\ got' = got
    BY <1>4 DEF StepOf, Step, Call, Descend, MissNamespace, HitNamespace, LockNamespace, KeepNode,
       MissNode, KeepLeaf, MissLeaf, ReadOuter, MissTypeName, LockTypeName, CheckOuter, CheckInner,
       Interrupt
  <2> QED
    BY <2>1 DEF table, NsOf
<1> QED
  BY <1>1, <1>2, <1>3, <1>4

\* The two caches with their lock-free reads behave as one table in which a request's
\* object is made once and returned ever after (type_name.rb:36-48, namespace.rb:24-45).
THEOREM CachesImplementFlyweight == Spec => ImplementsFlyweight
<1>1. Init => Abstract!Init
  BY DEF Init, table, Abstract!Init, Abstract!NIL, NIL
<1>2. IInv /\ [Next]_vars => [Abstract!Next]_<<table, got>>
  <2> SUFFICES ASSUME IInv, [Next]_vars
               PROVE  [Abstract!Next]_<<table, got>>
    OBVIOUS
  <2>1. CASE Next
    <3>1. PICK t \in Thread : StepOf(t)
      BY <2>1 DEF Next, StepOf
    <3>2. key[t] \in Key
      BY DEF IInv, TypeOK
    <3> QED
      BY <3>1, <3>2, NewTypeNameCreates, HitReturns, OthersStutter DEF Abstract!Next
  <2>2. CASE UNCHANGED vars
    BY <2>2 DEF vars, table, NsOf
  <2> QED
    BY <2>1, <2>2
<1> QED
  BY <1>1, <1>2, Invariance, PTL DEF Spec, ImplementsFlyweight, Abstract!Spec
=============================================================================
