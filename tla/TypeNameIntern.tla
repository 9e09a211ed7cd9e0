--------------------------- MODULE TypeNameIntern ---------------------------
(***************************************************************************)
(* The process-wide flyweight caches behind Namespace.[] and TypeName.[]   *)
(* (lib/rbs/namespace.rb, lib/rbs/type_name.rb), used by any number of     *)
(* threads.  Each cache is read without a lock first; a miss takes the     *)
(* cache's mutex and inserts with `||=`, which is a read and, when that    *)
(* finds nothing, a write.  One step is one Hash operation: that is what   *)
(* another thread can see between.                                         *)
(*                                                                         *)
(* A thread may be interrupted anywhere (Thread#raise, Timeout): then      *)
(* Mutex#synchronize releases the mutex, and what was inserted so far      *)
(* stays.                                                                  *)
(***************************************************************************)
EXTENDS Integers, Sequences

CONSTANTS Thread,
          Name,             \* the Symbols of type names
          Symbol,           \* the Symbols of namespaces
          Path,             \* the namespace paths, a prefix-closed set of sequences
          Key,              \* the requests: records of a path, a flag and a name
          MaxInterrupts     \* bound: how many requests get interrupted

Flag == BOOLEAN
NsKey == [path : Path, absolute : Flag]

ASSUME KeyAssumption == Key # {} /\ Key \subseteq [path : Path, absolute : Flag, name : Name]
ASSUME PathAssumption ==
  Path \subseteq Seq(Symbol) /\ \A p \in Path : \A i \in 0..Len(p) : SubSeq(p, 1, i) \in Path

\* A mutex nobody holds, and the `nil` of a Hash lookup that found nothing.
None == "none"
NIL == 0

ASSUME NoneAssumption == None \notin Thread
ASSUME InterruptsAssumption == MaxInterrupts \in Nat

VARIABLES
  nodes,        \* the trie nodes that exist below the two roots, as NsKeys
  leaf,         \* leaf[k] is node[INTERN_LEAF] of the node k: a Namespace, or nil
  namespaces,   \* the Namespace objects made so far: namespaces[o] is o's key
  cache,        \* TypeName's @intern_cache: Namespace -> Name -> TypeName or nil
  typeNames,    \* the TypeName objects made so far: their namespace and name
  nsMutex,      \* Namespace's @intern_mutex: its owner, or None
  tnMutex,      \* TypeName's @intern_mutex
  pc,           \* where every thread is in TypeName.[]
  key,          \* what it was asked for
  depth,        \* how far down the path its `node` is
  ns,           \* its `ns`, once it has one
  got,          \* history: the objects returned so far, per key
  interrupts

vars == <<nodes, leaf, namespaces, cache, typeNames, nsMutex, tnMutex,
          pc, key, depth, ns, got, interrupts>>

NsOf(k) == [path |-> k.path, absolute |-> k.absolute]

\* The trie node that is d steps down the path a thread was asked for.
Node(t, d) == [path |-> SubSeq(key[t].path, 1, d), absolute |-> key[t].absolute]

\* k is the key of the node n or of one below it.
Within(k, n) ==
  /\ k.absolute = n.absolute
  /\ Len(n.path) <= Len(k.path)
  /\ SubSeq(k.path, 1, Len(n.path)) = n.path

NoNames == [n \in Name |-> NIL]

\* What `key` holds while a thread is outside TypeName.[].
NoKey == CHOOSE k \in Key : TRUE

-----------------------------------------------------------------------------

Init ==
  /\ nodes = {}
  /\ leaf = [k \in NsKey |-> NIL]
  /\ namespaces = <<>>
  /\ cache = <<>>
  /\ typeNames = <<>>
  /\ nsMutex = None /\ tnMutex = None
  /\ pc = [t \in Thread |-> "idle"]
  /\ key = [t \in Thread |-> NoKey]
  /\ depth = [t \in Thread |-> 0]
  /\ ns = [t \in Thread |-> NIL]
  /\ got = [k \in Key |-> {}]
  /\ interrupts = 0

Goto(t, label) == pc' = [pc EXCEPT ![t] = label]

\* The thread leaves TypeName.[], and its locals are gone.
Leave(t) ==
  /\ Goto(t, "idle")
  /\ key' = [key EXCEPT ![t] = NoKey]
  /\ depth' = [depth EXCEPT ![t] = 0]
  /\ ns' = [ns EXCEPT ![t] = NIL]

\* TypeName[namespace, name], which first calls Namespace[path, absolute].
Call(t, k) ==
  /\ pc[t] = "idle"
  /\ Goto(t, "walk")
  /\ key' = [key EXCEPT ![t] = k]
  /\ UNCHANGED <<nodes, leaf, namespaces, cache, typeNames, nsMutex, tnMutex,
                 depth, ns, got, interrupts>>

-----------------------------------------------------------------------------
(* Namespace.[]: the lock-free fast path.                                  *)

\* node = node[sym], found.
Descend(t) ==
  /\ pc[t] = "walk" /\ depth[t] < Len(key[t].path)
  /\ Node(t, depth[t] + 1) \in nodes
  /\ depth' = [depth EXCEPT ![t] = @ + 1]
  /\ UNCHANGED <<nodes, leaf, namespaces, cache, typeNames, nsMutex, tnMutex,
                 pc, key, ns, got, interrupts>>

\* A mutant of MissNamespace: the miss is not noticed, and ns is nil.
MissNamespaceUnnoticed(t) ==
  /\ pc[t] = "walk"
  /\ IF depth[t] < Len(key[t].path) THEN Node(t, depth[t] + 1) \notin nodes
                                    ELSE leaf[NsOf(key[t])] = NIL
  /\ Goto(t, "outer")
  /\ UNCHANGED <<nodes, leaf, namespaces, cache, typeNames, nsMutex, tnMutex,
                 key, depth, ns, got, interrupts>>

\* The path leaves the trie, or its last node has no leaf.
MissNamespace(t) ==
  /\ pc[t] = "walk"
  /\ IF depth[t] < Len(key[t].path) THEN Node(t, depth[t] + 1) \notin nodes
                                    ELSE leaf[NsOf(key[t])] = NIL
  /\ Goto(t, "nsLock")
  /\ UNCHANGED <<nodes, leaf, namespaces, cache, typeNames, nsMutex, tnMutex,
                 key, depth, ns, got, interrupts>>

\* A mutant of HitNamespace: the first leaf that was made is taken.
HitAnyNamespace(t) ==
  /\ pc[t] = "walk" /\ depth[t] = Len(key[t].path)
  /\ leaf[NsOf(key[t])] # NIL
  /\ ns' = [ns EXCEPT ![t] = 1]
  /\ Goto(t, "outer")
  /\ UNCHANGED <<nodes, leaf, namespaces, cache, typeNames, nsMutex, tnMutex,
                 key, depth, got, interrupts>>

HitNamespace(t) ==
  /\ pc[t] = "walk" /\ depth[t] = Len(key[t].path)
  /\ leaf[NsOf(key[t])] # NIL
  /\ ns' = [ns EXCEPT ![t] = leaf[NsOf(key[t])]]
  /\ Goto(t, "outer")
  /\ UNCHANGED <<nodes, leaf, namespaces, cache, typeNames, nsMutex, tnMutex,
                 key, depth, got, interrupts>>

(* Namespace.[]: the insertion, under its mutex.                           *)

LockNamespace(t) ==
  /\ pc[t] = "nsLock" /\ nsMutex = None
  /\ nsMutex' = t
  /\ depth' = [depth EXCEPT ![t] = 0]
  /\ Goto(t, "nsInsert")
  /\ UNCHANGED <<nodes, leaf, namespaces, cache, typeNames, tnMutex,
                 key, ns, got, interrupts>>

\* node[sym] ||= {}, found.
KeepNode(t) ==
  /\ pc[t] = "nsInsert" /\ depth[t] < Len(key[t].path)
  /\ Node(t, depth[t] + 1) \in nodes
  /\ depth' = [depth EXCEPT ![t] = @ + 1]
  /\ UNCHANGED <<nodes, leaf, namespaces, cache, typeNames, nsMutex, tnMutex,
                 pc, key, ns, got, interrupts>>

\* node[sym] ||= {}, not found.
MissNode(t) ==
  /\ pc[t] = "nsInsert" /\ depth[t] < Len(key[t].path)
  /\ Node(t, depth[t] + 1) \notin nodes
  /\ Goto(t, "nsNode")
  /\ UNCHANGED <<nodes, leaf, namespaces, cache, typeNames, nsMutex, tnMutex,
                 key, depth, ns, got, interrupts>>

\* node[sym] = {}.  What was below the node before, if there was one, is lost.
NewNode(t) ==
  /\ pc[t] = "nsNode"
  /\ LET node == Node(t, depth[t] + 1)
     IN  /\ nodes' = {k \in nodes : ~Within(k, node)} \cup {node}
         /\ leaf' = [k \in NsKey |-> IF Within(k, node) THEN NIL ELSE leaf[k]]
  /\ depth' = [depth EXCEPT ![t] = @ + 1]
  /\ Goto(t, "nsInsert")
  /\ UNCHANGED <<namespaces, cache, typeNames, nsMutex, tnMutex, key, ns, got, interrupts>>

\* node[INTERN_LEAF] ||= new(...), found: another thread was faster.
KeepLeaf(t) ==
  /\ pc[t] = "nsInsert" /\ depth[t] = Len(key[t].path)
  /\ leaf[NsOf(key[t])] # NIL
  /\ ns' = [ns EXCEPT ![t] = leaf[NsOf(key[t])]]
  /\ nsMutex' = None
  /\ Goto(t, "outer")
  /\ UNCHANGED <<nodes, leaf, namespaces, cache, typeNames, tnMutex,
                 key, depth, got, interrupts>>

\* node[INTERN_LEAF] ||= new(...), not found.
MissLeaf(t) ==
  /\ pc[t] = "nsInsert" /\ depth[t] = Len(key[t].path)
  /\ leaf[NsOf(key[t])] = NIL
  /\ Goto(t, "nsLeaf")
  /\ UNCHANGED <<nodes, leaf, namespaces, cache, typeNames, nsMutex, tnMutex,
                 key, depth, ns, got, interrupts>>

\* node[INTERN_LEAF] = new(...), and the mutex is released.
NewLeaf(t) ==
  /\ pc[t] = "nsLeaf"
  /\ namespaces' = Append(namespaces, NsOf(key[t]))
  /\ leaf' = [leaf EXCEPT ![NsOf(key[t])] = Len(namespaces) + 1]
  /\ ns' = [ns EXCEPT ![t] = Len(namespaces) + 1]
  /\ nsMutex' = None
  /\ Goto(t, "outer")
  /\ UNCHANGED <<nodes, cache, typeNames, tnMutex, key, depth, got, interrupts>>

-----------------------------------------------------------------------------
(* TypeName.[]: the lock-free fast path, two reads.                        *)

\* inner = @intern_cache[ns]
ReadOuter(t) ==
  /\ pc[t] = "outer"
  /\ Goto(t, IF ns[t] \in DOMAIN cache THEN "inner" ELSE "tnLock")
  /\ UNCHANGED <<nodes, leaf, namespaces, cache, typeNames, nsMutex, tnMutex,
                 key, depth, ns, got, interrupts>>

\* inner[name], found: TypeName.[] returns it.
HitTypeName(t) ==
  /\ pc[t] = "inner"
  /\ cache[ns[t]][key[t].name] # NIL
  /\ got' = [got EXCEPT ![key[t]] = @ \cup {cache[ns[t]][key[t].name]}]
  /\ Leave(t)
  /\ UNCHANGED <<nodes, leaf, namespaces, cache, typeNames, nsMutex, tnMutex, interrupts>>

MissTypeName(t) ==
  /\ pc[t] = "inner"
  /\ cache[ns[t]][key[t].name] = NIL
  /\ Goto(t, "tnLock")
  /\ UNCHANGED <<nodes, leaf, namespaces, cache, typeNames, nsMutex, tnMutex,
                 key, depth, ns, got, interrupts>>

(* TypeName.[]: the insertion, under its mutex.                            *)

\* A mutant of LockTypeName: nobody waits.
EnterTypeName(t) ==
  /\ pc[t] = "tnLock"
  /\ tnMutex' = t
  /\ Goto(t, "tnOuter")
  /\ UNCHANGED <<nodes, leaf, namespaces, cache, typeNames, nsMutex,
                 key, depth, ns, got, interrupts>>

LockTypeName(t) ==
  /\ pc[t] = "tnLock" /\ tnMutex = None
  /\ tnMutex' = t
  /\ Goto(t, "tnOuter")
  /\ UNCHANGED <<nodes, leaf, namespaces, cache, typeNames, nsMutex,
                 key, depth, ns, got, interrupts>>

\* inner = (@intern_cache[ns] ||= {}), the read.
CheckOuter(t) ==
  /\ pc[t] = "tnOuter"
  /\ Goto(t, IF ns[t] \in DOMAIN cache THEN "tnInner" ELSE "tnTable")
  /\ UNCHANGED <<nodes, leaf, namespaces, cache, typeNames, nsMutex, tnMutex,
                 key, depth, ns, got, interrupts>>

\* @intern_cache[ns] = {}
NewTable(t) ==
  /\ pc[t] = "tnTable"
  /\ cache' = [o \in DOMAIN cache \cup {ns[t]} |-> IF o = ns[t] THEN NoNames ELSE cache[o]]
  /\ Goto(t, "tnInner")
  /\ UNCHANGED <<nodes, leaf, namespaces, typeNames, nsMutex, tnMutex,
                 key, depth, ns, got, interrupts>>

\* A mutant of CheckInner: `=` for `||=`, a faster thread's object is replaced.
CheckInnerInVain(t) ==
  /\ pc[t] = "tnInner"
  /\ Goto(t, "tnNew")
  /\ UNCHANGED <<nodes, leaf, namespaces, cache, typeNames, nsMutex, tnMutex,
                 key, depth, ns, got, interrupts>>

\* inner[name] ||= new(...), the read.
CheckInner(t) ==
  /\ pc[t] = "tnInner"
  /\ Goto(t, IF cache[ns[t]][key[t].name] = NIL THEN "tnNew" ELSE "tnUnlock")
  /\ UNCHANGED <<nodes, leaf, namespaces, cache, typeNames, nsMutex, tnMutex,
                 key, depth, ns, got, interrupts>>

\* inner[name] = new(...)
NewTypeName(t) ==
  /\ pc[t] = "tnNew"
  /\ typeNames' = Append(typeNames, [ns |-> ns[t], name |-> key[t].name])
  /\ cache' = [cache EXCEPT ![ns[t]][key[t].name] = Len(typeNames) + 1]
  /\ Goto(t, "tnUnlock")
  /\ UNCHANGED <<nodes, leaf, namespaces, nsMutex, tnMutex, key, depth, ns, got, interrupts>>

\* The block's value is returned, and the mutex released.
UnlockTypeName(t) ==
  /\ pc[t] = "tnUnlock"
  /\ got' = [got EXCEPT ![key[t]] = @ \cup {cache[ns[t]][key[t].name]}]
  /\ tnMutex' = None
  /\ Leave(t)
  /\ UNCHANGED <<nodes, leaf, namespaces, cache, typeNames, nsMutex, interrupts>>

-----------------------------------------------------------------------------

\* A mutant of Interrupt: the mutex is not released.
InterruptHoldingMutex(t) ==
  /\ pc[t] # "idle" /\ interrupts < MaxInterrupts
  /\ interrupts' = interrupts + 1
  /\ Leave(t)
  /\ UNCHANGED <<nodes, leaf, namespaces, cache, typeNames, nsMutex, tnMutex, got>>

\* An exception thrown into the thread: it leaves TypeName.[], and synchronize
\* releases the mutex it holds.
Interrupt(t) ==
  /\ pc[t] # "idle" /\ interrupts < MaxInterrupts
  /\ interrupts' = interrupts + 1
  /\ nsMutex' = IF nsMutex = t THEN None ELSE nsMutex
  /\ tnMutex' = IF tnMutex = t THEN None ELSE tnMutex
  /\ Leave(t)
  /\ UNCHANGED <<nodes, leaf, namespaces, cache, typeNames, got>>

\* The steps of a thread whose call is running.
Step(t) ==
  \/ Descend(t) \/ MissNamespace(t) \/ HitNamespace(t)
  \/ LockNamespace(t) \/ KeepNode(t) \/ MissNode(t) \/ NewNode(t)
  \/ KeepLeaf(t) \/ MissLeaf(t) \/ NewLeaf(t)
  \/ ReadOuter(t) \/ HitTypeName(t) \/ MissTypeName(t)
  \/ LockTypeName(t) \/ CheckOuter(t) \/ NewTable(t) \/ CheckInner(t) \/ NewTypeName(t)
  \/ UnlockTypeName(t)

Next == \E t \in Thread : (\E k \in Key : Call(t, k)) \/ Step(t) \/ Interrupt(t)

Spec == Init /\ [][Next]_vars

\* Every thread is scheduled; a mutex somebody waits for need not be handed to
\* that thread while it is contended (WF, not SF).
FairSpec == Spec /\ \A t \in Thread : WF_vars(Step(t))

-----------------------------------------------------------------------------

TypeOK ==
  /\ nodes \subseteq NsKey
  /\ leaf \in [NsKey -> Nat]
  /\ namespaces \in Seq(NsKey)
  /\ DOMAIN cache \subseteq DOMAIN namespaces
  /\ cache \in [DOMAIN cache -> [Name -> Nat]]
  /\ typeNames \in Seq([ns : Nat, name : Name])
  /\ nsMutex \in Thread \cup {None}
  /\ tnMutex \in Thread \cup {None}
  /\ pc \in [Thread -> {"idle", "walk", "nsLock", "nsInsert", "nsNode", "nsLeaf", "outer", "inner",
                        "tnLock", "tnOuter", "tnTable", "tnInner", "tnNew", "tnUnlock"}]
  /\ key \in [Thread -> Key]
  /\ depth \in [Thread -> Nat]
  /\ ns \in [Thread -> Nat]
  /\ got \in [Key -> SUBSET Nat]
  /\ interrupts \in 0..MaxInterrupts

\* Equal requests have the very same TypeName, and unequal ones different ones.
OneObjectPerRequest ==
  \A j, k \in Key : \A o \in got[j], p \in got[k] : j = k <=> o = p

\* Two Namespaces are never of one key.
OneObjectPerNamespace ==
  \A o, p \in DOMAIN namespaces : namespaces[o] = namespaces[p] => o = p

\* Equal requests get the very same object, whatever the threads do between a
\* miss and the lock, and unequal ones different objects.  TypeName#== and
\* Namespace-keyed Hashes with compare_by_identity rely on it (type_name.rb:32):
\* @intern_cache compares its keys by identity, and would hold a type name under
\* two keys if Namespace.[] ever made two objects for one.
Canonical == OneObjectPerRequest /\ OneObjectPerNamespace

\* The object returned for a key is one that was made for that key.
ReturnsWhatWasAskedFor ==
  \A k \in Key : \A o \in got[k] :
     /\ o \in DOMAIN typeNames
     /\ typeNames[o].name = k.name
     /\ namespaces[typeNames[o].ns] = NsOf(k)

\* Every request is answered or interrupted, under weak fairness of the threads
\* alone: a key is missed only until it is in the cache, so no thread can be kept
\* from a mutex forever.
RequestsReturn == \A t \in Thread : pc[t] # "idle" ~> pc[t] = "idle"

-----------------------------------------------------------------------------
(* The two caches as one table of canonical objects.                       *)

table ==
  [k \in Key |-> IF leaf[NsOf(k)] \in DOMAIN cache THEN cache[leaf[NsOf(k)]][k.name]
                                                   ELSE NIL]

Abstract == INSTANCE Flyweight WITH Object <- Nat

ImplementsFlyweight == Abstract!Spec
=============================================================================
