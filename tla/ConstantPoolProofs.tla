------------------------- MODULE ConstantPoolProofs -------------------------
(***************************************************************************)
(* Proofs about ConstantPool, for any texts, hashes and capacities.  Why a *)
(* text never gets two ids: every constant lies in the table at the end of *)
(* an unbroken run of taken buckets that starts at its home slot (Chain).  *)
(* The insertion has walked the run from the same home slot to the first   *)
(* free bucket without meeting its text (ProbeInv); a constant with that   *)
(* text would have to lie beyond the free bucket, and its run would not be *)
(* unbroken.  A resize rebuilds the runs bucket by bucket (ResizeInv).     *)
(***************************************************************************)
EXTENDS ConstantPool, TLAPS

-----------------------------------------------------------------------------
(* The inductive invariant.                                                *)

Bucket == [id : Nat, type : BucketType, hash : Nat]

Taken(table, i) == table[i].id # UNSET

\* The slots that linear probing visits on its way from the slot h to the slot j.
Run(h, j, cap) == IF h <= j THEN h..(j - 1) ELSE (h..(cap - 1)) \cup (0..(j - 1))

\* No free bucket lies between a constant and its home slot.
Chain(table, cap) ==
  \A i \in Slots(cap) : Taken(table, i) =>
    \A k \in Run(Home(table[i].hash, cap), i, cap) : Taken(table, k)

\* Buckets and constants are in bijection, and a bucket has its constant's hash.
TableInv ==
  /\ \A i \in Slots(capacity) : Taken(buckets, i) =>
       /\ buckets[i].id \in DOMAIN constants
       /\ buckets[i].hash = Hash[TextAt(constants[buckets[i].id])]
       /\ buckets[i].type = "owned" <=> constants[buckets[i].id] \in Block
  /\ \A i, j \in Slots(capacity) :
       Taken(buckets, i) /\ buckets[i].id = buckets[j].id => i = j
  /\ \A id \in DOMAIN constants : \E i \in Slots(capacity) : buckets[i].id = id
  /\ Chain(buckets, capacity)

\* Every constant has a text, its own, and a block belongs to one constant.
ConstantInv ==
  /\ \A id \in DOMAIN constants : TextAt(constants[id]) \in Text
  /\ \A i, j \in DOMAIN constants : constants[i] \in Block /\ constants[i] = constants[j] => i = j
  /\ OneIdPerText

\* The block that an insertion brings is allocated, and not in the pool.
CallInv ==
  pc \in {"grow", "rehash", "place", "probe", "find"} =>
    /\ TextAt(call.start) \in Text
    /\ call.type = "owned" <=> call.start \in Block
    /\ call.start \in Block => \A id \in DOMAIN constants : constants[id] # call.start

\* The probing loops have met taken buckets with other texts only.
ProbeInv ==
  pc \in {"probe", "find"} =>
    \A k \in Run(Home(Hash[TextAt(call.start)], capacity), index, capacity) :
      Taken(buckets, k) /\ ~Holds(k)

\* The new table holds the buckets before `scan`, each once.
ResizeInv ==
  pc \in {"rehash", "place"} =>
    /\ next \in [Slots(capacity * 2) -> Bucket]
    /\ \A j \in Slots(capacity * 2) : Taken(next, j) =>
         \E k \in 0..(scan - 1) : Taken(buckets, k) /\ next[j] = buckets[k]
    /\ \A k \in 0..(scan - 1) : Taken(buckets, k) =>
         \E j \in Slots(capacity * 2) : next[j] = buckets[k]
    /\ \A i, j \in Slots(capacity * 2) : Taken(next, i) /\ next[i].id = next[j].id => i = j
    /\ Chain(next, capacity * 2)

PlaceInv ==
  pc = "place" =>
    /\ scan < capacity /\ Taken(buckets, scan)
    /\ \A k \in Run(Home(buckets[scan].hash, capacity * 2), index, capacity * 2) : Taken(next, k)

IInv ==
  /\ TypeOK
  /\ TableInv
  /\ ConstantInv
  /\ CallInv
  /\ ProbeInv
  /\ ResizeInv
  /\ PlaceInv

-----------------------------------------------------------------------------
(* Linear probing in a cyclic table.                                       *)

\* hash & mask is a slot.
LEMMA HomeIsSlot ==
  ASSUME NEW h \in Nat, NEW cap \in Nat \ {0}
  PROVE  Home(h, cap) \in Slots(cap)
  BY DEF Home, Slots

\* (index + 1) & mask is the next slot, or the first after the last.
LEMMA FollowingIsNext ==
  ASSUME NEW cap \in Nat \ {0}, NEW i \in Slots(cap)
  PROVE  /\ Following(i, cap) \in Slots(cap)
         /\ Following(i, cap) = IF i + 1 = cap THEN 0 ELSE i + 1
<1>1. i + 1 \in Nat /\ i + 1 <= cap
  BY DEF Slots
<1>2. CASE i + 1 = cap
  <2>1. cap % cap = 0
    BY Z3
  <2> QED
    BY <1>1, <1>2, <2>1 DEF Following, Slots
<1>3. CASE i + 1 < cap
  <2>1. (i + 1) % cap = i + 1
    BY <1>1, <1>3, Z3
  <2> QED
    BY <1>1, <1>3, <2>1 DEF Following, Slots
<1> QED
  BY <1>1, <1>2, <1>3

\* A run is made of slots, and is empty at its start.
LEMMA RunIsSlots ==
  ASSUME NEW cap \in Nat \ {0}, NEW h \in Slots(cap), NEW j \in Slots(cap)
  PROVE  Run(h, j, cap) \subseteq Slots(cap) /\ Run(h, h, cap) = {}
  BY DEF Slots, Run

\* A turn of a probing loop adds the slot it leaves to the run.
LEMMA RunGrows ==
  ASSUME NEW cap \in Nat \ {0}, NEW h \in Slots(cap), NEW i \in Slots(cap),
         NEW k \in Run(h, Following(i, cap), cap)
  PROVE  k \in Run(h, i, cap) \/ k = i
<1>1. CASE i + 1 = cap
  BY <1>1, FollowingIsNext DEF Slots, Run
<1>2. CASE i + 1 # cap
  BY <1>2, FollowingIsNext DEF Slots, Run
<1> QED
  BY <1>1, <1>2

\* Of two slots one is met before the other.
LEMMA RunsAreOrdered ==
  ASSUME NEW cap \in Nat \ {0}, NEW h \in Slots(cap), NEW i \in Slots(cap), NEW j \in Slots(cap),
         i # j
  PROVE  j \in Run(h, i, cap) \/ i \in Run(h, j, cap)
  BY DEF Slots, Run

-----------------------------------------------------------------------------
(* What the invariant gives the actions.                                   *)

\* The parts of TypeOK, and the hash of the text a call is about.
LEMMA Typed ==
  ASSUME TypeOK
  PROVE  /\ capacity \in Nat \ {0} /\ capacity * 2 \in Nat \ {0}
         /\ buckets \in [Slots(capacity) -> Bucket]
         /\ \A i \in Slots(capacity) : buckets[i].id \in Nat /\ buckets[i].hash \in Nat
         /\ constants \in Seq(Text \cup Block)
         /\ heap \in [Block -> Text \cup {Freed}]
         /\ call \in [start : Text \cup Block, type : BucketType]
         /\ scan \in 0..capacity
         /\ TextAt(call.start) \in Text => Hash[TextAt(call.start)] \in Nat
<1>1. capacity \in Nat \ {0} => capacity * 2 \in Nat \ {0}
  OBVIOUS
<1> QED
  BY <1>1, HashAssumption DEF TypeOK, Bucket

\* The invariants of the table hold as long as the table, the constants and what they
\* point to stay.
LEMMA SameTable ==
  ASSUME TableInv, ConstantInv,
         UNCHANGED <<buckets, capacity, constants>>,
         \A id \in DOMAIN constants : TextAt(constants[id])' = TextAt(constants[id])
  PROVE  TableInv' /\ ConstantInv'
  BY DEF TableInv, ConstantInv, OneIdPerText, Chain, Taken

\* An empty table satisfies them.
LEMMA EmptyTableInv ==
  ASSUME buckets = EmptyTable(capacity), constants = <<>>
  PROVE  TableInv /\ ConstantInv
  BY DEF TableInv, ConstantInv, OneIdPerText, Chain, Taken, EmptyTable, EmptyBucket

\* rbs_constant_pool_init establishes the invariant.
LEMMA InitEstablishes == Init => IInv
<1> SUFFICES ASSUME Init PROVE IInv
  OBVIOUS
<1>1. TypeOK
  <2>1. EmptyTable(InitialCapacity) \in [Slots(InitialCapacity) -> [id : Nat, type : BucketType, hash : Nat]]
    BY DEF EmptyTable, EmptyBucket, BucketType, UNSET
  <2>2. Idle \in [start : Text \cup Block, type : BucketType]
    BY TextAssumption DEF Idle, BucketType
  <2>3. answer \in [text : Text \cup {{}}, id : Nat]
    BY DEF Init, UNSET
  <2> QED
    BY <2>1, <2>2, <2>3, CapacityAssumption DEF Init, TypeOK, Slots
<1>2. TableInv /\ ConstantInv
  BY EmptyTableInv DEF Init
<1>3. pc = "idle"
  BY DEF Init
<1> QED
  BY <1>1, <1>2, <1>3 DEF IInv, CallInv, ProbeInv, ResizeInv, PlaceInv

-----------------------------------------------------------------------------
(* One lemma per action, or per group of actions that change as little.    *)

\* The calls start.
LEMMA CallingPreserves ==
  ASSUME IInv, Calling
  PROVE  IInv'
<1> USE DEF IInv
<1>1. PICK t \in Text : InsertShared(t) \/ InsertConstant(t) \/ InsertOwned(t) \/ Find(t)
  BY DEF Calling
<1>2. t \notin Block /\ TextAt(t) = t
  BY MemoryAssumption DEF TextAt
<1>3. CASE InsertShared(t) \/ InsertConstant(t)
  <2>1. /\ pc = "idle" /\ pc' = "grow" /\ heap' = heap
        /\ call' = [start |-> t, type |-> call'.type] /\ call'.type \in {"default", "constant"}
        /\ UNCHANGED <<buckets, capacity, constants, next, scan, index, answer>>
    BY <1>3 DEF InsertShared, InsertConstant, Insert
  <2>2. TypeOK'
    BY <2>1 DEF TypeOK, BucketType
  <2>3. TableInv' /\ ConstantInv'
    BY <2>1, SameTable DEF TextAt
  <2>4. CallInv'
    BY <1>2, <2>1 DEF CallInv, TextAt
  <2> QED
    BY <2>1, <2>2, <2>3, <2>4 DEF ProbeInv, ResizeInv, PlaceInv
<1>4. CASE InsertOwned(t)
  <2>1. PICK b \in Block :
          /\ heap[b] = Freed /\ heap' = [heap EXCEPT ![b] = t]
          /\ pc = "idle" /\ pc' = "grow"
          /\ call' = [start |-> b, type |-> "owned"]
          /\ UNCHANGED <<buckets, capacity, constants, next, scan, index, answer>>
    BY <1>4 DEF InsertOwned, Insert
  <2>2. TypeOK'
    BY <2>1 DEF TypeOK, BucketType
  <2>3. \A id \in DOMAIN constants : constants[id] # b
    BY <2>1, MemoryAssumption DEF ConstantInv, TextAt
  <2>4. \A id \in DOMAIN constants : TextAt(constants[id])' = TextAt(constants[id])
    BY <2>1, <2>3 DEF TypeOK, TextAt
  <2>5. TableInv' /\ ConstantInv'
    BY <2>1, <2>4, SameTable
  <2>6. TextAt(b)' = t
    BY <2>1 DEF TypeOK, TextAt
  <2>7. CallInv'
    BY <2>1, <2>3, <2>6 DEF CallInv
  <2> QED
    BY <2>1, <2>2, <2>5, <2>7 DEF ProbeInv, ResizeInv, PlaceInv
<1>5. CASE Find(t)
  <2>1. /\ pc = "idle" /\ pc' = "find"
        /\ call' = [start |-> t, type |-> "default"]
        /\ index' = Home(Hash[t], capacity)
        /\ UNCHANGED <<buckets, capacity, constants, heap, next, scan, answer>>
    BY <1>5 DEF Find
  <2>2. capacity \in Nat \ {0} /\ Hash[t] \in Nat
    BY HashAssumption DEF TypeOK
  <2>3. index' \in Slots(capacity)
    BY <2>1, <2>2, HomeIsSlot
  <2>4. TypeOK'
    BY <2>1, <2>3 DEF TypeOK, BucketType
  <2>5. TableInv' /\ ConstantInv'
    BY <2>1, SameTable DEF TextAt
  <2>6. CallInv'
    BY <1>2, <2>1 DEF CallInv, TextAt
  <2>7. TextAt(call.start)' = t
    BY <1>2, <2>1 DEF TextAt
  <2>8. Run(Home(Hash[t], capacity), index', capacity) = {}
    BY <2>1, <2>2, HomeIsSlot, RunIsSlots
  <2>9. ProbeInv'
    BY <2>1, <2>7, <2>8 DEF ProbeInv
  <2> QED
    BY <2>1, <2>4, <2>5, <2>6, <2>9 DEF ResizeInv, PlaceInv
<1> QED
  BY <1>1, <1>3, <1>4, <1>5

\* A call returns and has changed nothing.
LEMMA ReturningPreserves ==
  ASSUME IInv, ResizeFails \/ ReuseShared \/ Found \/ NotFound
  PROVE  IInv'
<1> USE DEF IInv
<1>1. PICK id : /\ pc \in {"grow", "probe", "find"} /\ pc' = "idle"
                /\ answer' = [text |-> TextAt(call.start), id |-> id] /\ id \in Nat
                /\ call' = Idle /\ scan' = 0 /\ index' = 0
                /\ UNCHANGED <<buckets, capacity, constants, heap, next>>
  <2>1. UNSET \in Nat
    BY DEF UNSET
  <2>2. index \in Slots(capacity) \/ pc = "grow"
    BY DEF TypeOK, ReuseShared, Found, NotFound, ResizeFails
  <2>3. index \in Slots(capacity) => buckets[index].id \in Nat
    BY Typed
  <2>4. CASE ResizeFails
    BY <2>1, <2>4 DEF ResizeFails, Return
  <2>5. CASE ReuseShared
    BY <2>2, <2>3, <2>5 DEF ReuseShared, Return
  <2>6. CASE Found
    BY <2>2, <2>3, <2>6 DEF Found, Return
  <2>7. CASE NotFound
    BY <2>1, <2>7 DEF NotFound, Return
  <2> QED
    BY <2>4, <2>5, <2>6, <2>7
<1>2. TextAt(call.start) \in Text
  BY <1>1 DEF CallInv
<1>3. Idle \in [start : Text \cup Block, type : BucketType]
  BY TextAssumption DEF Idle, BucketType
<1>4. TypeOK'
  <2>1. capacity \in Nat \ {0}
    BY Typed
  <2> QED
    BY <1>1, <1>2, <1>3, <2>1 DEF TypeOK, Slots
<1>5. TableInv' /\ ConstantInv'
  BY <1>1, SameTable DEF TextAt
<1> QED
  BY <1>1, <1>4, <1>5 DEF CallInv, ProbeInv, ResizeInv, PlaceInv

\* The table is large enough: probing starts, with nothing met yet.
LEMMA SkipResizePreserves ==
  ASSUME IInv, SkipResize
  PROVE  IInv'
<1> USE DEF IInv
<1> DEFINE home == Home(Hash[TextAt(call.start)], capacity)
<1>1. /\ pc = "grow" /\ pc' = "probe" /\ index' = home
      /\ UNCHANGED <<buckets, capacity, constants, heap, next, call, scan, answer>>
  BY DEF SkipResize, EnterProbe
<1>2. home \in Slots(capacity) /\ capacity \in Nat \ {0}
  BY <1>1, Typed, HomeIsSlot DEF CallInv
<1>3. TypeOK'
  BY <1>1, <1>2 DEF TypeOK
<1>4. TableInv' /\ ConstantInv'
  BY <1>1, SameTable DEF TextAt
<1>5. CallInv'
  BY <1>1 DEF CallInv, TextAt
<1>6. ProbeInv'
  <2>1. Run(home, home, capacity) = {}
    BY <1>2, RunIsSlots
  <2> QED
    BY <1>1, <2>1 DEF ProbeInv, TextAt
<1> QED
  BY <1>1, <1>3, <1>4, <1>5, <1>6 DEF ResizeInv, PlaceInv

\* A turn of a probing loop: the slot it leaves is taken by another text.
LEMMA ProbeTakenPreserves ==
  ASSUME IInv, ProbeTaken
  PROVE  IInv'
<1> USE DEF IInv
<1> DEFINE home == Home(Hash[TextAt(call.start)], capacity)
<1>1. /\ pc \in {"probe", "find"} /\ index' = Following(index, capacity)
      /\ Taken(buckets, index) /\ ~Holds(index)
      /\ UNCHANGED <<buckets, capacity, constants, heap, next, pc, call, scan, answer>>
  BY DEF ProbeTaken, Taken
<1>2. /\ home \in Slots(capacity) /\ index \in Slots(capacity) /\ capacity \in Nat \ {0}
  BY <1>1, Typed, HomeIsSlot DEF CallInv, TypeOK
<1>3. TypeOK'
  BY <1>1, <1>2, FollowingIsNext DEF TypeOK
<1>4. TableInv' /\ ConstantInv'
  BY <1>1, SameTable DEF TextAt
<1>5. CallInv'
  BY <1>1 DEF CallInv, TextAt
<1>6. ASSUME NEW k \in Run(home, index', capacity)
      PROVE  Taken(buckets, k) /\ ~Holds(k)
  <2>1. k \in Run(home, index, capacity) \/ k = index
    BY <1>1, <1>2, <1>6, RunGrows
  <2> QED
    BY <1>1, <2>1 DEF ProbeInv
<1>7. ProbeInv'
  BY <1>1, <1>6 DEF ProbeInv, Holds, Taken, TextAt
<1> QED
  BY <1>1, <1>3, <1>4, <1>5, <1>7 DEF ResizeInv, PlaceInv

\* The resize starts with an empty table.
LEMMA StartResizePreserves ==
  ASSUME IInv, StartResize
  PROVE  IInv'
<1> USE DEF IInv
<1>1. /\ pc = "grow" /\ pc' = "rehash" /\ next' = EmptyTable(capacity * 2) /\ scan' = 0
      /\ UNCHANGED <<buckets, capacity, constants, heap, call, index, answer>>
  BY DEF StartResize
<1>2. capacity \in Nat \ {0}
  BY Typed
<1>3. TypeOK'
  BY <1>1, <1>2 DEF TypeOK
<1>4. TableInv' /\ ConstantInv'
  BY <1>1, SameTable DEF TextAt
<1>5. CallInv'
  BY <1>1 DEF CallInv, TextAt
<1>6. ResizeInv'
  <2>1. next' \in [Slots(capacity * 2) -> Bucket]
    BY <1>1 DEF EmptyTable, EmptyBucket, Bucket, BucketType, UNSET
  <2>2. \A j \in Slots(capacity * 2) : ~Taken(next', j)
    BY <1>1 DEF EmptyTable, EmptyBucket, Taken
  <2>3. 0..(scan' - 1) = {}
    BY <1>1
  <2> QED
    BY <1>1, <2>1, <2>2, <2>3 DEF ResizeInv, Chain
<1> QED
  BY <1>1, <1>3, <1>4, <1>5, <1>6 DEF ProbeInv, PlaceInv

\* A free bucket of the old table needs no place.
LEMMA RehashSkipPreserves ==
  ASSUME IInv, RehashSkip
  PROVE  IInv'
<1> USE DEF IInv
<1>1. /\ pc = "rehash" /\ scan < capacity /\ ~Taken(buckets, scan) /\ scan' = scan + 1
      /\ UNCHANGED <<buckets, capacity, constants, heap, next, pc, call, index, answer>>
  BY DEF RehashSkip, Taken
<1>2. capacity \in Nat \ {0} /\ scan \in 0..capacity
  BY Typed
<1>3. TypeOK'
  BY <1>1, <1>2 DEF TypeOK
<1>4. TableInv' /\ ConstantInv'
  BY <1>1, SameTable DEF TextAt
<1>5. CallInv'
  BY <1>1 DEF CallInv, TextAt
<1>6. \A k \in 0..(scan' - 1) : k \in 0..(scan - 1) \/ k = scan
  BY <1>1, <1>2
<1>7. 0..(scan - 1) \subseteq 0..(scan' - 1)
  BY <1>1, <1>2
<1>8. ResizeInv'
  <2>1. \A j \in Slots(capacity * 2) : Taken(next, j) =>
           \E k \in 0..(scan' - 1) : Taken(buckets, k) /\ next[j] = buckets[k]
    BY <1>1, <1>7 DEF ResizeInv
  <2>2. \A k \in 0..(scan' - 1) : Taken(buckets, k) =>
           \E j \in Slots(capacity * 2) : next[j] = buckets[k]
    BY <1>1, <1>6 DEF ResizeInv
  <2> QED
    BY <1>1, <2>1, <2>2 DEF ResizeInv, Taken, Chain
<1> QED
  BY <1>1, <1>3, <1>4, <1>5, <1>8 DEF ProbeInv, PlaceInv

\* The search for a place starts at the constant's home slot in the new table.
LEMMA RehashBucketPreserves ==
  ASSUME IInv, RehashBucket
  PROVE  IInv'
<1> USE DEF IInv
<1> DEFINE home == Home(buckets[scan].hash, capacity * 2)
<1>1. /\ pc = "rehash" /\ scan < capacity /\ Taken(buckets, scan) /\ index' = home
      /\ pc' = "place"
      /\ UNCHANGED <<buckets, capacity, constants, heap, next, call, scan, answer>>
  BY DEF RehashBucket, Taken
<1>2. /\ capacity \in Nat \ {0} /\ scan \in Slots(capacity) /\ home \in Slots(capacity * 2)
      /\ capacity * 2 \in Nat \ {0}
  <2>1. /\ capacity \in Nat \ {0} /\ capacity * 2 \in Nat \ {0} /\ scan \in 0..capacity
    BY Typed
  <2>2. scan \in Slots(capacity)
    BY <1>1, <2>1 DEF Slots
  <2> QED
    BY <2>1, <2>2, Typed, HomeIsSlot
<1>3. TypeOK'
  BY <1>1, <1>2 DEF TypeOK
<1>4. TableInv' /\ ConstantInv'
  BY <1>1, SameTable DEF TextAt
<1>5. CallInv'
  BY <1>1 DEF CallInv, TextAt
<1>6. ResizeInv'
  BY <1>1 DEF ResizeInv, Taken, Chain
<1>7. PlaceInv'
  <2>1. Run(home, home, capacity * 2) = {}
    BY <1>2, RunIsSlots
  <2> QED
    BY <1>1, <2>1 DEF PlaceInv, Taken
<1> QED
  BY <1>1, <1>3, <1>4, <1>5, <1>6, <1>7 DEF ProbeInv

\* A turn of the loop that looks for a place.
LEMMA PlaceTakenPreserves ==
  ASSUME IInv, PlaceTaken
  PROVE  IInv'
<1> USE DEF IInv
<1> DEFINE cap == capacity * 2
           home == Home(buckets[scan].hash, cap)
<1>1. /\ pc = "place" /\ Taken(next, index) /\ index' = Following(index, cap)
      /\ UNCHANGED <<buckets, capacity, constants, heap, next, pc, call, scan, answer>>
  BY DEF PlaceTaken, Taken
<1>2. /\ capacity \in Nat \ {0} /\ cap \in Nat \ {0} /\ index \in Slots(cap) /\ scan \in Slots(capacity)
  <2>1. /\ capacity \in Nat \ {0} /\ capacity * 2 \in Nat \ {0} /\ scan \in 0..capacity
    BY Typed
  <2>2. scan \in Slots(capacity)
    BY <1>1, <2>1 DEF Slots, PlaceInv
  <2> QED
    BY <1>1, <2>1, <2>2 DEF TypeOK
<1>3. home \in Slots(cap)
  BY <1>2, Typed, HomeIsSlot
<1>4. TypeOK'
  BY <1>1, <1>2, FollowingIsNext DEF TypeOK
<1>5. TableInv' /\ ConstantInv'
  BY <1>1, SameTable DEF TextAt
<1>6. CallInv'
  BY <1>1 DEF CallInv, TextAt
<1>7. ResizeInv'
  BY <1>1 DEF ResizeInv, Taken, Chain
<1>8. ASSUME NEW k \in Run(home, index', cap) PROVE Taken(next, k)
  <2>1. k \in Run(home, index, cap) \/ k = index
    BY <1>1, <1>2, <1>3, <1>8, RunGrows
  <2> QED
    BY <1>1, <2>1 DEF PlaceInv
<1>9. PlaceInv'
  BY <1>1, <1>8 DEF PlaceInv, Taken
<1> QED
  BY <1>1, <1>4, <1>5, <1>6, <1>7, <1>9 DEF ProbeInv

\* The bucket is put at the end of the run from its home slot.
LEMMA PlaceFreePreserves ==
  ASSUME IInv, PlaceFree
  PROVE  IInv'
<1> USE DEF IInv
<1> DEFINE cap == capacity * 2
           home == Home(buckets[scan].hash, cap)
<1>1. /\ pc = "place" /\ pc' = "rehash" /\ ~Taken(next, index)
      /\ next' = [next EXCEPT ![index] = buckets[scan]]
      /\ scan' = scan + 1 /\ index' = 0
      /\ UNCHANGED <<buckets, capacity, constants, heap, call, answer>>
  BY DEF PlaceFree, Taken
<1>2. /\ capacity \in Nat \ {0} /\ cap \in Nat \ {0} /\ index \in Slots(cap)
      /\ scan \in Slots(capacity) /\ scan \in Nat
  <2>1. /\ capacity \in Nat \ {0} /\ capacity * 2 \in Nat \ {0} /\ scan \in 0..capacity
    BY Typed
  <2>2. scan \in Slots(capacity)
    BY <1>1, <2>1 DEF Slots, PlaceInv
  <2> QED
    BY <1>1, <2>1, <2>2 DEF TypeOK
<1>3. TypeOK'
  BY <1>1, <1>2 DEF TypeOK, Slots
<1>4. TableInv' /\ ConstantInv'
  BY <1>1, SameTable DEF TextAt
<1>5. CallInv'
  BY <1>1 DEF CallInv, TextAt
<1>6. /\ next \in [Slots(cap) -> Bucket] /\ Taken(buckets, scan) /\ buckets[scan] \in Bucket
      /\ \A i \in Slots(cap) : next'[i] = IF i = index THEN buckets[scan] ELSE next[i]
  BY <1>1, <1>2, Typed DEF ResizeInv, PlaceInv
<1>7. /\ \A k \in 0..(scan' - 1) : k \in 0..(scan - 1) \/ k = scan
      /\ scan \in 0..(scan' - 1) /\ 0..(scan - 1) \subseteq 0..(scan' - 1)
      /\ 0..(scan - 1) \subseteq Slots(capacity) /\ scan \notin 0..(scan - 1)
  BY <1>1, <1>2 DEF Slots
<1>8. Taken(next', index) /\ \A i \in Slots(cap) : Taken(next, i) => Taken(next', i) /\ i # index
  BY <1>1, <1>2, <1>6 DEF Taken
<1>9. next' \in [Slots(cap) -> Bucket]
  BY <1>1, <1>6
<1>10. \A j \in Slots(cap) : Taken(next', j) =>
          \E k \in 0..(scan' - 1) : Taken(buckets, k) /\ next'[j] = buckets[k]
  <2> SUFFICES ASSUME NEW j \in Slots(cap), Taken(next', j)
               PROVE  \E k \in 0..(scan' - 1) : Taken(buckets, k) /\ next'[j] = buckets[k]
    OBVIOUS
  <2>1. CASE j = index
    BY <1>6, <1>7, <2>1
  <2>2. CASE j # index
    <3>1. next'[j] = next[j] /\ Taken(next, j)
      BY <1>6, <2>2 DEF Taken
    <3> QED
      BY <1>1, <1>7, <3>1 DEF ResizeInv
  <2> QED
    BY <2>1, <2>2
<1>11. \A k \in 0..(scan' - 1) : Taken(buckets, k) => \E j \in Slots(cap) : next'[j] = buckets[k]
  <2> SUFFICES ASSUME NEW k \in 0..(scan' - 1), Taken(buckets, k)
               PROVE  \E j \in Slots(cap) : next'[j] = buckets[k]
    OBVIOUS
  <2>1. CASE k = scan
    BY <1>2, <1>6, <2>1
  <2>2. CASE k \in 0..(scan - 1)
    <3>1. PICK j \in Slots(cap) : next[j] = buckets[k]
      BY <1>1, <2>2 DEF ResizeInv
    <3>2. Taken(next, j)
      BY <3>1 DEF Taken
    <3> QED
      BY <1>6, <1>8, <3>1, <3>2
  <2> QED
    BY <1>7, <2>1, <2>2
<1>12. \A j \in Slots(cap) : Taken(next, j) => next[j].id # buckets[scan].id
  <2> SUFFICES ASSUME NEW j \in Slots(cap), Taken(next, j), next[j].id = buckets[scan].id
               PROVE  FALSE
    OBVIOUS
  <2>1. PICK k \in 0..(scan - 1) : Taken(buckets, k) /\ next[j] = buckets[k]
    BY <1>1 DEF ResizeInv
  <2>2. k = scan
    BY <1>2, <1>7, <2>1 DEF TableInv
  <2> QED
    BY <1>7, <2>2
<1>13. \A i, j \in Slots(cap) : Taken(next', i) /\ next'[i].id = next'[j].id => i = j
  <2> SUFFICES ASSUME NEW i \in Slots(cap), NEW j \in Slots(cap), Taken(next', i),
                      next'[i].id = next'[j].id, i # j
               PROVE  FALSE
    OBVIOUS
  <2>1. Taken(next', j)
    BY DEF Taken
  <2>2. CASE i = index
    BY <1>6, <1>12, <2>1, <2>2 DEF Taken
  <2>3. CASE j = index
    BY <1>6, <1>12, <2>3 DEF Taken
  <2>4. CASE i # index /\ j # index
    BY <1>1, <1>6, <2>4 DEF ResizeInv, Taken
  <2> QED
    BY <2>2, <2>3, <2>4
<1>14. Chain(next', cap)
  <2> SUFFICES ASSUME NEW i \in Slots(cap), Taken(next', i),
                      NEW k \in Run(Home(next'[i].hash, cap), i, cap)
               PROVE  Taken(next', k)
    BY DEF Chain
  <2>1. next'[i].hash \in Nat
    BY <1>9 DEF Bucket
  <2>2. k \in Slots(cap)
    BY <1>2, <2>1, HomeIsSlot, RunIsSlots
  <2>3. CASE i = index
    <3>1. k \in Run(home, index, cap)
      BY <1>6, <2>3
    <3> QED
      BY <1>1, <1>8, <2>2, <3>1 DEF PlaceInv
  <2>4. CASE i # index
    <3>1. next'[i] = next[i] /\ Taken(next, i)
      BY <1>6, <2>4 DEF Taken
    <3> QED
      BY <1>1, <1>8, <2>2, <3>1 DEF ResizeInv, Chain
  <2> QED
    BY <2>3, <2>4
<1>15. ResizeInv'
  <2>1. capacity' = capacity /\ buckets' = buckets
    BY <1>1
  <2> HIDE DEF IInv
  <2> QED
    BY <1>9, <1>10, <1>11, <1>13, <1>14, <2>1 DEF ResizeInv, Taken, Chain
<1> QED
  BY <1>1, <1>3, <1>4, <1>5, <1>15 DEF ProbeInv, PlaceInv

\* The new table takes over: it has every bucket of the old one, and unbroken runs.
LEMMA FinishResizePreserves ==
  ASSUME IInv, FinishResize
  PROVE  IInv'
<1> USE DEF IInv
<1> DEFINE cap == capacity * 2
           home == Home(Hash[TextAt(call.start)], cap)
<1>1. /\ pc = "rehash" /\ scan = capacity /\ buckets' = next /\ capacity' = cap
      /\ scan' = 0 /\ pc' = "probe" /\ index' = home
      /\ UNCHANGED <<constants, heap, call, answer>>
  BY DEF FinishResize, EnterProbe
<1>2. capacity \in Nat \ {0} /\ cap \in Nat \ {0} /\ home \in Slots(cap)
  BY <1>1, Typed, HomeIsSlot DEF CallInv
<1>3. 0..(scan - 1) = Slots(capacity)
  BY <1>1 DEF Slots
<1>4. TypeOK'
  BY <1>1, <1>2 DEF TypeOK, ResizeInv, Bucket
<1>5. ASSUME NEW i \in Slots(cap), Taken(next, i)
      PROVE  /\ next[i].id \in DOMAIN constants
             /\ next[i].hash = Hash[TextAt(constants[next[i].id])]
             /\ next[i].type = "owned" <=> constants[next[i].id] \in Block
  <2>1. PICK k \in Slots(capacity) : Taken(buckets, k) /\ next[i] = buckets[k]
    BY <1>1, <1>3, <1>5 DEF ResizeInv
  <2> QED
    BY <2>1 DEF TableInv
<1>6. ASSUME NEW id \in DOMAIN constants PROVE \E i \in Slots(cap) : next[i].id = id
  <2>1. PICK k \in Slots(capacity) : buckets[k].id = id
    BY DEF TableInv
  <2>2. id # UNSET
    BY DEF TypeOK, UNSET
  <2> QED
    BY <1>1, <1>3, <2>1, <2>2 DEF ResizeInv, Taken
<1>7. TableInv'
  BY <1>1, <1>5, <1>6 DEF TableInv, ResizeInv, Taken, Chain, TextAt
<1>8. ConstantInv'
  BY <1>1 DEF ConstantInv, OneIdPerText, TextAt
<1>9. CallInv'
  BY <1>1 DEF CallInv, TextAt
<1>10. ProbeInv'
  <2>1. Run(home, home, cap) = {}
    BY <1>2, RunIsSlots
  <2> QED
    BY <1>1, <2>1 DEF ProbeInv, TextAt
<1> QED
  BY <1>1, <1>4, <1>7, <1>8, <1>9, <1>10 DEF ResizeInv, PlaceInv

\* The caller's block is freed; no constant lies in it.
LEMMA ReuseForOwnedPreserves ==
  ASSUME IInv, ReuseForOwned
  PROVE  IInv'
<1> USE DEF IInv
<1>1. /\ pc = "probe" /\ pc' = "idle" /\ call.type = "owned" /\ Holds(index)
      /\ heap' = [heap EXCEPT ![call.start] = Freed]
      /\ answer' = [text |-> TextAt(call.start), id |-> buckets[index].id]
      /\ call' = Idle /\ scan' = 0 /\ index' = 0
      /\ UNCHANGED <<buckets, capacity, constants, next>>
  BY DEF ReuseForOwned, Return
<1>2. call.start \in Block /\ TextAt(call.start) \in Text
  BY <1>1 DEF CallInv
<1>3. \A id \in DOMAIN constants : TextAt(constants[id])' = TextAt(constants[id])
  BY <1>1, <1>2 DEF CallInv, TypeOK, TextAt
<1>4. TableInv' /\ ConstantInv'
  BY <1>1, <1>3, SameTable
<1>5. Idle \in [start : Text \cup Block, type : BucketType]
  BY TextAssumption DEF Idle, BucketType
<1>6. buckets[index].id \in Nat /\ 0 \in Slots(capacity)
  BY <1>1, Typed DEF TypeOK, Slots
<1>7. TypeOK'
  BY <1>1, <1>2, <1>5, <1>6 DEF TypeOK
<1> QED
  BY <1>1, <1>4, <1>7 DEF CallInv, ProbeInv, ResizeInv, PlaceInv

\* The constant's block is freed, and the constant points to the caller's memory, which
\* holds the same text.
LEMMA ReplaceOwnedPreserves ==
  ASSUME IInv, ReplaceOwned
  PROVE  IInv'
<1> USE DEF IInv
<1> DEFINE id == buckets[index].id
           block == constants[id]
<1>1. /\ pc = "probe" /\ pc' = "idle" /\ call.type # "owned" /\ buckets[index].type = "owned"
      /\ Taken(buckets, index) /\ TextAt(block) = TextAt(call.start)
      /\ heap' = [heap EXCEPT ![block] = Freed]
      /\ constants' = [constants EXCEPT ![id] = call.start]
      /\ buckets' = [buckets EXCEPT ![index].type = "default"]
      /\ answer' = [text |-> TextAt(call.start), id |-> id]
      /\ call' = Idle /\ scan' = 0 /\ index' = 0
      /\ UNCHANGED <<capacity, next>>
  BY DEF ReplaceOwned, Return, Holds, Taken
<1>2. /\ index \in Slots(capacity) /\ capacity \in Nat \ {0}
      /\ buckets \in [Slots(capacity) -> Bucket] /\ constants \in Seq(Text \cup Block)
  BY <1>1, Typed DEF TypeOK
<1>3. id \in DOMAIN constants /\ block \in Block /\ id \in Nat
  BY <1>1, <1>2 DEF TableInv, Bucket
<1>4. call.start \in Text \cup Block /\ call.start \notin Block /\ TextAt(call.start) \in Text
  BY <1>1, Typed DEF CallInv
<1> HIDE DEF id, block
<1>5. /\ constants' \in Seq(Text \cup Block) /\ DOMAIN constants' = DOMAIN constants
      /\ constants'[id] = call.start
      /\ \A c \in DOMAIN constants : c # id => constants'[c] = constants[c]
  BY <1>1, <1>2, <1>3, <1>4
<1>6. \A c \in DOMAIN constants : c # id => constants[c] # block
  BY <1>3 DEF ConstantInv, block
<1>7. \A c \in DOMAIN constants : TextAt(constants[c])' = TextAt(constants[c])
  <2> SUFFICES ASSUME NEW c \in DOMAIN constants PROVE TextAt(constants[c])' = TextAt(constants[c])
    OBVIOUS
  <2>1. CASE c = id
    BY <1>1, <1>4, <1>5, <2>1 DEF TextAt, block
  <2>2. CASE c # id
    BY <1>1, <1>3, <1>5, <1>6, <2>2 DEF TextAt, TypeOK
  <2> QED
    BY <2>1, <2>2
<1>8. /\ buckets' \in [Slots(capacity) -> Bucket] /\ buckets'[index].type = "default"
      /\ \A i \in Slots(capacity) :
           /\ buckets'[i].id = buckets[i].id
           /\ buckets'[i].hash = buckets[i].hash
           /\ i # index => buckets'[i].type = buckets[i].type
  <2>1. \A b \in Bucket : LET new == [b EXCEPT !.type = "default"]
                         IN  new \in Bucket /\ new.id = b.id /\ new.hash = b.hash /\ new.type = "default"
    BY DEF Bucket, BucketType
  <2>2. \A i \in Slots(capacity) :
           buckets'[i] = IF i = index THEN [buckets[i] EXCEPT !.type = "default"] ELSE buckets[i]
    BY <1>1, <1>2
  <2>3. \A i \in Slots(capacity) : buckets[i] \in Bucket
    BY <1>2
  <2>4. buckets' = [i \in Slots(capacity) |-> buckets'[i]]
    BY <1>1, <1>2
  <2>5. \A i \in Slots(capacity) : buckets'[i] \in Bucket
    BY <2>1, <2>2, <2>3
  <2>6. buckets' \in [Slots(capacity) -> Bucket]
    BY <2>4, <2>5
  <2>7. buckets'[index].type = "default"
    BY <1>2, <2>1, <2>2, <2>3
  <2>8. ASSUME NEW i \in Slots(capacity)
        PROVE  /\ buckets'[i].id = buckets[i].id
               /\ buckets'[i].hash = buckets[i].hash
               /\ i # index => buckets'[i].type = buckets[i].type
    BY <2>1, <2>2, <2>3
  <2> QED
    BY <2>6, <2>7, <2>8
<1>9. TableInv'
  <2>1. ASSUME NEW i \in Slots(capacity), Taken(buckets', i)
        PROVE  /\ buckets'[i].id \in DOMAIN constants'
               /\ buckets'[i].hash = Hash[TextAt(constants[buckets[i].id])']
               /\ buckets'[i].type = "owned" <=> constants'[buckets'[i].id] \in Block
    <3>1. Taken(buckets, i)
      BY <1>8, <2>1 DEF Taken
    <3>2. /\ buckets[i].id \in DOMAIN constants
          /\ buckets[i].hash = Hash[TextAt(constants[buckets[i].id])]
          /\ buckets[i].type = "owned" <=> constants[buckets[i].id] \in Block
      BY <3>1 DEF TableInv
    <3>3. i # index => buckets[i].id # id
      BY <1>2, <3>1 DEF TableInv, id
    <3>4. i = index => buckets[i].id = id
      BY DEF id
    <3> QED
      BY <1>4, <1>5, <1>7, <1>8, <3>2, <3>3, <3>4
  <2>2. \A i \in Slots(capacity) : Taken(buckets', i) <=> Taken(buckets, i)
    BY <1>8 DEF Taken
  <2>3. \A i \in Slots(capacity) : Taken(buckets', i) =>
          /\ buckets'[i].id \in DOMAIN constants'
          /\ buckets'[i].hash = Hash[TextAt(constants[buckets[i].id])']
          /\ buckets'[i].type = "owned" <=> constants'[buckets'[i].id] \in Block
    BY <2>1
  <2>4. \A i, j \in Slots(capacity) : Taken(buckets', i) /\ buckets'[i].id = buckets'[j].id => i = j
    BY <1>8, <2>2 DEF TableInv
  <2>5. \A c \in DOMAIN constants' : \E i \in Slots(capacity) : buckets'[i].id = c
    BY <1>5, <1>8 DEF TableInv
  <2>6. Chain(buckets', capacity)
    <3> SUFFICES ASSUME NEW i \in Slots(capacity), Taken(buckets, i),
                        NEW k \in Run(Home(buckets[i].hash, capacity), i, capacity)
                 PROVE  Taken(buckets', k)
      BY <1>8, <2>2 DEF Chain
    <3>1. k \in Slots(capacity)
      BY <1>2, HomeIsSlot, RunIsSlots DEF Bucket
    <3>2. Taken(buckets, k)
      BY DEF TableInv, Chain
    <3> QED
      BY <2>2, <3>1, <3>2
  <2> QED
    BY <1>1, <2>3, <2>4, <2>5, <2>6 DEF TableInv, Taken, Chain
<1>10. ConstantInv'
  <2>1. \A c \in DOMAIN constants' : TextAt(constants[c])' \in Text
    BY <1>5, <1>7 DEF ConstantInv
  <2>2. \A i, j \in DOMAIN constants' :
           constants'[i] \in Block /\ constants'[i] = constants'[j] => i = j
    BY <1>4, <1>5 DEF ConstantInv
  <2>3. OneIdPerText'
    BY <1>5, <1>7 DEF ConstantInv, OneIdPerText
  <2> QED
    BY <2>1, <2>2, <2>3 DEF ConstantInv
<1>11. TypeOK'
  <2>1. Idle \in [start : Text \cup Block, type : BucketType]
    BY TextAssumption DEF Idle, BucketType
  <2>2. 0 \in Slots(capacity)
    BY <1>2 DEF Slots
  <2>3. answer' \in [text : Text \cup {{}}, id : Nat]
    BY <1>1, <1>3, <1>4
  <2> QED
    BY <1>1, <1>3, <1>5, <1>8, <2>1, <2>2, <2>3 DEF TypeOK, Bucket
<1> QED
  BY <1>1, <1>9, <1>10, <1>11 DEF CallInv, ProbeInv, ResizeInv, PlaceInv

\* What the probing loop has found out when it meets a free bucket: the pool does not
\* have the text.  A constant with the text would lie beyond the free bucket or before
\* it; its chain forbids the one, the walk from the same home slot the other.
LEMMA FreeBucketMeansNew ==
  ASSUME IInv, pc \in {"probe", "find"}, ~Taken(buckets, index),
         NEW id \in DOMAIN constants
  PROVE  TextAt(constants[id]) # TextAt(call.start)
<1> USE DEF IInv
<1> SUFFICES ASSUME TextAt(constants[id]) = TextAt(call.start) PROVE FALSE
  OBVIOUS
<1> DEFINE home == Home(Hash[TextAt(call.start)], capacity)
<1>1. capacity \in Nat \ {0} /\ index \in Slots(capacity) /\ home \in Slots(capacity)
  BY Typed, HomeIsSlot DEF TypeOK, CallInv
<1>2. PICK i \in Slots(capacity) : buckets[i].id = id
  BY DEF TableInv
<1>3. Taken(buckets, i)
  BY <1>2 DEF TypeOK, Taken, UNSET
<1>4. Home(buckets[i].hash, capacity) = home
  BY <1>2, <1>3 DEF TableInv
<1>5. i # index
  BY <1>3
<1>6. CASE index \in Run(home, i, capacity)
  BY <1>3, <1>4, <1>6 DEF TableInv, Chain
<1>7. CASE i \in Run(home, index, capacity)
  <2>1. Holds(i)
    BY <1>2, <1>3 DEF Holds, Taken
  <2> QED
    BY <1>7, <2>1 DEF ProbeInv
<1> QED
  BY <1>1, <1>5, <1>6, <1>7, RunsAreOrdered

\* A text the pool does not have gets the next id, at the end of the run from its home
\* slot.
LEMMA AddConstantPreserves ==
  ASSUME IInv, AddConstant
  PROVE  IInv'
<1> USE DEF IInv
<1>0. PICK n \in Nat : n = Len(constants) + 1
  BY Typed
<1> DEFINE text == TextAt(call.start)
           home == Home(Hash[text], capacity)
           bucket == [id |-> n, type |-> call.type, hash |-> Hash[text]]
<1>1. /\ pc = "probe" /\ pc' = "idle" /\ ~Taken(buckets, index)
      /\ buckets' = [buckets EXCEPT ![index] = bucket]
      /\ constants' = Append(constants, call.start)
      /\ answer' = [text |-> text, id |-> n]
      /\ call' = Idle /\ scan' = 0 /\ index' = 0
      /\ UNCHANGED <<capacity, heap, next>>
  BY <1>0 DEF AddConstant, Return, Taken, Size
<1>2. /\ index \in Slots(capacity) /\ capacity \in Nat \ {0}
      /\ buckets \in [Slots(capacity) -> Bucket] /\ constants \in Seq(Text \cup Block)
      /\ call.start \in Text \cup Block /\ call.type \in BucketType
  BY <1>1, Typed DEF TypeOK
<1>3. /\ text \in Text /\ Hash[text] \in Nat
      /\ call.type = "owned" <=> call.start \in Block
      /\ call.start \in Block => \A id \in DOMAIN constants : constants[id] # call.start
  BY <1>1, Typed DEF CallInv
<1>4. /\ constants' \in Seq(Text \cup Block) /\ DOMAIN constants' = DOMAIN constants \cup {n}
      /\ constants'[n] = call.start /\ n \in Nat /\ n # UNSET /\ n \notin DOMAIN constants
      /\ \A c \in DOMAIN constants : constants'[c] = constants[c]
  BY <1>0, <1>1, <1>2 DEF UNSET
<1>5. bucket \in Bucket
  BY <1>2, <1>3, <1>4 DEF Bucket
<1>6. bucket.id = n /\ bucket.type = call.type /\ bucket.hash = Hash[text]
  OBVIOUS
<1>7. \A id \in DOMAIN constants : TextAt(constants[id]) # text
  BY <1>1, FreeBucketMeansNew
<1>8. \A k \in Run(home, index, capacity) : Taken(buckets, k)
  BY <1>1 DEF ProbeInv
<1> HIDE DEF text, home, bucket
<1>9. /\ buckets' \in [Slots(capacity) -> Bucket]
      /\ \A i \in Slots(capacity) : buckets'[i] = IF i = index THEN bucket ELSE buckets[i]
  BY <1>1, <1>2, <1>5
<1>10. /\ TextAt(constants[n])' = text
       /\ \A c \in DOMAIN constants : TextAt(constants[c])' = TextAt(constants[c])
  BY <1>1, <1>4 DEF TextAt, text
<1>11. Taken(buckets', index) /\ \A i \in Slots(capacity) : Taken(buckets, i) => i # index /\ Taken(buckets', i)
  BY <1>1, <1>2, <1>4, <1>6, <1>9 DEF Taken
<1>12. \A i \in Slots(capacity) : Taken(buckets, i) => buckets[i].id \in DOMAIN constants
  BY DEF TableInv
<1>13. TableInv'
  <2>1. ASSUME NEW i \in Slots(capacity), Taken(buckets', i)
        PROVE  /\ buckets'[i].id \in DOMAIN constants'
               /\ buckets'[i].hash = Hash[TextAt(constants[buckets[i].id])']
               /\ buckets'[i].type = "owned" <=> constants'[buckets'[i].id] \in Block
    <3>1. CASE i = index
      <4>1. buckets'[i] = bucket
        BY <1>9, <3>1
      <4> QED
        BY <1>3, <1>4, <1>6, <1>10, <4>1
    <3>2. CASE i # index
      <4>1. buckets'[i] = buckets[i] /\ Taken(buckets, i)
        BY <1>9, <2>1, <3>2 DEF Taken
      <4>2. /\ buckets[i].id \in DOMAIN constants
            /\ buckets[i].hash = Hash[TextAt(constants[buckets[i].id])]
            /\ buckets[i].type = "owned" <=> constants[buckets[i].id] \in Block
        BY <4>1 DEF TableInv
      <4> QED
        BY <1>4, <1>10, <4>1, <4>2
    <3> QED
      BY <3>1, <3>2
  <2>2. ASSUME NEW i \in Slots(capacity), NEW j \in Slots(capacity), Taken(buckets', i),
               buckets'[i].id = buckets'[j].id
        PROVE  i = j
    <3>1. Taken(buckets', j)
      BY <2>2 DEF Taken
    <3>2. CASE i # index /\ j # index
      BY <1>9, <2>2, <3>2 DEF TableInv, Taken
    <3>3. CASE i = index /\ j # index
      <4>1. buckets[j].id = n /\ Taken(buckets, j)
        BY <1>6, <1>9, <2>2, <3>1, <3>3 DEF Taken
      <4> QED
        BY <1>4, <1>12, <4>1
    <3>4. CASE i # index /\ j = index
      <4>1. buckets[i].id = n /\ Taken(buckets, i)
        BY <1>6, <1>9, <2>2, <3>4 DEF Taken
      <4> QED
        BY <1>4, <1>12, <4>1
    <3> QED
      BY <3>2, <3>3, <3>4
  <2>3. ASSUME NEW c \in DOMAIN constants' PROVE \E i \in Slots(capacity) : buckets'[i].id = c
    <3>1. CASE c = n
      BY <1>2, <1>6, <1>9, <3>1
    <3>2. CASE c \in DOMAIN constants
      <4>1. PICK i \in Slots(capacity) : buckets[i].id = c
        BY <3>2 DEF TableInv
      <4>2. Taken(buckets, i)
        BY <3>2, <4>1 DEF TypeOK, Taken, UNSET
      <4> QED
        BY <1>9, <1>11, <4>1, <4>2
    <3> QED
      BY <1>4, <3>1, <3>2
  <2>4. ASSUME NEW i \in Slots(capacity), Taken(buckets', i),
               NEW k \in Run(Home(buckets'[i].hash, capacity), i, capacity)
        PROVE  Taken(buckets', k)
    <3>1. k \in Slots(capacity)
      BY <1>2, <1>9, HomeIsSlot, RunIsSlots DEF Bucket
    <3>2. CASE i = index
      BY <1>6, <1>8, <1>9, <1>11, <3>1, <3>2 DEF home
    <3>3. CASE i # index
      <4>1. buckets'[i] = buckets[i] /\ Taken(buckets, i)
        BY <1>9, <2>4, <3>3 DEF Taken
      <4>2. Taken(buckets, k)
        BY <2>4, <4>1 DEF TableInv, Chain
      <4> QED
        BY <1>11, <3>1, <4>2
    <3> QED
      BY <3>2, <3>3
  <2> HIDE DEF IInv
  <2> QED
    BY <1>1, <2>1, <2>2, <2>3, <2>4 DEF TableInv, Taken, Chain
<1>14. ConstantInv'
  <2>1. \A c \in DOMAIN constants' : TextAt(constants[c])' \in Text
    BY <1>3, <1>4, <1>10 DEF ConstantInv
  <2>2. \A i, j \in DOMAIN constants' :
           constants'[i] \in Block /\ constants'[i] = constants'[j] => i = j
    BY <1>3, <1>4 DEF ConstantInv
  <2>3. OneIdPerText'
    BY <1>4, <1>7, <1>10 DEF ConstantInv, OneIdPerText
  <2> QED
    BY <2>1, <2>2, <2>3 DEF ConstantInv
<1>15. TypeOK'
  <2>1. Idle \in [start : Text \cup Block, type : BucketType]
    BY TextAssumption DEF Idle, BucketType
  <2>2. 0 \in Slots(capacity)
    BY <1>2 DEF Slots
  <2> QED
    BY <1>1, <1>3, <1>4, <1>9, <2>1, <2>2 DEF TypeOK, Bucket
<1> QED
  BY <1>1, <1>13, <1>14, <1>15 DEF CallInv, ProbeInv, ResizeInv, PlaceInv

\* The freed pool is empty.
LEMMA FreePoolPreserves ==
  ASSUME IInv, FreePool
  PROVE  IInv'
<1> USE DEF IInv
<1>1. /\ pc' = "freed" /\ buckets' = EmptyTable(capacity) /\ constants' = <<>>
      /\ heap' = [b \in Block |-> IF b \in OwnedBlocks THEN Freed ELSE heap[b]]
      /\ pc = "idle"
      /\ UNCHANGED <<capacity, next, call, scan, index, answer>>
  BY DEF FreePool
<1>2. EmptyTable(capacity) \in [Slots(capacity) -> [id : Nat, type : BucketType, hash : Nat]]
  BY DEF EmptyTable, EmptyBucket, BucketType, UNSET
<1>3. TypeOK'
  BY <1>1, <1>2 DEF TypeOK
<1>4. TableInv' /\ ConstantInv'
  BY <1>1 DEF TableInv, ConstantInv, OneIdPerText, Chain, Taken, EmptyTable, EmptyBucket
<1> QED
  BY <1>1, <1>3, <1>4 DEF CallInv, ProbeInv, ResizeInv, PlaceInv

-----------------------------------------------------------------------------

\* Every step of the pool preserves the invariant.
LEMMA StepPreserves == IInv /\ [Next]_vars => IInv'
<1> SUFFICES ASSUME IInv, [Next]_vars PROVE IInv'
  OBVIOUS
<1>1. CASE Calling
  BY <1>1, CallingPreserves
<1>2. CASE Working
  BY <1>2, ReturningPreserves, SkipResizePreserves, StartResizePreserves, RehashSkipPreserves,
     RehashBucketPreserves, PlaceTakenPreserves, PlaceFreePreserves, FinishResizePreserves,
     ProbeTakenPreserves, ReuseForOwnedPreserves, ReplaceOwnedPreserves, AddConstantPreserves
     DEF Working
<1>3. CASE FreePool
  BY <1>3, FreePoolPreserves
<1>4. CASE UNCHANGED vars
  BY <1>4 DEF vars, IInv, TypeOK, TableInv, ConstantInv, OneIdPerText, CallInv, ProbeInv, ResizeInv,
              PlaceInv, Chain, Taken, Holds, TextAt
<1> QED
  BY <1>1, <1>2, <1>3, <1>4 DEF Next

\* The invariant holds in every state the pool can be in.
LEMMA Invariance == Spec => []IInv
  BY InitEstablishes, StepPreserves, PTL DEF Spec

\* The pool's state has its type: probing never leaves the table, in a resize either.
THEOREM TypeCorrect == Spec => []TypeOK
<1>1. IInv => TypeOK
  BY DEF IInv
<1> QED
  BY <1>1, Invariance, PTL

\* rbs_constant_pool_insert never gives a text a second id, however the hashes collide
\* and however often the table was resized.
THEOREM TextHasOneId == Spec => []OneIdPerText
<1>1. IInv => OneIdPerText
  BY DEF IInv, ConstantInv
<1> QED
  BY <1>1, Invariance, PTL

\* No constant of the pool dangles, and rbs_constant_pool_free frees no block twice.
THEOREM BlocksAreLive == Spec => []OwnedBlocksAreLive
<1>1. IInv => OwnedBlocksAreLive
  <2> SUFFICES ASSUME IInv, NEW i \in Slots(capacity), NEW j \in Slots(capacity),
                      buckets[i].id # UNSET, buckets[j].id # UNSET
               PROVE  LET start == constants[buckets[i].id]
                      IN  /\ buckets[i].type = "owned" <=> start \in Block
                          /\ TextAt(start) # Freed
                          /\ start \in Block /\ start = constants[buckets[j].id] => i = j
    BY DEF OwnedBlocksAreLive
  <2>1. /\ buckets[i].id \in DOMAIN constants /\ buckets[j].id \in DOMAIN constants
        /\ buckets[i].type = "owned" <=> constants[buckets[i].id] \in Block
        /\ buckets[i].id = buckets[j].id => i = j
    BY DEF IInv, TableInv, Taken
  <2>2. TextAt(constants[buckets[i].id]) # Freed
    BY <2>1, MemoryAssumption DEF IInv, ConstantInv
  <2> QED
    BY <2>1, <2>2 DEF IInv, ConstantInv
<1> QED
  BY <1>1, Invariance, PTL

-----------------------------------------------------------------------------
(* Memory: no step loses a block.                                          *)

\* Only an insertion that is running holds a block that is not in the pool.
RestInv == pc \in {"idle", "freed", "find"} => call.start \notin Block

\* What is left of a call is not a block.
LEMMA IdleHasNoBlock == Idle.start \notin Block
  BY TextAssumption, MemoryAssumption DEF Idle

LEMMA RestInvariance == Spec => []RestInv
<1>1. Init => RestInv
  BY IdleHasNoBlock DEF Init, RestInv
<1>2. RestInv /\ [Next]_vars => RestInv'
  <2> SUFFICES ASSUME RestInv, [Next]_vars PROVE RestInv'
    OBVIOUS
  <2>1. CASE Calling
    <3>1. PICK t \in Text : InsertShared(t) \/ InsertConstant(t) \/ InsertOwned(t) \/ Find(t)
      BY <2>1 DEF Calling
    <3>2. pc' = "grow" \/ (pc' = "find" /\ call' = [start |-> t, type |-> "default"])
      BY <3>1 DEF InsertShared, InsertConstant, InsertOwned, Insert, Find
    <3> QED
      BY <3>2, MemoryAssumption DEF RestInv
  <2>2. CASE ResizeFails \/ ReuseForOwned \/ ReplaceOwned \/ ReuseShared \/ AddConstant \/ Found \/ NotFound
    <3>1. call' = Idle
      BY <2>2 DEF ResizeFails, ReuseForOwned, ReplaceOwned, ReuseShared, AddConstant, Found, NotFound, Return
    <3> QED
      BY <3>1, IdleHasNoBlock DEF RestInv
  <2>3. CASE \/ SkipResize \/ StartResize \/ RehashSkip \/ RehashBucket \/ PlaceTaken \/ PlaceFree
             \/ FinishResize \/ ProbeTaken
    <3>1. call' = call /\ (pc' \in {"probe", "rehash", "place"} \/ pc' = pc)
      BY <2>3 DEF SkipResize, StartResize, RehashSkip, RehashBucket, PlaceTaken, PlaceFree,
                  FinishResize, ProbeTaken, EnterProbe
    <3> QED
      BY <3>1 DEF RestInv
  <2>4. CASE FreePool \/ UNCHANGED vars
    BY <2>4 DEF FreePool, vars, RestInv
  <2> QED
    BY <2>1, <2>2, <2>3, <2>4 DEF Next, Working
<1> QED
  BY <1>1, <1>2, PTL DEF Spec

\* What replaces a block in the pool frees it.
LEMMA ReplaceOwnedLosesNothing ==
  ASSUME IInv, ReplaceOwned
  PROVE  Orphans' \subseteq Orphans
<1> DEFINE id == buckets[index].id
           block == constants[id]
<1>1. /\ pc = "probe" /\ call.type # "owned" /\ buckets[index].type = "owned" /\ Taken(buckets, index)
      /\ heap' = [heap EXCEPT ![block] = Freed]
      /\ constants' = [constants EXCEPT ![id] = call.start]
  BY DEF ReplaceOwned, Holds, Taken
<1>2. index \in Slots(capacity) /\ constants \in Seq(Text \cup Block) /\ heap \in [Block -> Text \cup {Freed}]
  BY <1>1 DEF IInv, TypeOK
<1>3. id \in DOMAIN constants /\ block \in Block /\ call.start \notin Block
  BY <1>1, <1>2 DEF IInv, TableInv, CallInv
<1> HIDE DEF id
<1>4. /\ DOMAIN constants' = DOMAIN constants
      /\ \A c \in DOMAIN constants : c # id => constants'[c] = constants[c]
  BY <1>1, <1>2, <1>3
<1> SUFFICES ASSUME NEW b \in Block, heap'[b] # Freed,
                    b \notin {constants'[c] : c \in DOMAIN constants'}
             PROVE  b \in Orphans
  BY DEF Orphans
<1>5. b # block /\ heap[b] # Freed
  BY <1>1, <1>2, <1>3
<1>6. \A c \in DOMAIN constants : constants[c] # b
  BY <1>4, <1>5
<1> QED
  BY <1>3, <1>5, <1>6 DEF Orphans

\* Every block in the pool is freed with it.
LEMMA FreePoolLosesNothing ==
  ASSUME IInv, FreePool
  PROVE  Orphans' \subseteq Orphans
<1>1. /\ heap' = [b \in Block |-> IF b \in OwnedBlocks THEN Freed ELSE heap[b]] /\ call' = call
  BY DEF FreePool
<1> SUFFICES ASSUME NEW b \in Block, heap'[b] # Freed, call.start # b
             PROVE  b \in Orphans
  BY <1>1 DEF Orphans
<1>2. b \notin OwnedBlocks /\ heap[b] # Freed
  BY <1>1
<1>3. ASSUME NEW c \in DOMAIN constants, constants[c] = b
      PROVE  FALSE
  <2>1. PICK i \in Slots(capacity) : buckets[i].id = c
    BY DEF IInv, TableInv
  <2>2. Taken(buckets, i)
    BY <2>1 DEF IInv, TypeOK, Taken, UNSET
  <2>3. buckets[i].type = "owned"
    BY <1>3, <2>1, <2>2 DEF IInv, TableInv
  <2> QED
    BY <1>2, <1>3, <2>1, <2>2, <2>3 DEF OwnedBlocks, Taken
<1> QED
  BY <1>2, <1>3 DEF Orphans

\* The other steps.
LEMMA StepLosesNothing ==
  ASSUME IInv, RestInv, Next, ~ResizeFails
  PROVE  Orphans' \subseteq Orphans
<1>1. CASE Calling
  <2>1. PICK t \in Text : InsertShared(t) \/ InsertConstant(t) \/ InsertOwned(t) \/ Find(t)
    BY <1>1 DEF Calling
  <2>2. pc = "idle" /\ constants' = constants /\ call.start \notin Block
    BY <2>1 DEF InsertShared, InsertConstant, InsertOwned, Insert, Find, RestInv
  <2>3. CASE InsertOwned(t)
    <3>1. PICK b \in Block : heap' = [heap EXCEPT ![b] = t] /\ call' = [start |-> b, type |-> "owned"]
      BY <2>3 DEF InsertOwned, Insert
    <3>2. heap \in [Block -> Text \cup {Freed}]
      BY DEF IInv, TypeOK
    <3> QED
      BY <2>2, <3>1, <3>2 DEF Orphans
  <2>4. CASE InsertShared(t) \/ InsertConstant(t) \/ Find(t)
    <3>1. heap' = heap
      BY <2>4 DEF InsertShared, InsertConstant, Find
    <3> QED
      BY <2>2, <3>1 DEF Orphans
  <2> QED
    BY <2>1, <2>3, <2>4
<1>2. CASE \/ SkipResize \/ StartResize \/ RehashSkip \/ RehashBucket \/ PlaceTaken \/ PlaceFree
           \/ FinishResize \/ ProbeTaken
  <2>1. UNCHANGED <<constants, heap, call>>
    BY <1>2 DEF SkipResize, StartResize, RehashSkip, RehashBucket, PlaceTaken, PlaceFree,
                FinishResize, ProbeTaken
  <2> QED
    BY <2>1 DEF Orphans
<1>3. CASE ReuseShared \/ Found \/ NotFound
  <2>1. UNCHANGED <<constants, heap>> /\ (pc = "find" \/ (pc = "probe" /\ call.type # "owned"))
    BY <1>3 DEF ReuseShared, Found, NotFound
  <2>2. call.start \notin Block
    BY <2>1 DEF RestInv, IInv, CallInv
  <2> QED
    BY <2>1, <2>2 DEF Orphans
<1>4. CASE ReuseForOwned
  <2>1. /\ pc = "probe" /\ call.type = "owned" /\ constants' = constants
        /\ heap' = [heap EXCEPT ![call.start] = Freed]
    BY <1>4 DEF ReuseForOwned
  <2>2. call.start \in Block /\ heap \in [Block -> Text \cup {Freed}]
    BY <2>1 DEF IInv, CallInv, TypeOK
  <2> QED
    BY <2>1, <2>2 DEF Orphans
<1>5. CASE AddConstant
  <2>1. constants' = Append(constants, call.start) /\ heap' = heap
    BY <1>5 DEF AddConstant
  <2>2. constants \in Seq(Text \cup Block) /\ call.start \in Text \cup Block
    BY DEF IInv, TypeOK
  <2>3. /\ Len(constants) + 1 \in DOMAIN constants' /\ constants'[Len(constants) + 1] = call.start
        /\ \A c \in DOMAIN constants : c \in DOMAIN constants' /\ constants'[c] = constants[c]
    BY <2>1, <2>2
  <2> QED
    BY <2>1, <2>3 DEF Orphans
<1> QED
  BY <1>1, <1>2, <1>3, <1>4, <1>5, ReplaceOwnedLosesNothing, FreePoolLosesNothing DEF Next, Working

\* The pool and its caller lose no block but the one that an insertion brings and its
\* failing resize refuses (rbs_constant_pool_insert, rbs_constant_pool_free).
THEOREM OnlyRefusalsLeakBlocks == Spec => OnlyRefusalsLeak
<1>1. IInv /\ RestInv /\ [Next]_vars => [Orphans' \subseteq Orphans \/ ResizeFails]_vars
  BY StepLosesNothing
<1> QED
  BY <1>1, Invariance, RestInvariance, PTL DEF Spec, OnlyRefusalsLeak

-----------------------------------------------------------------------------
(* ConstantPool implements Interner.  A call is one step of the interner,  *)
(* the one in which it returns; the steps before it, and a whole resize,   *)
(* are stutters, because none changes what a constant's memory holds.      *)
(*                                                                         *)
(* Which steps leave every constant its text.                              *)

TextsStay ==
  /\ DOMAIN constants' = DOMAIN constants
  /\ \A id \in DOMAIN constants : TextAt(constants[id])' = TextAt(constants[id])

\* Nothing is written.
LEMMA NothingWritten ==
  ASSUME UNCHANGED <<constants, heap>>
  PROVE  TextsStay
  BY DEF TextsStay, TextAt

\* A new block is not the memory of a constant.
LEMMA InsertOwnedKeepsTexts ==
  ASSUME IInv, NEW t \in Text, InsertOwned(t)
  PROVE  TextsStay
<1>1. PICK b \in Block : heap[b] = Freed /\ heap' = [heap EXCEPT ![b] = t] /\ constants' = constants
  BY DEF InsertOwned, Insert
<1>2. \A id \in DOMAIN constants : constants[id] # b
  BY <1>1, MemoryAssumption DEF IInv, ConstantInv, TextAt
<1> QED
  BY <1>1, <1>2 DEF IInv, TypeOK, TextAt, TextsStay

\* Nor is the block that an insertion brings and that is not wanted.
LEMMA ReuseForOwnedKeepsTexts ==
  ASSUME IInv, ReuseForOwned
  PROVE  TextsStay
<1>1. pc = "probe" /\ heap' = [heap EXCEPT ![call.start] = Freed] /\ constants' = constants
  BY DEF ReuseForOwned
<1>2. call.start \in Block => \A id \in DOMAIN constants : constants[id] # call.start
  BY <1>1 DEF IInv, CallInv
<1> QED
  BY <1>1, <1>2 DEF IInv, TypeOK, TextAt, TextsStay

\* A constant that leaves its block for the caller's memory finds its text there.
LEMMA ReplaceOwnedKeepsTexts ==
  ASSUME IInv, ReplaceOwned
  PROVE  TextsStay
<1> DEFINE id == buckets[index].id
           block == constants[id]
<1>1. /\ pc = "probe" /\ call.type # "owned" /\ buckets[index].type = "owned"
      /\ Taken(buckets, index) /\ TextAt(block) = TextAt(call.start)
      /\ heap' = [heap EXCEPT ![block] = Freed]
      /\ constants' = [constants EXCEPT ![id] = call.start]
  BY DEF ReplaceOwned, Holds, Taken
<1>2. index \in Slots(capacity) /\ constants \in Seq(Text \cup Block)
  BY <1>1 DEF IInv, TypeOK
<1>3. id \in DOMAIN constants /\ block \in Block /\ call.start \notin Block
  BY <1>1, <1>2 DEF IInv, TableInv, CallInv
<1> HIDE DEF id, block
<1>4. /\ DOMAIN constants' = DOMAIN constants /\ constants'[id] = call.start
      /\ \A c \in DOMAIN constants : c # id => constants'[c] = constants[c]
  BY <1>1, <1>2, <1>3
<1>5. \A c \in DOMAIN constants : c # id => constants[c] # block
  BY <1>3 DEF IInv, ConstantInv, block
<1>6. ASSUME NEW c \in DOMAIN constants
      PROVE  TextAt(constants[c])' = TextAt(constants[c])
  <2>1. CASE c = id
    BY <1>1, <1>3, <1>4, <2>1 DEF TextAt, block
  <2>2. CASE c # id
    BY <1>1, <1>3, <1>4, <1>5, <2>2 DEF IInv, TypeOK, TextAt
  <2> QED
    BY <2>1, <2>2
<1> QED
  BY <1>4, <1>6 DEF TextsStay

-----------------------------------------------------------------------------
(* The steps of the interner.                                              *)

\* If the texts stay, the names stay.
LEMMA NamesStay ==
  ASSUME TextsStay
  PROVE  names' = names
  BY DEF TextsStay, names

\* The answer to a text that the bucket at `index` holds is a constant with that text.
LEMMA HeldIsAnswer ==
  ASSUME IInv, pc \in {"probe", "find"}, Holds(index)
  PROVE  /\ buckets[index].id \in DOMAIN names
         /\ names[buckets[index].id] = TextAt(call.start)
<1>1. index \in Slots(capacity) /\ Taken(buckets, index)
  BY DEF IInv, TypeOK, Holds, Taken
<1>2. buckets[index].id \in DOMAIN constants
  BY <1>1 DEF IInv, TableInv
<1> QED
  BY <1>2 DEF Holds, names

\* The pool starts with no names and no answer.
LEMMA InitRefines == Init => Abstract!Init
  BY DEF Init, Abstract!Init, names, UNSET, Abstract!UNSET

\* A call starts, a resize moves on, a loop turns: the interner does nothing.
LEMMA StutteringRefines ==
  ASSUME IInv,
         \/ Calling \/ SkipResize \/ StartResize \/ RehashSkip \/ RehashBucket
         \/ PlaceTaken \/ PlaceFree \/ FinishResize \/ ProbeTaken
  PROVE  UNCHANGED Abstract!vars
<1>1. CASE Calling
  <2>1. PICK t \in Text : InsertShared(t) \/ InsertConstant(t) \/ InsertOwned(t) \/ Find(t)
    BY <1>1 DEF Calling
  <2>2. answer' = answer
    BY <2>1 DEF InsertShared, InsertConstant, InsertOwned, Find, Insert
  <2>3. CASE InsertOwned(t)
    BY <2>2, <2>3, InsertOwnedKeepsTexts, NamesStay DEF Abstract!vars
  <2>4. CASE InsertShared(t) \/ InsertConstant(t) \/ Find(t)
    <3>1. UNCHANGED <<constants, heap>>
      BY <2>4 DEF InsertShared, InsertConstant, Find, Insert
    <3> QED
      BY <2>2, <3>1, NothingWritten, NamesStay DEF Abstract!vars
  <2> QED
    BY <2>1, <2>3, <2>4
<1>2. CASE SkipResize \/ StartResize \/ RehashSkip \/ RehashBucket
             \/ PlaceTaken \/ PlaceFree \/ FinishResize \/ ProbeTaken
  <2>1. UNCHANGED <<constants, heap, answer>>
    BY <1>2 DEF SkipResize, StartResize, RehashSkip, RehashBucket, PlaceTaken, PlaceFree,
                FinishResize, ProbeTaken
  <2> QED
    BY <2>1, NothingWritten, NamesStay DEF Abstract!vars
<1> QED
  BY <1>1, <1>2

\* A call that met its text answers the constant, whatever became of the memory.
LEMMA ReuseRefines ==
  ASSUME IInv, ReuseForOwned \/ ReplaceOwned \/ ReuseShared \/ Found
  PROVE  Abstract!Next
<1>1. /\ pc \in {"probe", "find"} /\ Holds(index)
      /\ answer' = [text |-> TextAt(call.start), id |-> buckets[index].id]
  BY DEF ReuseForOwned, ReplaceOwned, ReuseShared, Found, Return
<1>2. TextAt(call.start) \in Text
  BY <1>1 DEF IInv, CallInv
<1>3. TextsStay
  <2>1. CASE ReuseShared \/ Found
    BY <2>1, NothingWritten DEF ReuseShared, Found
  <2> QED
    BY <2>1, ReuseForOwnedKeepsTexts, ReplaceOwnedKeepsTexts
<1>4. Abstract!Reuse(TextAt(call.start))
  BY <1>1, <1>3, HeldIsAnswer, NamesStay DEF Abstract!Reuse, Abstract!Answers
<1> QED
  BY <1>2, <1>4 DEF Abstract!Next

\* A lookup that met a free bucket, or an insertion whose resize fails, is refused.
LEMMA RefuseRefines ==
  ASSUME IInv, ResizeFails \/ NotFound
  PROVE  Abstract!Next
<1>1. /\ pc \in {"grow", "find"} /\ UNCHANGED <<constants, heap>>
      /\ answer' = [text |-> TextAt(call.start), id |-> UNSET]
  BY DEF ResizeFails, NotFound, Return
<1>2. TextAt(call.start) \in Text
  BY <1>1 DEF IInv, CallInv
<1>3. Abstract!Refuse(TextAt(call.start))
  BY <1>1, NothingWritten, NamesStay DEF Abstract!Refuse, UNSET, Abstract!UNSET
<1> QED
  BY <1>2, <1>3 DEF Abstract!Next

\* A text that gets a constant had none, and its id is the next one.
LEMMA AddRefines ==
  ASSUME IInv, AddConstant
  PROVE  Abstract!Next
<1> DEFINE text == TextAt(call.start)
<1>1. /\ pc = "probe" /\ ~Taken(buckets, index)
      /\ constants' = Append(constants, call.start) /\ heap' = heap
      /\ answer' = [text |-> text, id |-> Len(constants) + 1]
  BY DEF AddConstant, Return, Taken, Size
<1>2. text \in Text
  BY <1>1 DEF IInv, CallInv
<1>3. constants \in Seq(Text \cup Block) /\ call.start \in Text \cup Block
  BY DEF IInv, TypeOK
<1>4. \A id \in DOMAIN constants : TextAt(constants[id]) # text
  BY <1>1, FreeBucketMeansNew
<1>5. ~Abstract!Knows(text)
  BY <1>4 DEF Abstract!Knows, names
<1>6. /\ DOMAIN constants = 1..Len(constants) /\ Len(constants) \in Nat
      /\ DOMAIN names = 1..Len(constants)
      /\ \A id \in DOMAIN constants : TextAt(constants[id]) \in Text
  BY <1>3 DEF names, IInv, ConstantInv
<1>7. names \in Seq(Text) /\ Len(names) = Len(constants)
  BY <1>6 DEF names
<1>8. names' = Append(names, text)
  <2> DEFINE n == Len(constants) + 1
  <2>1. /\ DOMAIN constants' = 1..n /\ constants'[n] = call.start
        /\ \A id \in 1..Len(constants) : constants'[id] = constants[id]
    BY <1>1, <1>3, <1>6
  <2>2. names' = [id \in 1..n |-> TextAt(constants[id])']
    BY <2>1 DEF names
  <2>3. /\ Append(names, text) \in Seq(Text) /\ Len(Append(names, text)) = n
        /\ \A id \in 1..n : Append(names, text)[id] = IF id = n THEN text ELSE names[id]
    BY <1>2, <1>6, <1>7
  <2>4. \A id \in 1..n : TextAt(constants[id])' = Append(names, text)[id]
    <3> SUFFICES ASSUME NEW id \in 1..n PROVE TextAt(constants[id])' = Append(names, text)[id]
      OBVIOUS
    <3>1. CASE id = n
      BY <1>1, <2>1, <2>3, <3>1 DEF TextAt
    <3>2. CASE id # n
      <4>1. id \in 1..Len(constants)
        BY <1>6, <3>2
      <4> QED
        BY <1>1, <1>6, <2>1, <2>3, <3>2, <4>1 DEF TextAt, names
    <3> QED
      BY <3>1, <3>2
  <2>5. Append(names, text) = [id \in 1..n |-> Append(names, text)[id]]
    BY <1>6, <2>3
  <2> QED
    BY <2>2, <2>4, <2>5
<1>9. Abstract!Add(text)
  BY <1>1, <1>5, <1>7, <1>8 DEF Abstract!Add
<1> QED
  BY <1>2, <1>9 DEF Abstract!Next

\* Freeing the pool forgets all names.
LEMMA FreeRefines ==
  ASSUME FreePool
  PROVE  Abstract!Next
<1>1. constants' = <<>> /\ answer' = answer
  BY DEF FreePool
<1>2. names' = <<>>
  BY <1>1 DEF names
<1> QED
  BY <1>1, <1>2 DEF Abstract!Next, Abstract!Close

-----------------------------------------------------------------------------

\* Every step of the pool is a step of the interner, or none.
LEMMA StepRefines == IInv /\ [Next]_vars => [Abstract!Next]_(Abstract!vars)
<1> SUFFICES ASSUME IInv, [Next]_vars PROVE Abstract!Next \/ UNCHANGED Abstract!vars
  OBVIOUS
<1>1. CASE Calling
  BY <1>1, StutteringRefines
<1>2. CASE Working
  BY <1>2, StutteringRefines, ReuseRefines, RefuseRefines, AddRefines DEF Working
<1>3. CASE FreePool
  BY <1>3, FreeRefines
<1>4. CASE UNCHANGED vars
  BY <1>4, NothingWritten, NamesStay DEF vars, Abstract!vars
<1> QED
  BY <1>1, <1>2, <1>3, <1>4 DEF Next

\* The pool is an interner: a text has one id and keeps it, through every resize, and a
\* call whose resize fails leaves the pool as it was (rbs_constant_pool_insert).
THEOREM PoolImplementsInterner == Spec => ImplementsInterner
<1>1. Spec => []IInv
  BY Invariance
<1> QED
  BY <1>1, InitRefines, StepRefines, PTL DEF Spec, ImplementsInterner, Abstract!Spec
=============================================================================
