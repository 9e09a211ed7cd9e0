---------------------------- MODULE ConstantPool ----------------------------
(***************************************************************************)
(* The parser's constant pool, src/util/rbs_constant_pool.c: an open       *)
(* addressing hash table with linear probing from texts to ids, and a      *)
(* dense array from ids to texts.  One step is one turn of a loop of the   *)
(* code (probing, rehashing) or the straight-line code around the loops,   *)
(* so that the loop invariants are invariants of the specification.        *)
(*                                                                         *)
(* A constant's `start` is a pointer.  A pointer into the source text or   *)
(* to a compile-time string outlives the pool and is represented by the    *)
(* text it points to; a pointer to memory the caller gave away is a Block, *)
(* and heap says what the block holds, or that it was freed.               *)
(***************************************************************************)
EXTENDS Integers, Sequences

CONSTANTS Text,             \* the byte strings that get interned
          Block,            \* the heap blocks insert_owned is called with
          Hash,             \* rbs_constant_pool_hash, one Nat per text
          InitialCapacity,  \* what rbs_constant_pool_init rounds to
          CapacityLimit,    \* doubling past it overflows uint32_t
          CallocMayFail,    \* whether calloc may return NULL below the limit
          Freed             \* the content of a block that is not allocated

ASSUME TextAssumption == Text # {}
ASSUME HashAssumption == Hash \in [Text -> Nat]
ASSUME CapacityAssumption == InitialCapacity \in Nat \ {0} /\ CapacityLimit \in Nat
ASSUME MemoryAssumption == /\ Text \cap Block = {}
                           /\ Freed \notin Text
                           /\ CallocMayFail \in BOOLEAN

VARIABLES buckets,    \* pool->buckets
          capacity,   \* pool->capacity
          constants,  \* pool->constants, a sequence of `start`s; pool->size is its length
          heap,       \* what every block holds
          next,       \* next_buckets, while a resize is running
          pc,         \* where the running call is
          call,       \* the arguments of the running call
          scan,       \* resize's index into the old buckets
          index,      \* the index that probes (next_index in a resize)
          answer      \* the text the last call was about, and the id it returned

vars == <<buckets, capacity, constants, heap, next, pc, call, scan, index, answer>>

UNSET == 0

\* RBS_CONSTANT_POOL_BUCKET_DEFAULT, _OWNED and _CONSTANT.
BucketType == {"default", "owned", "constant"}

EmptyBucket == [id |-> UNSET, type |-> "default", hash |-> 0]

Slots(cap) == 0..(cap - 1)

EmptyTable(cap) == [i \in Slots(cap) |-> EmptyBucket]

\* hash & mask, where mask = capacity - 1 and the capacity is a power of two.
Home(hash, cap) == hash % cap

\* A mutant of Following: the probing runs off the end of the table.
FollowingWithoutMask(i, cap) == i + 1

\* (index + 1) & mask
Following(i, cap) == (i + 1) % cap

\* The bytes a `start` points to.
TextAt(start) == IF start \in Block THEN heap[start] ELSE start

Size == Len(constants)

\* A mutant of NeedsResize: the pool fills up before it grows.
NeedsResizeWhenOverfull == Size > capacity

\* pool->size >= (pool->capacity / 4 * 3), in integer arithmetic.
NeedsResize == Size >= (capacity \div 4) * 3

-----------------------------------------------------------------------------

Idle == [start |-> CHOOSE t \in Text : TRUE, type |-> "default"]

\* rbs_constant_pool_init with the parser's initial_pool_capacity.
Init ==
  /\ buckets = EmptyTable(InitialCapacity)
  /\ capacity = InitialCapacity
  /\ constants = <<>>
  /\ heap = [b \in Block |-> Freed]
  /\ next = <<>>
  /\ pc = "idle"
  /\ call = Idle
  /\ scan = 0
  /\ index = 0
  /\ answer = [text |-> {}, id |-> UNSET]

Insert(start, type) ==
  /\ pc = "idle"
  /\ pc' = "grow"
  /\ call' = [start |-> start, type |-> type]
  /\ UNCHANGED <<buckets, capacity, constants, next, scan, index, answer>>

\* rbs_constant_pool_insert_shared: the text is a slice of the source.
InsertShared(t) == Insert(t, "default") /\ UNCHANGED heap

\* rbs_constant_pool_insert_constant: the text is known at compile time.
InsertConstant(t) == Insert(t, "constant") /\ UNCHANGED heap

\* declare_type_variables mallocs a block, copies the text into it and gives
\* the block to rbs_constant_pool_insert_owned.
InsertOwned(t) ==
  \E b \in Block : /\ heap[b] = Freed
                   /\ heap' = [heap EXCEPT ![b] = t]
                   /\ Insert(b, "owned")

\* rbs_constant_pool_find, up to its loop.
Find(t) ==
  /\ pc = "idle"
  /\ pc' = "find"
  /\ call' = [start |-> t, type |-> "default"]
  /\ index' = Home(Hash[t], capacity)
  /\ UNCHANGED <<buckets, capacity, constants, heap, next, scan, answer>>

-----------------------------------------------------------------------------
(* rbs_constant_pool_insert up to its probing loop, with the resize.       *)

\* The probing loop starts at the text's home slot.
EnterProbe(cap) ==
  /\ pc' = "probe"
  /\ index' = Home(Hash[TextAt(call.start)], cap)

\* The call returns id, and its locals are gone.
Return(id) ==
  /\ pc' = "idle"
  /\ answer' = [text |-> TextAt(call.start), id |-> id]
  /\ call' = Idle
  /\ scan' = 0
  /\ index' = 0

SkipResize ==
  /\ pc = "grow" /\ ~NeedsResize
  /\ EnterProbe(capacity)
  /\ UNCHANGED <<buckets, capacity, constants, heap, next, call, scan, answer>>

StartResize ==
  /\ pc = "grow" /\ NeedsResize
  /\ capacity * 2 <= CapacityLimit
  /\ next' = EmptyTable(capacity * 2)
  /\ scan' = 0
  /\ pc' = "rehash"
  /\ UNCHANGED <<buckets, capacity, constants, heap, call, index, answer>>

\* A mutant of ResizeFails: the insertion returns the id it would have given.
ResizeFailsSilently ==
  /\ pc = "grow" /\ NeedsResize
  /\ capacity * 2 > CapacityLimit \/ CallocMayFail
  /\ Return(Size + 1)
  /\ UNCHANGED <<buckets, capacity, constants, heap, next>>

\* The doubled capacity overflows, or calloc returned NULL: the insertion
\* returns RBS_CONSTANT_ID_UNSET, even if the pool has the text already.
ResizeFails ==
  /\ pc = "grow" /\ NeedsResize
  /\ capacity * 2 > CapacityLimit \/ CallocMayFail
  /\ Return(UNSET)
  /\ UNCHANGED <<buckets, capacity, constants, heap, next>>

RehashSkip ==
  /\ pc = "rehash" /\ scan < capacity
  /\ buckets[scan].id = UNSET
  /\ scan' = scan + 1
  /\ UNCHANGED <<buckets, capacity, constants, heap, next, pc, call, index, answer>>

\* A mutant of RehashBucket: the old table's mask is used in the new one.
RehashBucketWithOldMask ==
  /\ pc = "rehash" /\ scan < capacity
  /\ buckets[scan].id # UNSET
  /\ index' = Home(buckets[scan].hash, capacity)
  /\ pc' = "place"
  /\ UNCHANGED <<buckets, capacity, constants, heap, next, call, scan, answer>>

RehashBucket ==
  /\ pc = "rehash" /\ scan < capacity
  /\ buckets[scan].id # UNSET
  /\ index' = Home(buckets[scan].hash, capacity * 2)
  /\ pc' = "place"
  /\ UNCHANGED <<buckets, capacity, constants, heap, next, call, scan, answer>>

PlaceTaken ==
  /\ pc = "place"
  /\ next[index].id # UNSET
  /\ index' = Following(index, capacity * 2)
  /\ UNCHANGED <<buckets, capacity, constants, heap, next, pc, call, scan, answer>>

PlaceFree ==
  /\ pc = "place"
  /\ next[index].id = UNSET
  /\ next' = [next EXCEPT ![index] = buckets[scan]]
  /\ scan' = scan + 1
  /\ index' = 0
  /\ pc' = "rehash"
  /\ UNCHANGED <<buckets, capacity, constants, heap, call, answer>>

\* The old table is freed, and the insertion goes on in the new one.
FinishResize ==
  /\ pc = "rehash" /\ scan = capacity
  /\ buckets' = next
  /\ capacity' = capacity * 2
  /\ next' = <<>>
  /\ scan' = 0
  /\ EnterProbe(capacity * 2)
  /\ UNCHANGED <<constants, heap, call, answer>>

-----------------------------------------------------------------------------
(* The probing loops of rbs_constant_pool_insert and _find.                *)

Holds(i) ==
  /\ buckets[i].id # UNSET
  /\ TextAt(constants[buckets[i].id]) = TextAt(call.start)

ProbeTaken ==
  /\ pc \in {"probe", "find"}
  /\ buckets[index].id # UNSET /\ ~Holds(index)
  /\ index' = Following(index, capacity)
  /\ UNCHANGED <<buckets, capacity, constants, heap, next, pc, call, scan, answer>>

\* A mutant of ReuseForOwned: the memory nobody wants is not freed.
ReuseForOwnedWithoutFree ==
  /\ pc = "probe" /\ Holds(index)
  /\ call.type = "owned"
  /\ Return(buckets[index].id)
  /\ UNCHANGED <<buckets, capacity, constants, heap, next>>

\* The text is there and the caller gives memory away: nobody wants it.
ReuseForOwned ==
  /\ pc = "probe" /\ Holds(index)
  /\ call.type = "owned"
  /\ heap' = [heap EXCEPT ![call.start] = Freed]
  /\ Return(buckets[index].id)
  /\ UNCHANGED <<buckets, capacity, constants, next>>

\* A mutant of ReplaceOwned: the bucket stays marked owned.
ReplaceOwnedKeepingType ==
  /\ pc = "probe" /\ Holds(index)
  /\ call.type # "owned" /\ buckets[index].type = "owned"
  /\ heap' = [heap EXCEPT ![constants[buckets[index].id]] = Freed]
  /\ constants' = [constants EXCEPT ![buckets[index].id] = call.start]
  /\ Return(buckets[index].id)
  /\ UNCHANGED <<buckets, capacity, next>>

\* The text is there in owned memory, and the caller's needs no allocation.
ReplaceOwned ==
  /\ pc = "probe" /\ Holds(index)
  /\ call.type # "owned" /\ buckets[index].type = "owned"
  /\ heap' = [heap EXCEPT ![constants[buckets[index].id]] = Freed]
  /\ constants' = [constants EXCEPT ![buckets[index].id] = call.start]
  /\ buckets' = [buckets EXCEPT ![index].type = "default"]
  /\ Return(buckets[index].id)
  /\ UNCHANGED <<capacity, next>>

ReuseShared ==
  /\ pc = "probe" /\ Holds(index)
  /\ call.type # "owned" /\ buckets[index].type # "owned"
  /\ Return(buckets[index].id)
  /\ UNCHANGED <<buckets, capacity, constants, heap, next>>

\* A mutant of AddConstant: the id is read before the size is counted up.
AddConstantReturningSize ==
  /\ pc = "probe"
  /\ buckets[index].id = UNSET
  /\ buckets' = [buckets EXCEPT ![index] =
                   [id |-> Size + 1, type |-> call.type,
                    hash |-> Hash[TextAt(call.start)]]]
  /\ constants' = Append(constants, call.start)
  /\ Return(Size)
  /\ UNCHANGED <<capacity, heap, next>>

AddConstant ==
  /\ pc = "probe"
  /\ buckets[index].id = UNSET
  /\ buckets' = [buckets EXCEPT ![index] =
                   [id |-> Size + 1, type |-> call.type,
                    hash |-> Hash[TextAt(call.start)]]]
  /\ constants' = Append(constants, call.start)
  /\ Return(Size + 1)
  /\ UNCHANGED <<capacity, heap, next>>

Found ==
  /\ pc = "find" /\ Holds(index)
  /\ Return(buckets[index].id)
  /\ UNCHANGED <<buckets, capacity, constants, heap, next>>

NotFound ==
  /\ pc = "find"
  /\ buckets[index].id = UNSET
  /\ Return(UNSET)
  /\ UNCHANGED <<buckets, capacity, constants, heap, next>>

\* The blocks rbs_constant_pool_free hands to free().
OwnedBlocks ==
  {constants[buckets[i].id] : i \in {j \in Slots(capacity) :
                                       buckets[j].id # UNSET /\ buckets[j].type = "owned"}}

\* rbs_constant_pool_free, from rbs_parser_free.
FreePool ==
  /\ pc = "idle"
  /\ heap' = [b \in Block |-> IF b \in OwnedBlocks THEN Freed ELSE heap[b]]
  /\ buckets' = EmptyTable(capacity)
  /\ constants' = <<>>
  /\ pc' = "freed"
  /\ UNCHANGED <<capacity, next, call, scan, index, answer>>

-----------------------------------------------------------------------------

\* The steps of a call that has started.
Working ==
  \/ SkipResize \/ StartResize \/ ResizeFails
  \/ RehashSkip \/ RehashBucket \/ PlaceTaken \/ PlaceFree \/ FinishResize
  \/ ProbeTaken \/ ReuseForOwned \/ ReplaceOwned \/ ReuseShared \/ AddConstant
  \/ Found \/ NotFound

Calling ==
  \E t \in Text : InsertShared(t) \/ InsertConstant(t) \/ InsertOwned(t) \/ Find(t)

Next == Calling \/ Working \/ FreePool

Spec == Init /\ [][Next]_vars

\* The code is straight-line C: a call that has started goes on.
FairSpec == Spec /\ WF_vars(Working)

-----------------------------------------------------------------------------

TypeOK ==
  /\ capacity \in Nat \ {0}
  /\ buckets \in [Slots(capacity) -> [id : Nat, type : BucketType, hash : Nat]]
  /\ constants \in Seq(Text \cup Block)
  /\ heap \in [Block -> Text \cup {Freed}]
  /\ pc \in {"idle", "grow", "rehash", "place", "probe", "find", "freed"}
  /\ call \in [start : Text \cup Block, type : BucketType]
  /\ scan \in 0..capacity
  /\ index \in Slots(IF pc = "place" THEN capacity * 2 ELSE capacity)
  /\ answer \in [text : Text \cup {{}}, id : Nat]

\* No text has two ids: the linear probing meets every constant whose text
\* could be the one looked for before it meets a free bucket, in the table a
\* resize left behind too (rbs_constant_pool_insert, rbs_constant_pool_resize).
OneIdPerText ==
  \A i, j \in DOMAIN constants : TextAt(constants[i]) = TextAt(constants[j]) => i = j

\* A bucket is marked owned exactly when its constant's memory is a block, that
\* block is allocated, and no two constants share it: rbs_constant_pool_free
\* frees each block once, and no constant of the pool dangles.
OwnedBlocksAreLive ==
  \A i, j \in {k \in Slots(capacity) : buckets[k].id # UNSET} :
    LET start == constants[buckets[i].id]
    IN  /\ buckets[i].type = "owned" <=> start \in Block
        /\ TextAt(start) # Freed
        /\ start \in Block /\ start = constants[buckets[j].id] => i = j

\* The allocated blocks that neither the pool nor the running call knows.
Orphans ==
  {b \in Block : /\ heap[b] # Freed
                 /\ b \notin {constants[id] : id \in DOMAIN constants}
                 /\ call.start # b}

\* No step loses a block, freeing the pool included, but for the insertion that is
\* refused because its resize fails: it has not taken the block over yet.
OnlyRefusalsLeak == [][Orphans' \subseteq Orphans \/ ResizeFails]_vars

\* A lookup or insertion returns: its probing loop meets the text or a free
\* bucket, because a pool is never full.
CallsReturn == pc \notin {"idle", "freed"} ~> pc = "idle"

-----------------------------------------------------------------------------
(* The pool as an interner of texts.                                       *)

names == [id \in DOMAIN constants |-> TextAt(constants[id])]

Abstract == INSTANCE Interner

ImplementsInterner == Abstract!Spec
=============================================================================
