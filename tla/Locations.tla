------------------------------ MODULE Locations ------------------------------
(***************************************************************************)
(* RBS::Location twice: the object of the C extension                      *)
(* (ext/rbs_extension/legacy_location.c), an array of named ranges with a  *)
(* bitmap of the required ones, and the pure Ruby one that stands in for   *)
(* it under WebAssembly (lib/rbs/wasm/location.rb), two hashes.            *)
(***************************************************************************)
EXTENDS Integers, Sequences, SequencesExt, FiniteSets

NullRange == <<-1, -1>>                   \* RBS_LOC_NULL_RANGE
BitmapSize == 32                          \* sizeof(rbs_loc_entry_bitmap) * 8

Nil == [is |-> "nil"]
Raise(error) == [is |-> "raise", error |-> error]
At(range) == [is |-> "location", range |-> range]

(***************************************************************************)
(* The C object.  "required" is the bitmap required_p, as the set of its   *)
(* bits.                                                                   *)
(***************************************************************************)
NativeNew(range) == [range |-> range, entries |-> <<>>, required |-> {}, cap |-> 0, raised |-> FALSE]

CheckMax(loc, n) == [loc EXCEPT !.raised = @ \/ n > BitmapSize]

AllocChildren(loc, cap) == [CheckMax(loc, cap) EXCEPT !.entries = <<>>, !.required = {}, !.cap = cap]

CheckCap(loc) ==
    IF Len(loc.entries) = loc.cap THEN [CheckMax(loc, loc.cap + 1) EXCEPT !.cap = @ + 1] ELSE loc

NativeAddOptional(loc, name, range) ==
    LET grown == CheckCap(loc) IN
    IF grown.raised THEN grown ELSE [grown EXCEPT !.entries = Append(@, [name |-> name, range |-> range])]

NativeAddRequired(loc, name, range) ==
    LET added == NativeAddOptional(loc, name, range) IN
    IF added.raised THEN added ELSE [added EXCEPT !.required = @ \cup {Len(added.entries)}]

NativeRef(loc, name) ==
    LET i == SelectInSeq(loc.entries, LAMBDA e : e.name = name) IN
    CASE i = 0 -> Raise("Unknown child name given")
      [] i # 0 /\ i \notin loc.required /\ loc.entries[i].range[1] = -1 -> Nil
      [] OTHER -> At(loc.entries[i].range)

NativeKeys(loc, bits) ==
    LET at == SetToSortSeq(bits, <) IN [k \in DOMAIN at |-> loc.entries[at[k]].name]
NativeRequiredKeys(loc) == NativeKeys(loc, loc.required)
NativeOptionalKeys(loc) == NativeKeys(loc, DOMAIN loc.entries \ loc.required)

(***************************************************************************)
(* The Ruby object.  A Hash keeps the place of a key that is set again.    *)
(***************************************************************************)
Keys(hash) == [k \in DOMAIN hash |-> hash[k][1]]
Aset(hash, key, value) ==
    LET i == SelectInSeq(hash, LAMBDA pair : pair[1] = key) IN
    IF i = 0 THEN Append(hash, <<key, value>>) ELSE [hash EXCEPT ![i] = <<key, value>>]

PureNew(range) == [range |-> range, required |-> <<>>, optional |-> <<>>]
PureAddRequired(loc, name, range) == [loc EXCEPT !.required = Aset(@, name, range)]
PureAddOptional(loc, name, range) == [loc EXCEPT !.optional = Aset(@, name, range)]
PureAddNoChild(loc, name) == [loc EXCEPT !.optional = Aset(@, name, NullRange)]

PureRef(loc, name) ==
    LET r == SelectInSeq(loc.required, LAMBDA pair : pair[1] = name)
        o == SelectInSeq(loc.optional, LAMBDA pair : pair[1] = name)
    IN  CASE r # 0 -> At(loc.required[r][2])
          [] r = 0 /\ o # 0 -> IF loc.optional[o][2] = NullRange THEN Nil ELSE At(loc.optional[o][2])
          [] OTHER -> Raise("Unknown child name given")

(***************************************************************************)
(* What a program sees of a location: its range, the keys that             *)
(* each_required_key and each_optional_key give, and what [] answers.      *)
(***************************************************************************)
Uniq(keys) == FoldLeft(LAMBDA seen, k : IF Contains(seen, k) THEN seen ELSE Append(seen, k), <<>>, keys)

Seen(range, required, optional, Ref(_)) ==
    [is |-> "location", range |-> range, required |-> Uniq(required), optional |-> Uniq(optional),
     at |-> [name \in ToSet(required) \cup ToSet(optional) |-> Ref(name)]]

SeenNative(loc) ==
    IF loc.raised THEN Raise("Too many children added to location")
    ELSE Seen(loc.range, NativeRequiredKeys(loc), NativeOptionalKeys(loc), LAMBDA n : NativeRef(loc, n))
SeenPure(loc) ==
    Seen(loc.range, Keys(loc.required), Keys(loc.optional), LAMBDA n : PureRef(loc, n))

=============================================================================
