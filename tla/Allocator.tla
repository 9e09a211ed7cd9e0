------------------------------ MODULE Allocator ------------------------------
(***************************************************************************)
(* The arena all parser memory comes from, src/util/rbs_allocator.c: a     *)
(* linked list of pages.  Small requests are served from the head page,    *)
(* behind what is used of it; a request larger than a page's payload gets  *)
(* a page of its own, which is linked in *behind* the head.  Nothing is    *)
(* freed before the whole arena is.                                        *)
(*                                                                         *)
(* Pages are disjoint memory (malloc's promise), so a block is a page and  *)
(* a range of bytes of its payload; of a page's address only what it is a  *)
(* multiple of matters.  calloc_impl, malloc_many_impl and realloc_impl    *)
(* are malloc_impl and a memset or memcpy into the block it returned.      *)
(***************************************************************************)
EXTENDS Integers, Sequences

CONSTANTS SystemPage,   \* what sysconf(_SC_PAGESIZE) returns, a long
          FallbackPage, \* 4096
          Header,       \* sizeof(rbs_allocator_page_t)
          Alignment,    \* the alignments of the types that get allocated
          Address,      \* the addresses malloc may return
          Size,         \* the sizes that are requested
          MaxBlocks     \* bound: the requests made of one arena

\* rbs_allocator_normalize_page_size: a page has at least one byte of payload.
PageSize == IF SystemPage <= Header THEN FallbackPage ELSE SystemPage

Payload == PageSize - Header

ASSUME PageAssumption ==
  SystemPage \in Int /\ Header \in Nat /\ FallbackPage \in Nat /\ Header < FallbackPage
ASSUME SizeAssumption == Alignment \subseteq Nat \ {0} /\ Address \subseteq Nat /\ Size \subseteq Nat
\* malloc aligns for every type, and a page is a multiple of every alignment.
ASSUME AlignedAssumption ==
  \A a \in Alignment : PageSize % a = 0 /\ \A p \in Address : p % a = 0
ASSUME BlocksAssumption == MaxBlocks \in Nat

VARIABLES pages,    \* every page malloc returned: its address, size and used
          list,     \* the linked list from allocator->page, as indexes into pages
          blocks,   \* every block returned: its page, offset, size and alignment
          freed     \* the pages given back to free(), once the arena is freed

vars == <<pages, list, blocks, freed>>

Page == [address : Nat, size : Nat, used : Nat]
Block == [page : Nat, offset : Nat, size : Nat, alignment : Alignment]

\* The first byte of a page's payload.
Base(page) == page.address + Header

\* rbs_align_up_uintptr; the bit trick needs a power of two, this does not.
AlignUp(value, alignment) == ((value + (alignment - 1)) \div alignment) * alignment

\* A mutant of AlignedOffset: the offset is aligned, not the address.
AlignedByOffset(page, used, alignment) == AlignUp(used, alignment)

\* Where in a page a block can start, if the first `used` bytes are taken.
AlignedOffset(page, used, alignment) == AlignUp(Base(page) + used, alignment) - Base(page)

\* The requests the macros of rbs_allocator.h make: sizeof and alignof one type,
\* times a count.
Request == {r \in Size \X Alignment : r[1] % r[2] = 0}

\* rbs_allocator_page_new
NewPage(address, size) == [address |-> address, size |-> size, used |-> 0]

-----------------------------------------------------------------------------

\* rbs_allocator_init
Init ==
  /\ \E p \in Address : pages = <<NewPage(p, Payload)>>
  /\ list = <<1>>
  /\ blocks = <<>>
  /\ freed = {}

Open == freed = {} /\ Len(blocks) < MaxBlocks

Return(page, offset, size, alignment) ==
  blocks' = Append(blocks, [page |-> page, offset |-> offset, size |-> size,
                            alignment |-> alignment])

\* Mutants of MallocBig: no padding to align in; the page becomes the head; the page
\* replaces the head's successor.
MallocBigWithoutPadding(size, alignment) ==
  /\ Open /\ Payload < size
  /\ \E p \in Address :
       LET page == NewPage(p, size)
       IN  /\ pages' = Append(pages, page)
           /\ Return(Len(pages) + 1, AlignedOffset(page, 0, alignment), size, alignment)
  /\ list' = <<Head(list), Len(pages) + 1>> \o Tail(list)
  /\ UNCHANGED freed
MallocBigAsHead(size, alignment) ==
  /\ Open /\ Payload < size
  /\ \E p \in Address :
       LET page == NewPage(p, size + (alignment - 1))
       IN  /\ pages' = Append(pages, page)
           /\ Return(Len(pages) + 1, AlignedOffset(page, 0, alignment), size, alignment)
  /\ list' = <<Len(pages) + 1>> \o list
  /\ UNCHANGED freed
MallocBigLosingTail(size, alignment) ==
  /\ Open /\ Payload < size
  /\ \E p \in Address :
       LET page == NewPage(p, size + (alignment - 1))
       IN  /\ pages' = Append(pages, page)
           /\ Return(Len(pages) + 1, AlignedOffset(page, 0, alignment), size, alignment)
  /\ list' = <<Head(list), Len(pages) + 1>>
  /\ UNCHANGED freed

\* A page of its own, with padding to align in it, spliced in after the head.
\* The page's `used` stays 0.
MallocBig(size, alignment) ==
  /\ Open /\ Payload < size
  /\ \E p \in Address :
       LET page == NewPage(p, size + (alignment - 1))
       IN  /\ pages' = Append(pages, page)
           /\ Return(Len(pages) + 1, AlignedOffset(page, 0, alignment), size, alignment)
  /\ list' = <<Head(list), Len(pages) + 1>> \o Tail(list)
  /\ UNCHANGED freed

\* used_aligned of the head page
HeadOffset(alignment) == AlignedOffset(pages[Head(list)], pages[Head(list)].used, alignment)

MallocInHead(size, alignment) ==
  /\ Open /\ size <= Payload
  /\ HeadOffset(alignment) + size <= pages[Head(list)].size
  /\ pages' = [pages EXCEPT ![Head(list)].used = HeadOffset(alignment) + size]
  /\ Return(Head(list), HeadOffset(alignment), size, alignment)
  /\ UNCHANGED <<list, freed>>

\* Not enough space: a new page becomes the head.  That the block fits there is
\* not checked again.
MallocInNewPage(size, alignment) ==
  /\ Open /\ size <= Payload
  /\ HeadOffset(alignment) + size > pages[Head(list)].size
  /\ \E p \in Address :
       LET page == NewPage(p, Payload)
           offset == AlignedOffset(page, 0, alignment)
       IN  /\ pages' = Append(pages, [page EXCEPT !.used = offset + size])
           /\ Return(Len(pages) + 1, offset, size, alignment)
  /\ list' = <<Len(pages) + 1>> \o list
  /\ UNCHANGED freed

Malloc(size, alignment) ==
  MallocBig(size, alignment) \/ MallocInHead(size, alignment) \/ MallocInNewPage(size, alignment)

\* rbs_allocator_free walks the list and frees every page it meets.
Free ==
  /\ freed = {}
  /\ freed' = {list[i] : i \in DOMAIN list}
  /\ UNCHANGED <<pages, list, blocks>>

Next == (\E r \in Request : Malloc(r[1], r[2])) \/ Free

Spec == Init /\ [][Next]_vars

-----------------------------------------------------------------------------

TypeOK ==
  /\ pages \in Seq(Page)
  /\ list \in Seq(Nat) /\ list # <<>> /\ list[1] \in DOMAIN pages
  /\ blocks \in Seq(Block)
  /\ \A b \in DOMAIN blocks : blocks[b].page \in DOMAIN pages

\* No block reaches over the end of its page, though malloc_impl does not check
\* that a block fits in the page it has just opened for it.
BlocksStayInTheirPage ==
  \A b \in DOMAIN blocks : blocks[b].offset + blocks[b].size <= pages[blocks[b].page].size

\* No two blocks share a byte.  A page made for a big block says `used` = 0, so
\* it must never become the head, where small blocks are put.
BlocksAreDisjoint ==
  \A b, c \in DOMAIN blocks :
    b # c /\ blocks[b].page = blocks[c].page
      => \/ blocks[b].offset + blocks[b].size <= blocks[c].offset
         \/ blocks[c].offset + blocks[c].size <= blocks[b].offset

\* Every block is aligned as its type needs.
BlocksAreAligned ==
  \A b \in DOMAIN blocks :
    (Base(pages[blocks[b].page]) + blocks[b].offset) % blocks[b].alignment = 0

\* rbs_allocator_free reaches every page: none is lost when pages are spliced in,
\* and none is in the list twice.
EveryPageIsListedOnce ==
  \A p \in DOMAIN pages :
    \E i \in DOMAIN list : list[i] = p /\ \A j \in DOMAIN list : list[j] = p => j = i
=============================================================================
