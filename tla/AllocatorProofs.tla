-------------------------- MODULE AllocatorProofs --------------------------
(***************************************************************************)
(* Proofs about Allocator, for every page size, header, set of alignments, *)
(* sizes and addresses that meets its assumptions.  The arithmetic comes   *)
(* first: AlignUp returns the least multiple that is large enough.  That a *)
(* block fits in the page opened for it then follows from the page's end   *)
(* being a multiple of every alignment.                                    *)
(***************************************************************************)
EXTENDS Allocator, TLAPS

\* Division with remainder, as the provers know it.
LEMMA DivMod ==
  ASSUME NEW n \in Nat, NEW a \in Nat \ {0}
  PROVE  /\ n = a * (n \div a) + (n % a)
         /\ n % a \in 0..(a - 1)
         /\ n \div a \in Nat
  OBVIOUS

\* A multiple leaves no remainder.
LEMMA MultipleMod ==
  ASSUME NEW q \in Nat, NEW a \in Nat \ {0}
  PROVE  (q * a) % a = 0
  BY Z3

\* rbs_align_up_uintptr returns a multiple of the alignment that is at least the
\* value, and less than an alignment above it.
LEMMA AlignUpBounds ==
  ASSUME NEW v \in Nat, NEW a \in Nat \ {0}
  PROVE  /\ AlignUp(v, a) \in Nat
         /\ v <= AlignUp(v, a) /\ AlignUp(v, a) <= v + (a - 1)
         /\ AlignUp(v, a) % a = 0
<1> DEFINE n == v + (a - 1)
           q == n \div a
<1>1. n \in Nat /\ q \in Nat
  BY DivMod
<1>2. n = a * q + (n % a) /\ n % a \in 0..(a - 1)
  BY <1>1, DivMod
<1>3. a * q = q * a
  BY <1>1
<1>4. q * a \in Nat
  BY <1>1
<1> HIDE DEF q
<1>5. (q * a) % a = 0
  BY <1>1, MultipleMod
<1>6. v <= q * a /\ q * a <= v + (a - 1)
  BY <1>1, <1>2, <1>3, <1>4
<1> QED
  BY <1>4, <1>5, <1>6 DEF AlignUp, q

\* It is the least such multiple: it does not pass a multiple that is large enough.
LEMMA AlignUpIsLeast ==
  ASSUME NEW v \in Nat, NEW a \in Nat \ {0}, NEW m \in Nat, v <= m, m % a = 0
  PROVE  AlignUp(v, a) <= m
<1> DEFINE k == m \div a
           q == (v + (a - 1)) \div a
<1>1. k \in Nat /\ m = k * a
  BY DivMod
<1>2. q \in Nat /\ q * a <= v + (a - 1)
  BY AlignUpBounds, DivMod DEF AlignUp
<1> HIDE DEF k, q
<1>3. q <= k
  <2>1. SUFFICES ASSUME q >= k + 1 PROVE FALSE
    BY <1>1, <1>2
  <2>2. q * a >= (k + 1) * a
    BY <1>1, <1>2, <2>1
  <2>3. (k + 1) * a = k * a + a
    BY <1>1
  <2> QED
    BY <1>1, <1>2, <2>2, <2>3
<1>4. q * a <= k * a
  BY <1>1, <1>2, <1>3
<1> QED
  BY <1>1, <1>4 DEF AlignUp, q

\* The sum of two multiples is a multiple, and so is their difference.
LEMMA SumOfMultiples ==
  ASSUME NEW m \in Nat, NEW n \in Nat, NEW a \in Nat \ {0}, m % a = 0, n % a = 0
  PROVE  (m + n) % a = 0 /\ (n <= m => (m - n) % a = 0)
<1> DEFINE j == m \div a
           k == n \div a
<1>1. j \in Nat /\ k \in Nat /\ m = j * a /\ n = k * a
  BY DivMod
<1> HIDE DEF j, k
<1>2. m + n = (j + k) * a /\ m - n = (j - k) * a
  BY <1>1
<1>3. n <= m => j - k \in Nat
  <2>1. SUFFICES ASSUME n <= m, k >= j + 1 PROVE FALSE
    BY <1>1
  <2>2. k * a >= (j + 1) * a
    BY <1>1, <2>1
  <2>3. (j + 1) * a = j * a + a
    BY <1>1
  <2> QED
    BY <1>1, <2>1, <2>2, <2>3
<1>4. (m + n) % a = 0
  BY <1>1, <1>2, MultipleMod, j + k \in Nat
<1>5. n <= m => (m - n) % a = 0
  BY <1>2, <1>3, MultipleMod
<1> QED
  BY <1>4, <1>5

-----------------------------------------------------------------------------
(* Where a block starts in a page.                                         *)

\* rbs_allocator_normalize_page_size leaves room for at least one byte.
LEMMA PayloadIsPositive == PageSize \in Nat /\ Payload \in Nat \ {0}
  BY PageAssumption DEF PageSize, Payload

\* Taking more of a page leaves its place and size.
LEMMA UsingAPage ==
  ASSUME NEW page \in Page, NEW used \in Nat
  PROVE  LET new == [page EXCEPT !.used = used]
         IN  /\ new \in Page /\ new.used = used
             /\ new.address = page.address /\ new.size = page.size
  BY DEF Page

\* An aligned offset is a multiple as an address, and skips less than an alignment.
LEMMA OffsetBounds ==
  ASSUME NEW page \in Page, NEW used \in Nat, NEW a \in Alignment
  PROVE  /\ AlignedOffset(page, used, a) \in Nat
         /\ used <= AlignedOffset(page, used, a)
         /\ AlignedOffset(page, used, a) <= used + (a - 1)
         /\ (Base(page) + AlignedOffset(page, used, a)) % a = 0
<1> DEFINE v == Base(page) + used
<1>1. v \in Nat /\ a \in Nat \ {0} /\ Base(page) \in Nat
  BY PageAssumption, SizeAssumption DEF Page, Base
<1>2. /\ AlignUp(v, a) \in Nat
      /\ v <= AlignUp(v, a) /\ AlignUp(v, a) <= v + (a - 1)
      /\ AlignUp(v, a) % a = 0
  BY <1>1, AlignUpBounds
<1>3. AlignedOffset(page, used, a) = AlignUp(v, a) - Base(page)
  BY DEF AlignedOffset
<1>4. Base(page) + AlignedOffset(page, used, a) = AlignUp(v, a)
  BY <1>1, <1>2, <1>3
<1> HIDE DEF v
<1>5. AlignedOffset(page, used, a) \in Nat
  BY <1>1, <1>2, <1>3 DEF v
<1> QED
  BY <1>1, <1>2, <1>3, <1>4, <1>5 DEF v

\* A request no larger than the payload fits in a page opened for it: the page ends at
\* a multiple of the alignment, and so does the block, if it is put as far back as it
\* can be.
LEMMA FitsInNewPage ==
  ASSUME NEW address \in Address, NEW a \in Alignment, NEW size \in Nat,
         size % a = 0, size <= Payload
  PROVE  AlignedOffset(NewPage(address, Payload), 0, a) + size <= Payload
<1> DEFINE page == NewPage(address, Payload)
           end == address + PageSize
<1>1. /\ a \in Nat \ {0} /\ address \in Nat /\ Header \in Nat /\ PageSize \in Nat
      /\ PageSize % a = 0 /\ address % a = 0
  BY PageAssumption, SizeAssumption, AlignedAssumption, PayloadIsPositive
<1>2. end \in Nat /\ end % a = 0
  <2>1. (address + PageSize) % a = 0
    BY ONLY <1>1, SumOfMultiples, Zenon
  <2> QED
    BY <1>1, <2>1
<1>3. Base(page) = address + Header /\ end = Base(page) + Payload
  BY <1>1 DEF NewPage, Base, Payload
<1>4. Base(page) \in Nat /\ Payload \in Nat
  BY <1>1, <1>3, PayloadIsPositive
<1> HIDE DEF end, page
<1>5. size <= end /\ end - size \in Nat
  BY <1>2, <1>3, <1>4
<1>6. (end - size) % a = 0
  BY <1>1, <1>2, <1>5, SumOfMultiples
<1>7. Base(page) + 0 \in Nat /\ Base(page) + 0 <= end - size
  BY <1>3, <1>4, <1>5
<1>8. AlignUp(Base(page) + 0, a) <= end - size
  BY <1>1, <1>5, <1>6, <1>7, AlignUpIsLeast
<1>9. AlignUp(Base(page) + 0, a) \in Nat
  BY <1>1, <1>7, AlignUpBounds
<1> QED
  BY <1>2, <1>3, <1>4, <1>8, <1>9 DEF AlignedOffset, page

\* A big block fits in its page wherever malloc puts the page: the page is as much
\* larger than the request as aligning can skip.
LEMMA FitsInBigPage ==
  ASSUME NEW address \in Address, NEW a \in Alignment, NEW size \in Nat
  PROVE  AlignedOffset(NewPage(address, size + (a - 1)), 0, a) + size <= size + (a - 1)
<1>1. NewPage(address, size + (a - 1)) \in Page
  BY SizeAssumption DEF NewPage, Page
<1> QED
  BY <1>1, OffsetBounds, SizeAssumption

-----------------------------------------------------------------------------
(* The inductive invariant.                                                *)

\* What has been handed out of the head page lies below its `used`, which is where
\* the next block may start.  The other pages take no more blocks.
HeadIsUsed ==
  \A b \in DOMAIN blocks :
    blocks[b].page = list[1] => blocks[b].offset + blocks[b].size <= pages[list[1]].used

\* The list holds pages only.
ListHoldsPages == \A i \in DOMAIN list : list[i] \in DOMAIN pages

IInv ==
  /\ TypeOK
  /\ HeadIsUsed
  /\ ListHoldsPages
  /\ BlocksStayInTheirPage
  /\ BlocksAreDisjoint
  /\ BlocksAreAligned
  /\ EveryPageIsListedOnce

\* rbs_allocator_init establishes the invariant.
LEMMA InitEstablishes == Init => IInv
<1> SUFFICES ASSUME Init PROVE IInv
  OBVIOUS
<1>1. PICK p \in Address : pages = <<NewPage(p, Payload)>>
  BY DEF Init
<1>2. NewPage(p, Payload) \in Page
  BY SizeAssumption, PayloadIsPositive DEF NewPage, Page
<1>3. pages \in Seq(Page) /\ DOMAIN pages = {1} /\ list = <<1>> /\ blocks = <<>>
  BY <1>1, <1>2 DEF Init
<1>4. list \in Seq(Nat) /\ list # <<>> /\ list[1] = 1 /\ DOMAIN list = {1} /\ blocks \in Seq(Block)
      /\ DOMAIN blocks = {}
  BY <1>3
<1> QED
  BY <1>3, <1>4 DEF IInv, TypeOK, HeadIsUsed, ListHoldsPages, BlocksStayInTheirPage,
                    BlocksAreDisjoint, BlocksAreAligned, EveryPageIsListedOnce

\* What a malloc changes, as far as the invariant can tell: one block is added, in a
\* page that either is new or was the head, and behind everything that is in it.
LEMMA AddingABlock ==
  ASSUME IInv,
         NEW block \in Block,
         blocks' = Append(blocks, block),
         pages' \in Seq(Page), DOMAIN pages \subseteq DOMAIN pages', block.page \in DOMAIN pages',
         \A p \in DOMAIN pages : pages'[p].address = pages[p].address
                               /\ pages'[p].size = pages[p].size,
         block.offset + block.size <= pages'[block.page].size,
         (Base(pages'[block.page]) + block.offset) % block.alignment = 0,
         \A b \in DOMAIN blocks : blocks[b].page = block.page
                                 => blocks[b].offset + blocks[b].size <= block.offset
  PROVE  /\ blocks' \in Seq(Block)
         /\ \A b \in DOMAIN blocks' : blocks'[b].page \in DOMAIN pages'
         /\ BlocksStayInTheirPage' /\ BlocksAreDisjoint' /\ BlocksAreAligned'
<1>1. /\ blocks \in Seq(Block) /\ pages \in Seq(Page)
      /\ \A b \in DOMAIN blocks : blocks[b].page \in DOMAIN pages
  BY DEF IInv, TypeOK
<1>2. /\ blocks' \in Seq(Block) /\ DOMAIN blocks' = DOMAIN blocks \cup {Len(blocks) + 1}
      /\ blocks'[Len(blocks) + 1] = block
      /\ \A b \in DOMAIN blocks : blocks'[b] = blocks[b]
      /\ Len(blocks) + 1 \notin DOMAIN blocks
  BY <1>1
<1>3. \A b \in DOMAIN blocks' : blocks'[b].page \in DOMAIN pages'
  BY <1>1, <1>2
<1>4. BlocksStayInTheirPage'
  BY <1>1, <1>2 DEF IInv, BlocksStayInTheirPage
<1>5. BlocksAreDisjoint'
  <2> SUFFICES ASSUME NEW b \in DOMAIN blocks', NEW c \in DOMAIN blocks', b # c,
                      blocks'[b].page = blocks'[c].page
               PROVE  \/ blocks'[b].offset + blocks'[b].size <= blocks'[c].offset
                      \/ blocks'[c].offset + blocks'[c].size <= blocks'[b].offset
    BY DEF BlocksAreDisjoint
  <2>1. CASE b \in DOMAIN blocks /\ c \in DOMAIN blocks
    BY <1>2, <2>1 DEF IInv, BlocksAreDisjoint
  <2>2. CASE b \in DOMAIN blocks /\ c = Len(blocks) + 1
    BY <1>2, <2>2
  <2>3. CASE b = Len(blocks) + 1 /\ c \in DOMAIN blocks
    BY <1>2, <2>3
  <2> QED
    BY <1>2, <2>1, <2>2, <2>3
<1>6. BlocksAreAligned'
  <2> SUFFICES ASSUME NEW b \in DOMAIN blocks'
               PROVE  (Base(pages'[blocks'[b].page]) + blocks'[b].offset) % blocks'[b].alignment = 0
    BY DEF BlocksAreAligned
  <2>1. CASE b = Len(blocks) + 1
    BY <1>2, <2>1
  <2>2. CASE b \in DOMAIN blocks
    <3>1. Base(pages'[blocks[b].page]) = Base(pages[blocks[b].page])
      BY <1>1, <2>2 DEF Base
    <3>2. (Base(pages[blocks[b].page]) + blocks[b].offset) % blocks[b].alignment = 0
      BY <2>2 DEF IInv, BlocksAreAligned
    <3> QED
      BY <1>2, <2>2, <3>1, <3>2
  <2> QED
    BY <1>2, <2>1, <2>2
<1> QED
  BY <1>2, <1>3, <1>4, <1>5, <1>6

\* A page linked in at the front or behind the head is in the list once, and the other
\* pages are in it as they were.
LEMMA LinkingAPage ==
  ASSUME IInv,
         pages' \in Seq(Page), Len(pages') = Len(pages) + 1,
         \/ list' = <<Len(pages) + 1>> \o list
         \/ list' = <<Head(list), Len(pages) + 1>> \o Tail(list)
  PROVE  /\ list' \in Seq(Nat) /\ list' # <<>> /\ list'[1] \in DOMAIN pages'
         /\ ListHoldsPages' /\ EveryPageIsListedOnce'
<1> DEFINE n == Len(pages) + 1
           L == Len(list)
<1>1. /\ pages \in Seq(Page) /\ list \in Seq(Nat) /\ list # <<>>
      /\ DOMAIN pages = 1..Len(pages) /\ DOMAIN list = 1..L /\ L \in Nat \ {0}
      /\ DOMAIN pages' = 1..n /\ n \in Nat /\ n \notin DOMAIN pages
  BY DEF IInv, TypeOK
<1>2. PICK k \in {1, 2} :
        /\ list' \in Seq(Nat) /\ DOMAIN list' = 1..(L + 1)
        /\ list'[k] = n
        /\ \A i \in 1..L : list'[IF i < k THEN i ELSE i + 1] = list[i]
  <2>1. CASE list' = <<n>> \o list
    <3>1. /\ list' \in Seq(Nat) /\ DOMAIN list' = 1..(L + 1)
          /\ list'[1] = n
          /\ \A i \in 1..L : list'[i + 1] = list[i]
      BY <1>1, <2>1
    <3> QED
      BY <3>1, SMTT(20)
  <2>2. CASE list' = <<Head(list), n>> \o Tail(list)
    <3>1. /\ Tail(list) \in Seq(Nat) /\ Len(Tail(list)) = L - 1
          /\ \A i \in 1..(L - 1) : Tail(list)[i] = list[i + 1]
          /\ Head(list) = list[1] /\ Head(list) \in Nat
      BY <1>1
    <3>2. /\ list' \in Seq(Nat) /\ DOMAIN list' = 1..(L + 1)
          /\ list'[1] = list[1] /\ list'[2] = n
          /\ \A i \in 1..(L - 1) : list'[i + 2] = Tail(list)[i]
      BY <1>1, <2>2, <3>1
    <3>3. \A i \in 2..L : list'[i + 1] = list[i]
      <4> SUFFICES ASSUME NEW i \in 2..L PROVE list'[i + 1] = list[i]
        OBVIOUS
      <4>1. i - 1 \in 1..(L - 1) /\ (i - 1) + 2 = i + 1 /\ (i - 1) + 1 = i
        BY <1>1
      <4> QED
        BY <3>1, <3>2, <4>1
    <3> QED
      BY <1>1, <3>2, <3>3
  <2> QED
    BY <2>1, <2>2
<1> DEFINE at(i) == IF i < k THEN i ELSE i + 1
<1>3. \A j \in 1..(L + 1) : j = k \/ \E i \in 1..L : j = at(i)
  <2> SUFFICES ASSUME NEW j \in 1..(L + 1), j # k PROVE \E i \in 1..L : j = at(i)
    OBVIOUS
  <2>1. CASE j < k
    BY <1>1, <2>1
  <2>2. CASE j > k
    <3>1. j - 1 \in 1..L /\ at(j - 1) = j
      BY <1>1, <2>2
    <3> QED
      BY <3>1
  <2> QED
    BY <1>1, <2>1, <2>2
<1>4. \A i \in 1..L : at(i) \in 1..(L + 1) /\ at(i) # k /\ list'[at(i)] = list[i]
  BY <1>1, <1>2
<1>5. k \in 1..(L + 1)
  BY <1>1
<1>6. \A i \in 1..L : list[i] \in DOMAIN pages
  BY <1>1 DEF IInv, ListHoldsPages
<1>7. DOMAIN pages' = DOMAIN pages \cup {n} /\ 1 \in 1..(L + 1)
  BY <1>1
<1> HIDE DEF at, n, L
<1>8. \A j \in 1..(L + 1) : list'[j] \in DOMAIN pages'
  <2> SUFFICES ASSUME NEW j \in 1..(L + 1) PROVE list'[j] \in DOMAIN pages'
    OBVIOUS
  <2>1. CASE j = k
    BY <1>2, <1>7, <2>1
  <2>2. CASE \E i \in 1..L : j = at(i)
    BY <1>4, <1>6, <1>7, <2>2
  <2> QED
    BY <1>3, <2>1, <2>2
<1>9. ListHoldsPages'
  BY <1>2, <1>8 DEF ListHoldsPages
<1>10. ASSUME NEW p \in DOMAIN pages'
       PROVE  \E i \in DOMAIN list' : list'[i] = p /\ \A j \in DOMAIN list' : list'[j] = p => j = i
  <2>1. CASE p = n
    <3>1. ASSUME NEW j \in 1..(L + 1), list'[j] = n PROVE j = k
      <4>1. \A i \in 1..L : list'[at(i)] # n
        BY <1>1, <1>4, <1>6
      <4> QED
        BY <1>3, <3>1, <4>1
    <3> QED
      BY <1>2, <1>5, <2>1, <3>1
  <2>2. CASE p \in DOMAIN pages
    <3>1. PICK i \in 1..L : list[i] = p /\ \A j \in 1..L : list[j] = p => j = i
      <4>1. \E i \in DOMAIN list : list[i] = p /\ \A j \in DOMAIN list : list[j] = p => j = i
        BY ONLY IInv, <2>2, Zenon DEF IInv, EveryPageIsListedOnce
      <4>2. DOMAIN list = 1..L
        BY <1>1
      <4> QED
        BY ONLY <4>1, <4>2, Zenon
    <3>2. ASSUME NEW j \in 1..(L + 1), list'[j] = p PROVE j = at(i)
      <4>1. j # k
        BY <1>1, <1>2, <2>2, <3>2
      <4>2. PICK m \in 1..L : j = at(m)
        BY <1>3, <4>1
      <4>3. m = i
        BY <1>4, <3>1, <3>2, <4>2
      <4> QED
        BY <4>2, <4>3
    <3> QED
      BY <1>2, <1>4, <3>1, <3>2
  <2> QED
    BY <1>7, <2>1, <2>2
<1>11. EveryPageIsListedOnce'
  BY <1>10 DEF EveryPageIsListedOnce
<1>12. list' # <<>> /\ list'[1] \in DOMAIN pages'
  BY <1>2, <1>7, <1>8
<1> QED
  BY <1>2, <1>9, <1>11, <1>12

-----------------------------------------------------------------------------
(* Every step preserves the invariant.                                     *)

\* rbs_allocator_malloc_impl's first branch: a page of its own, behind the head.
LEMMA MallocBigPreserves ==
  ASSUME IInv, NEW r \in Request, MallocBig(r[1], r[2])
  PROVE  IInv'
<1> DEFINE size == r[1]
           a == r[2]
           n == Len(pages) + 1
<1>1. size \in Nat /\ a \in Alignment /\ a \in Nat \ {0}
  BY SizeAssumption DEF Request
<1>2. PICK p \in Address :
        /\ pages' = Append(pages, NewPage(p, size + (a - 1)))
        /\ blocks' = Append(blocks, [page |-> n,
                                    offset |-> AlignedOffset(NewPage(p, size + (a - 1)), 0, a),
                                    size |-> size, alignment |-> a])
  BY DEF MallocBig, Return
<1>3. list' = <<Head(list), n>> \o Tail(list)
  BY DEF MallocBig
<1> DEFINE page == NewPage(p, size + (a - 1))
           offset == AlignedOffset(page, 0, a)
           block == [page |-> n, offset |-> offset, size |-> size, alignment |-> a]
<1>4. page \in Page /\ page.size = size + (a - 1)
  BY <1>1, SizeAssumption DEF NewPage, Page
<1>5. /\ offset \in Nat /\ (Base(page) + offset) % a = 0
      /\ offset + size <= page.size
  BY <1>1, <1>4, OffsetBounds, FitsInBigPage
<1> HIDE DEF page, offset, size, a
<1>6. /\ pages \in Seq(Page) /\ list \in Seq(Nat) /\ list # <<>> /\ list[1] \in DOMAIN pages
      /\ \A b \in DOMAIN blocks : blocks[b].page \in DOMAIN pages
  BY DEF IInv, TypeOK
<1>7. /\ pages' \in Seq(Page) /\ Len(pages') = Len(pages) + 1
      /\ DOMAIN pages' = DOMAIN pages \cup {n} /\ n \notin DOMAIN pages
      /\ pages'[n] = page /\ \A q \in DOMAIN pages : pages'[q] = pages[q]
  BY <1>2, <1>4, <1>6 DEF page, size, a
<1>8. block \in Block /\ blocks' = Append(blocks, block)
  BY <1>1, <1>2, <1>5, <1>6 DEF Block, page, offset, size, a
<1>9. /\ blocks' \in Seq(Block)
      /\ \A b \in DOMAIN blocks' : blocks'[b].page \in DOMAIN pages'
      /\ BlocksStayInTheirPage' /\ BlocksAreDisjoint' /\ BlocksAreAligned'
  <2>1. block.page = n /\ block.offset = offset /\ block.size = size /\ block.alignment = a
    OBVIOUS
  <2> HIDE DEF block, n
  <2> QED
    BY <1>5, <1>6, <1>7, <1>8, <2>1, AddingABlock
<1>10. /\ list' \in Seq(Nat) /\ list' # <<>> /\ list'[1] \in DOMAIN pages'
       /\ ListHoldsPages' /\ EveryPageIsListedOnce'
  BY <1>3, <1>7, LinkingAPage
<1>11. list'[1] = list[1]
  BY <1>3, <1>6
<1>12. HeadIsUsed'
  <2> SUFFICES ASSUME NEW b \in DOMAIN blocks', blocks'[b].page = list'[1]
               PROVE  blocks'[b].offset + blocks'[b].size <= pages'[list'[1]].used
    BY DEF HeadIsUsed
  <2>1. /\ blocks \in Seq(Block) /\ DOMAIN blocks' = DOMAIN blocks \cup {Len(blocks) + 1}
        /\ blocks'[Len(blocks) + 1] = block /\ \A c \in DOMAIN blocks : blocks'[c] = blocks[c]
    BY <1>8 DEF IInv, TypeOK
  <2>2. b \in DOMAIN blocks
    BY <1>6, <1>7, <1>11, <2>1
  <2> QED
    BY <1>6, <1>7, <1>11, <2>1, <2>2 DEF IInv, HeadIsUsed
<1> QED
  BY <1>7, <1>9, <1>10, <1>12 DEF IInv, TypeOK

\* Its second branch when the head page has room: the block starts behind what is used.
LEMMA MallocInHeadPreserves ==
  ASSUME IInv, NEW r \in Request, MallocInHead(r[1], r[2])
  PROVE  IInv'
<1> DEFINE size == r[1]
           a == r[2]
           h == list[1]
           offset == AlignedOffset(pages[h], pages[h].used, a)
           block == [page |-> h, offset |-> offset, size |-> size, alignment |-> a]
<1>1. size \in Nat /\ a \in Alignment /\ a \in Nat \ {0}
  BY SizeAssumption DEF Request
<1>2. /\ pages \in Seq(Page) /\ list \in Seq(Nat) /\ list # <<>> /\ h \in DOMAIN pages
      /\ \A b \in DOMAIN blocks : blocks[b].page \in DOMAIN pages
      /\ Head(list) = h /\ pages[h] \in Page
  BY DEF IInv, TypeOK
<1>3. /\ offset + size <= pages[h].size
      /\ pages' = [pages EXCEPT ![h].used = offset + size]
      /\ blocks' = Append(blocks, block)
      /\ list' = list
  BY <1>2 DEF MallocInHead, Return, HeadOffset
<1>4. /\ offset \in Nat /\ pages[h].used <= offset /\ (Base(pages[h]) + offset) % a = 0
  BY <1>1, <1>2, OffsetBounds DEF Page
<1>5. block \in Block
  BY <1>1, <1>2, <1>4 DEF Block
<1>6. block.page = h /\ block.offset = offset /\ block.size = size /\ block.alignment = a
  OBVIOUS
<1> HIDE DEF offset, size, a, block, h
<1>7. /\ pages' \in Seq(Page) /\ Len(pages') = Len(pages) /\ DOMAIN pages' = DOMAIN pages
      /\ pages'[h].address = pages[h].address /\ pages'[h].size = pages[h].size
      /\ pages'[h].used = offset + size
      /\ \A q \in DOMAIN pages : q # h => pages'[q] = pages[q]
  <2> DEFINE page == [pages[h] EXCEPT !.used = offset + size]
  <2>1. /\ page \in Page /\ page.used = offset + size
        /\ page.address = pages[h].address /\ page.size = pages[h].size
    <3>1. offset + size \in Nat /\ pages[h] \in Page
      BY <1>1, <1>2, <1>4
    <3> QED
      BY ONLY <3>1, UsingAPage
  <2>2. pages' = [pages EXCEPT ![h] = page]
    BY <1>3
  <2> HIDE DEF page
  <2> QED
    BY <1>2, <2>1, <2>2
<1>8. \A q \in DOMAIN pages : pages'[q].address = pages[q].address /\ pages'[q].size = pages[q].size
  BY <1>7
<1>9. \A b \in DOMAIN blocks : blocks[b].page = h =>
         /\ blocks[b].offset + blocks[b].size <= pages[h].used
         /\ blocks[b].offset + blocks[b].size \in Nat
  <2>1. \A b \in DOMAIN blocks : blocks[b].page = h =>
           blocks[b].offset + blocks[b].size <= pages[h].used
    BY DEF IInv, HeadIsUsed, h
  <2>2. \A b \in DOMAIN blocks : blocks[b] \in Block
    BY DEF IInv, TypeOK
  <2> QED
    BY <2>1, <2>2 DEF Block
<1>10. Base(pages'[h]) = Base(pages[h])
  BY <1>7 DEF Base
<1>11. pages[h].used \in Nat
  BY <1>2 DEF Page
<1>12. \A b \in DOMAIN blocks : blocks[b].page = block.page
                              => blocks[b].offset + blocks[b].size <= block.offset
  BY <1>4, <1>6, <1>9, <1>11
<1>13. /\ blocks' \in Seq(Block)
       /\ \A b \in DOMAIN blocks' : blocks'[b].page \in DOMAIN pages'
       /\ BlocksStayInTheirPage' /\ BlocksAreDisjoint' /\ BlocksAreAligned'
  BY <1>2, <1>3, <1>4, <1>5, <1>6, <1>7, <1>8, <1>10, <1>12, AddingABlock
<1>14. HeadIsUsed'
  <2> SUFFICES ASSUME NEW b \in DOMAIN blocks', blocks'[b].page = h
               PROVE  blocks'[b].offset + blocks'[b].size <= offset + size
    BY <1>3, <1>7 DEF HeadIsUsed, h
  <2>1. /\ blocks \in Seq(Block) /\ DOMAIN blocks' = DOMAIN blocks \cup {Len(blocks) + 1}
        /\ blocks'[Len(blocks) + 1] = block /\ \A c \in DOMAIN blocks : blocks'[c] = blocks[c]
    BY <1>3, <1>5 DEF IInv, TypeOK
  <2>2. CASE b = Len(blocks) + 1
    BY <1>1, <1>4, <1>6, <2>1, <2>2
  <2>3. CASE b \in DOMAIN blocks
    BY <1>1, <1>4, <1>9, <1>11, <2>1, <2>3
  <2> QED
    BY <2>1, <2>2, <2>3
<1>15. ListHoldsPages' /\ EveryPageIsListedOnce'
  BY <1>3, <1>7 DEF IInv, ListHoldsPages, EveryPageIsListedOnce
<1> QED
  BY <1>2, <1>3, <1>7, <1>13, <1>14, <1>15 DEF IInv, TypeOK, h

\* Its second branch when it has not: the first block of a new head page fits.
LEMMA MallocInNewPagePreserves ==
  ASSUME IInv, NEW r \in Request, MallocInNewPage(r[1], r[2])
  PROVE  IInv'
<1> DEFINE size == r[1]
           a == r[2]
           n == Len(pages) + 1
<1>1. size \in Nat /\ a \in Alignment /\ a \in Nat \ {0} /\ size % a = 0 /\ size <= Payload
  BY SizeAssumption DEF Request, MallocInNewPage
<1>2. PICK p \in Address :
        LET fresh == NewPage(p, Payload)
            start == AlignedOffset(fresh, 0, a)
        IN  /\ pages' = Append(pages, [fresh EXCEPT !.used = start + size])
            /\ blocks' = Append(blocks, [page |-> n, offset |-> start, size |-> size,
                                        alignment |-> a])
  BY DEF MallocInNewPage, Return
<1>3. list' = <<n>> \o list
  BY DEF MallocInNewPage
<1> DEFINE fresh == NewPage(p, Payload)
           offset == AlignedOffset(fresh, 0, a)
           page == [fresh EXCEPT !.used = offset + size]
           block == [page |-> n, offset |-> offset, size |-> size, alignment |-> a]
<1>4. fresh \in Page /\ fresh.size = Payload
  BY SizeAssumption, PayloadIsPositive DEF NewPage, Page
<1>5. offset \in Nat /\ (Base(fresh) + offset) % a = 0 /\ offset + size <= Payload
  BY <1>1, <1>4, OffsetBounds, FitsInNewPage
<1> HIDE DEF fresh, offset, size, a
<1>6. /\ page \in Page /\ page.size = Payload /\ page.used = offset + size
      /\ Base(page) = Base(fresh)
  BY <1>1, <1>4, <1>5 DEF Page, Base
<1>7. /\ pages \in Seq(Page) /\ list \in Seq(Nat) /\ list # <<>> /\ list[1] \in DOMAIN pages
      /\ \A b \in DOMAIN blocks : blocks[b].page \in DOMAIN pages
  BY DEF IInv, TypeOK
<1>8. block \in Block /\ pages' = Append(pages, page) /\ blocks' = Append(blocks, block)
  BY <1>1, <1>2, <1>5, <1>7 DEF Block, fresh, offset, size, a
<1>9. block.page = n /\ block.offset = offset /\ block.size = size /\ block.alignment = a
  OBVIOUS
<1> HIDE DEF page, block
<1>10. /\ pages' \in Seq(Page) /\ Len(pages') = Len(pages) + 1
       /\ DOMAIN pages' = DOMAIN pages \cup {n} /\ n \notin DOMAIN pages
       /\ pages'[n] = page /\ \A q \in DOMAIN pages : pages'[q] = pages[q]
  BY <1>6, <1>7, <1>8
<1>11. /\ list' \in Seq(Nat) /\ list' # <<>> /\ list'[1] \in DOMAIN pages'
       /\ ListHoldsPages' /\ EveryPageIsListedOnce'
  BY <1>3, <1>10, LinkingAPage
<1>12. list'[1] = n
  BY <1>3, <1>7
<1> HIDE DEF n
<1>13. /\ blocks' \in Seq(Block)
       /\ \A b \in DOMAIN blocks' : blocks'[b].page \in DOMAIN pages'
       /\ BlocksStayInTheirPage' /\ BlocksAreDisjoint' /\ BlocksAreAligned'
  BY <1>5, <1>6, <1>7, <1>8, <1>9, <1>10, AddingABlock
<1>14. HeadIsUsed'
  <2> SUFFICES ASSUME NEW b \in DOMAIN blocks', blocks'[b].page = n
               PROVE  blocks'[b].offset + blocks'[b].size <= offset + size
    BY <1>6, <1>10, <1>12 DEF HeadIsUsed
  <2>1. /\ blocks \in Seq(Block) /\ DOMAIN blocks' = DOMAIN blocks \cup {Len(blocks) + 1}
        /\ blocks'[Len(blocks) + 1] = block /\ \A c \in DOMAIN blocks : blocks'[c] = blocks[c]
    BY <1>8 DEF IInv, TypeOK
  <2>2. b = Len(blocks) + 1
    BY <1>7, <1>10, <2>1
  <2> QED
    BY <1>1, <1>5, <1>9, <2>1, <2>2
<1> QED
  BY <1>10, <1>11, <1>13, <1>14 DEF IInv, TypeOK

\* Every step of the arena preserves the invariant.
LEMMA StepPreserves == IInv /\ [Next]_vars => IInv'
<1> SUFFICES ASSUME IInv, [Next]_vars PROVE IInv'
  OBVIOUS
<1>1. CASE \E r \in Request : Malloc(r[1], r[2])
  BY <1>1, MallocBigPreserves, MallocInHeadPreserves, MallocInNewPagePreserves DEF Malloc
<1>2. CASE Free \/ UNCHANGED vars
  <2>1. pages' = pages /\ list' = list /\ blocks' = blocks
    BY <1>2 DEF Free, vars
  <2> QED
    BY <2>1 DEF IInv, TypeOK, HeadIsUsed, ListHoldsPages, BlocksStayInTheirPage,
                BlocksAreDisjoint, BlocksAreAligned, EveryPageIsListedOnce
<1> QED
  BY <1>1, <1>2 DEF Next

\* The invariant holds in every state the arena can be in.
LEMMA Invariance == Spec => []IInv
  BY InitEstablishes, StepPreserves, PTL DEF Spec

-----------------------------------------------------------------------------

\* The arena's state has its type: offsets are never negative, and blocks lie in pages.
THEOREM TypeCorrect == Spec => []TypeOK
<1>1. IInv => TypeOK
  BY DEF IInv
<1> QED
  BY <1>1, Invariance, PTL

\* rbs_allocator_malloc_impl never returns memory behind the end of a page, though it
\* does not check that a block fits in the page it has just opened.
THEOREM InTheirPage == Spec => []BlocksStayInTheirPage
<1>1. IInv => BlocksStayInTheirPage
  BY DEF IInv
<1> QED
  BY <1>1, Invariance, PTL

\* rbs_allocator_malloc_impl never returns memory that was returned before.
THEOREM Disjoint == Spec => []BlocksAreDisjoint
<1>1. IInv => BlocksAreDisjoint
  BY DEF IInv
<1> QED
  BY <1>1, Invariance, PTL

\* rbs_allocator_malloc_impl returns memory aligned as asked, whatever the header's size.
THEOREM Aligned == Spec => []BlocksAreAligned
<1>1. IInv => BlocksAreAligned
  BY DEF IInv
<1> QED
  BY <1>1, Invariance, PTL

\* rbs_allocator_free meets every page once.
THEOREM ListedOnce == Spec => []EveryPageIsListedOnce
<1>1. IInv => EveryPageIsListedOnce
  BY DEF IInv
<1> QED
  BY <1>1, Invariance, PTL
=============================================================================
