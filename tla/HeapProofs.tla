---------------------------- MODULE HeapProofs ----------------------------
(***************************************************************************)
(* Proofs about the two memory allocators.  First the page allocator, for  *)
(* every number of pages, reserved region and page size.  Then the heap on *)
(* it, for every page size, header size, heap limit and set of request     *)
(* sizes (up to what a machine word can hold), next to other users of the  *)
(* page allocator.  What holds depends on the damage that requests have    *)
(* done: the limit holds always, the statistics, the links and the marks   *)
(* until one header is written over another, and that blocks are disjoint  *)
(* until one strays.  The kernel's own requests make blocks stray.         *)
(***************************************************************************)
EXTENDS Heap, SumProofs

(* The inductive invariant: the types need the count (a clear bit must mean
   that used_pages is below MaxPages) and the count needs the types. *)
PmemInv == PmemTypeOK /\ UsedPagesIsBitmap /\ PagesAccountedFor

(* Distinct pages have distinct base addresses. *)
LEMMA PageBaseInjective ==
    ASSUME NEW p \in Nat, NEW q \in Nat, p * PageSize = q * PageSize
    PROVE  p = q
<1>1. PageSize \in Nat /\ PageSize > 0
  BY PmemAssumption
<1>2. p < q => p * PageSize < q * PageSize
  BY <1>1
<1>3. q < p => q * PageSize < p * PageSize
  BY <1>1
<1>4. QED
  BY <1>1, <1>2, <1>3

(* An aligned address is the base address of its page, and PageOf undoes the
   multiplication ck_pmem_alloc_page returns. *)
LEMMA PageOfBase ==
    ASSUME NEW a \in Nat, a % PageSize = 0
    PROVE  PageOf(a) \in Nat /\ a = PageOf(a) * PageSize
<1>1. PageSize \in Nat /\ PageSize > 0
  BY PmemAssumption
<1>2. QED
  BY <1>1 DEF PageOf

(* A set of pages is finite, so adding or removing one page changes its
   cardinality by one. *)
LEMMA BitmapFinite ==
    ASSUME NEW S \in SUBSET Pages
    PROVE  IsFiniteSet(S) /\ Cardinality(S) \in 0 .. MaxPages
<1>1. MaxPages \in Nat /\ 0 \in Int /\ MaxPages - 1 \in Int
  BY PmemAssumption
<1>2. IsFiniteSet(Pages) /\ Cardinality(Pages) = MaxPages
  BY <1>1, FS_Interval DEF Pages
<1>3. IsFiniteSet(S) /\ Cardinality(S) <= MaxPages
  BY <1>2, FS_Subset
<1>4. Cardinality(S) \in Nat
  BY <1>3, FS_CardinalityType
<1>5. QED
  BY <1>1, <1>3, <1>4

(* ck_pmem_init establishes the invariant. *)
LEMMA PmemInitInv == ck_pmem_init => PmemInv
<1> SUFFICES ASSUME ck_pmem_init PROVE PmemInv
  OBVIOUS
<1>1. Reserved \subseteq Pages
  BY PmemAssumption DEF Reserved, Pages
<1>2. PmemTypeOK
  BY <1>1, PmemAssumption DEF ck_pmem_init, PmemTypeOK
<1>3. Cardinality(Reserved) = ReservedPages
  BY PmemAssumption, FS_Interval DEF Reserved
<1>4. QED
  BY <1>1, <1>2, <1>3
  DEF PmemInv, ck_pmem_init, UsedPagesIsBitmap, PagesAccountedFor

(* A successful ck_pmem_alloc_page preserves the invariant: the page was
   clear, so it was neither reserved nor held. *)
LEMMA AllocPageInv ==
    ASSUME PmemInv, NEW page \in Pages, AllocPage(page)
    PROVE  PmemInv'
<1> USE DEF PmemInv
<1>1. page \in Nat /\ page \notin bitmap /\ bitmap \subseteq Pages
  BY PmemAssumption DEF AllocPage, Pages, PmemTypeOK
<1>2. IsFiniteSet(bitmap) /\ Cardinality(bitmap) \in 0 .. MaxPages
  BY <1>1, BitmapFinite
<1>3. Cardinality(bitmap') = Cardinality(bitmap) + 1
  BY <1>1, <1>2, FS_AddElement DEF AllocPage
<1>4. Cardinality(bitmap') \in 0 .. MaxPages
  <2>1. bitmap' \subseteq Pages
    BY <1>1 DEF AllocPage
  <2>2. QED
    BY <2>1, BitmapFinite
<1>5. used_pages' = Cardinality(bitmap')
  BY <1>2, <1>3, <1>4, PmemAssumption DEF AllocPage, UsedPagesIsBitmap
<1>6. page \notin Reserved /\ page # 0
  BY <1>1, PmemAssumption DEF PagesAccountedFor, Reserved
<1>7. page * PageSize # 0
  BY <1>1, <1>6, PmemAssumption
<1>8. PmemTypeOK'
  BY <1>1, <1>4, <1>5 DEF AllocPage, PmemTypeOK
<1>9. \A p \in Pages : p * PageSize \in owned' <=> p * PageSize \in owned \/ p = page
  BY <1>1, <1>7, PageBaseInjective DEF AllocPage, Pages
<1>10. PagesAccountedFor'
  <2>1. Reserved \subseteq Pages
    BY PmemAssumption DEF Reserved, Pages
  <2>2. QED
    BY <1>1, <1>6, <1>9, <2>1 DEF AllocPage, PagesAccountedFor
<1>11. QED
  BY <1>5, <1>8, <1>10 DEF UsedPagesIsBitmap

(* ck_pmem_free_page of a page in use preserves it: the count and the bit
   change together, and the address freed is the base of that page. *)
LEMMA FreePageInv ==
    ASSUME PmemInv, NEW addr \in ManagedAddrs, FreePageClears(addr)
    PROVE  PmemInv'
<1> USE DEF PmemInv
<1> DEFINE page == PageOf(addr)
<1>1. addr \in Nat /\ addr % PageSize = 0
      /\ ReservedPages * PageSize <= addr /\ addr < MaxPages * PageSize
  BY PmemAssumption DEF ManagedAddrs, FreePageClears, Frees
<1>2. page \in Nat /\ addr = page * PageSize
  BY <1>1, PageOfBase
<1>3. page \in Pages /\ page \notin Reserved
  <2>1. page < MaxPages
    BY <1>1, <1>2, PmemAssumption
  <2>2. ReservedPages <= page
    BY <1>1, <1>2, PmemAssumption
  <2>3. QED
    BY <1>2, <2>1, <2>2, PmemAssumption DEF Pages, Reserved
<1>4. page \in bitmap /\ bitmap \subseteq Pages
  BY <1>3 DEF FreePageClears, Frees, test_bit, PmemTypeOK
<1>5. IsFiniteSet(bitmap) /\ Cardinality(bitmap) \in 0 .. MaxPages
  BY <1>4, BitmapFinite
<1>6. Cardinality(bitmap') = Cardinality(bitmap) - 1
  BY <1>4, <1>5, FS_RemoveElement, Zenon DEF FreePageClears, Frees
<1>7. Cardinality(bitmap') \in 0 .. MaxPages
  <2>1. bitmap' \subseteq Pages
    BY <1>4 DEF FreePageClears, Frees
  <2>2. QED
    BY <2>1, BitmapFinite
<1>8. used_pages' = Cardinality(bitmap')
  BY <1>5, <1>6, <1>7, PmemAssumption DEF FreePageClears, Frees, UsedPagesIsBitmap
<1>9. PmemTypeOK'
  BY <1>4, <1>7, <1>8 DEF FreePageClears, Frees, PmemTypeOK
<1>10. \A p \in Pages : p * PageSize \in owned' <=> p * PageSize \in owned /\ p # page
  BY <1>2, PageBaseInjective DEF FreePageClears, Frees, Pages
<1>11. PagesAccountedFor'
  <2>1. Reserved \subseteq Pages
    BY PmemAssumption DEF Reserved, Pages
  <2>2. QED
    BY <1>3, <1>10, <2>1 DEF FreePageClears, Frees, PagesAccountedFor
<1>12. QED
  BY <1>8, <1>9, <1>11 DEF UsedPagesIsBitmap

(* Every operation of the page allocator keeps the invariant, whoever calls
   it. *)
LEMMA PmemNextInv ==
    ASSUME PmemInv, [Next]_pmemVars
    PROVE  PmemInv'
<1>1. CASE UNCHANGED pmemVars
  BY <1>1 DEF pmemVars, PmemInv, PmemTypeOK, UsedPagesIsBitmap, PagesAccountedFor
<1>2. CASE AllocFails
  BY <1>1, <1>2 DEF AllocFails
<1>3. ASSUME NEW page \in Pages, AllocPage(page) PROVE PmemInv'
  BY <1>3, AllocPageInv
<1>4. ASSUME NEW addr \in ManagedAddrs, FreePageClears(addr) PROVE PmemInv'
  BY <1>4, FreePageInv
<1>5. ASSUME NEW addr \in ManagedAddrs, FreePageIgnored(addr) PROVE PmemInv'
  BY <1>1, <1>5 DEF FreePageIgnored
<1> QED
  BY <1>1, <1>2, <1>3, <1>4, <1>5 DEF Next, ck_pmem_alloc_page, ck_pmem_free_page

LEMMA PmemAlways == Spec => []PmemInv
  BY PmemInitInv, PmemNextInv, PTL DEF Spec

(* For every number of pages, and callers that pass any address of the
   managed range, aligned or not, held or not: every page in use is a
   reserved one or held by one caller, no page is held twice or lost, and a
   reserved page is never handed out. *)
THEOREM PmemCorrect == Spec => [](PmemTypeOK /\ PagesAccountedFor)
  BY PmemAlways, PTL DEF PmemInv

(* Under the same callers, what ck_pmem_get_used_pages reports is the number
   of bits set: no repeated or misplaced ck_pmem_free_page makes it drift. *)
THEOREM UsedPagesCounted == Spec => []UsedPagesIsBitmap
  BY PmemAlways, PTL DEF PmemInv

-----------------------------------------------------------------------------

Headers == [size : Nat, allocated : BOOLEAN, next : Nat]

(* The inductive invariant.  BlocksDisjoint does not survive a split by
   itself: every block must have room for its header (Roomy), which the
   splits and expansions keep up until damage is done.  The links and the
   marks do not need disjoint blocks, only headers that are not written over
   one another. *)
HdrOK == \A a \in DOMAIN hdr : a \in Nat \ {0} /\ hdr[a] \in Headers

Roomy == \A a \in DOMAIN hdr : hdr[a].size >= HeaderSize

Apart == \A a, b \in DOMAIN hdr : a < b => a + hdr[a].size <= b

InPages ==
    \A a \in DOMAIN hdr :
        \E base \in mine : base <= a /\ a + hdr[a].size <= base + PageSize

CallOK ==
    /\ pc \in {"idle", "search"}
    /\ size \in Sizes \cup {0}
    /\ pc = "search" => size \in Sizes /\ damage # "clash"
    /\ total_allocated \in 0 .. Word - 1
    /\ total_freed \in 0 .. Word - 1
    /\ damage \in {"none", "stray", "clash"}

Shape == Roomy /\ Apart /\ InPages

Marks == LiveBlocksIntact /\ HeadersApart

HeapInv ==
    /\ PmemInv
    /\ HdrOK /\ IsFiniteSet(DOMAIN hdr)
    /\ CallOK
    /\ LinksValid
    /\ mine \subseteq owned /\ HeapWithinLimit
    /\ damage # "clash" => Marks
    /\ damage = "none" => Shape

-----------------------------------------------------------------------------

(* The difference of two multiples is a multiple, and at least one granule. *)
LEMMA GranuleDifference ==
    ASSUME NEW G \in Nat \ {0}, NEW x \in Nat, NEW y \in Nat,
           x % G = 0, y % G = 0, x > y
    PROVE  (x - y) % G = 0 /\ x - y >= G
<1> DEFINE k == x \div G
           l == y \div G
<1>1. k \in Nat /\ l \in Nat /\ x = k * G /\ y = l * G
  OBVIOUS
<1> HIDE DEF k, l
<1>2. k > l
  BY <1>1
<1>3. x - y = (k - l) * G /\ k - l \in Nat /\ k - l >= 1
  BY <1>1, <1>2
<1>4. \A n \in Nat : n >= 1 => (n * G) % G = 0 /\ n * G >= G
  OBVIOUS
<1>5. QED
  BY <1>3, <1>4, Zenon

(* What a request needs, header included: it does not wrap, not even when it
   is added to the size of the heap. *)
LEMMA TotalSize ==
    ASSUME size \in Sizes
    PROVE  /\ total_size = size + HeaderSize
           /\ total_size \in Nat
           /\ total_size >= HeaderSize /\ total_size >= 1
           /\ HeapMaxSize + total_size < Word
<1>1. size \in Nat /\ HeaderSize \in Nat \ {0} /\ HeapMaxSize \in Nat /\ Word \in Nat
  BY PmemAssumption, HeapAssumption
<1>2. HeapMaxSize + size + HeaderSize < Word
  BY HeapAssumption
<1>3. total_size = size + HeaderSize
  BY <1>1, <1>2 DEF total_size
<1>4. QED
  BY <1>1, <1>2, <1>3

(* Writing headers without a clash puts them where no header was, and without
   damage it leaves nothing or room for a header behind the block. *)
LEMMA DamageStep ==
    ASSUME NEW new, NEW room \in Int, damage' = DamageAfter(new, room),
           damage \in {"none", "stray", "clash"}
    PROVE  /\ damage' \in {"none", "stray", "clash"}
           /\ damage' # "clash" => \A a \in new, b \in DOMAIN hdr : ~ Overlap(a, b)
           /\ damage' = "none" => damage = "none" /\ (room = 0 \/ room >= HeaderSize)
<1>1. HeaderSize \in Nat
  BY HeapAssumption
<1>2. CASE \E a \in new, b \in DOMAIN hdr : Overlap(a, b)
  BY <1>2 DEF DamageAfter
<1>3. CASE ~ \E a \in new, b \in DOMAIN hdr : Overlap(a, b)
  <2>1. damage' = IF room # 0 /\ room < HeaderSize THEN "stray" ELSE damage
    BY <1>3 DEF DamageAfter
  <2>2. room < HeaderSize \/ room >= HeaderSize
    BY <1>1
  <2> QED
    BY <1>3, <2>1, <2>2
<1> QED
  BY <1>2, <1>3

(* A header overlaps itself, so that without a clash the address is new. *)
LEMMA NotWrittenOver ==
    ASSUME NEW a \in Nat, \A b \in DOMAIN hdr : ~ Overlap(a, b)
    PROVE  a \notin DOMAIN hdr
<1>1. Overlap(a, a)
  BY HeapAssumption DEF Overlap
<1> QED
  BY <1>1

(* The fields of a header just written. *)
LEMMA SizeField ==
    ASSUME NEW h, NEW sz, NEW al, NEW nx, h = Header(sz, al, nx) PROVE h.size = sz
  BY DEF Header
LEMMA AllocatedField ==
    ASSUME NEW h, NEW sz, NEW al, NEW nx, h = Header(sz, al, nx) PROVE h.allocated = al
  BY DEF Header
LEMMA NextField ==
    ASSUME NEW h, NEW sz, NEW al, NEW nx, h = Header(sz, al, nx) PROVE h.next = nx
  BY DEF Header

(* The type of a header. *)
LEMMA HeaderType ==
    ASSUME NEW sz \in Nat, NEW nx \in Nat
    PROVE  Header(sz, TRUE, nx) \in Headers /\ Header(sz, FALSE, nx) \in Headers
BY DEF Header, Headers

(* Different pages do not overlap. *)
LEMMA PagesApart ==
    ASSUME NEW p \in Nat, NEW q \in Nat, p < q
    PROVE  p * PageSize + PageSize <= q * PageSize
<1>1. PageSize \in Nat /\ p + 1 <= q
  BY PmemAssumption
<1>2. (p + 1) * PageSize <= q * PageSize
  BY <1>1
<1>3. (p + 1) * PageSize = p * PageSize + PageSize
  BY <1>1
<1>4. QED
  BY <1>2, <1>3

(* A block is at least as large as a header, so End is where it ends. *)
LEMMA ShapeDisjoint ==
    ASSUME HdrOK, Shape
    PROVE  BlocksDisjoint
<1>1. \A a \in DOMAIN hdr : End(a) = a + hdr[a].size
  BY HeapAssumption DEF Shape, HdrOK, Roomy, Headers, End
<1>2. QED
  BY <1>1 DEF Shape, Apart, InPages, BlocksDisjoint

(* The pages of the heap are finitely many. *)
LEMMA MineFinite ==
    ASSUME PmemInv, mine \subseteq owned
    PROVE  IsFiniteSet(mine) /\ Cardinality(mine) \in Nat
<1>1. MaxPages \in Nat /\ PageSize \in Nat \ {0}
  BY PmemAssumption
<1>2. \A p \in Pages : p * PageSize \in 0 .. MaxPages * PageSize
  BY <1>1 DEF Pages
<1>3. mine \subseteq 0 .. MaxPages * PageSize
  BY <1>2 DEF PmemInv, PmemTypeOK
<1>4. MaxPages * PageSize \in Int
  BY <1>1
<1>5. IsFiniteSet(0 .. MaxPages * PageSize)
  BY <1>4, FS_Interval
<1>6. IsFiniteSet(mine)
  BY <1>3, <1>5, FS_Subset, Zenon
<1>7. QED
  BY <1>6, FS_CardinalityType

-----------------------------------------------------------------------------

(* ck_heap_init takes the first page that is not reserved, if there is one. *)
LEMMA HeapInitPages == ck_heap_init => PmemInv
<1> SUFFICES ASSUME ck_heap_init PROVE PmemInv
  OBVIOUS
<1> USE DEF ck_heap_init
<1>1. CASE FirstPage
  <2> USE <1>1 DEF FirstPage
  <2>1. /\ ReservedPages \in Nat \ {0} /\ MaxPages \in Nat /\ ReservedPages < MaxPages
        /\ PageSize \in Nat \ {0}
    BY PmemAssumption
  <2>2. Reserved \subseteq Pages /\ ReservedPages \in Pages /\ ReservedPages \notin Reserved
    BY <2>1 DEF Reserved, Pages
  <2>3. IsFiniteSet(Reserved) /\ Cardinality(Reserved) = ReservedPages
    BY <2>1, FS_Interval DEF Reserved
  <2>4. Cardinality(bitmap) = ReservedPages + 1
    BY <2>2, <2>3, FS_AddElement
  <2>5. PmemTypeOK
    BY <2>1, <2>2 DEF PmemTypeOK
  <2>6. \A p \in Pages : p * PageSize \in owned <=> p = ReservedPages
    BY <2>1, PageBaseInjective DEF Pages
  <2>7. PagesAccountedFor
    BY <2>2, <2>6 DEF PagesAccountedFor
  <2>8. QED
    BY <2>4, <2>5, <2>7 DEF PmemInv, UsedPagesIsBitmap
<1>2. CASE NoFirstPage
  BY <1>2, PmemInitInv DEF NoFirstPage, ck_pmem_init
<1>3. QED
  BY <1>1, <1>2

(* ck_heap_init: one free block, the whole first page, or none. *)
LEMMA HeapInitInv == ck_heap_init => HeapInv
<1> SUFFICES ASSUME ck_heap_init PROVE HeapInv
  OBVIOUS
<1>1. /\ ReservedPages \in Nat \ {0} /\ MaxPages \in Nat /\ PageSize \in Nat \ {0}
      /\ Word \in Nat /\ PageSize < Word /\ HeapMaxSize \in Nat /\ PageSize <= HeapMaxSize
  BY PmemAssumption, HeapAssumption
<1>2. PmemInv
  BY HeapInitPages
<1>3. CallOK
  BY <1>1 DEF CallOK, ck_heap_init
<1>4. DOMAIN live = {} /\ current = NULL
  BY DEF ck_heap_init
<1>5. CASE FirstPage
  <2> DEFINE first == ReservedPages * PageSize
  <2>1. first \in Nat /\ first > 0
    BY <1>1
  <2>2. DOMAIN hdr = {first} /\ hdr[first] = Header(PageSize, FALSE, NULL)
    BY <1>5 DEF FirstPage
  <2>3. mine = {first} /\ owned = {first} /\ heap_size = PageSize /\ freelist = first
    BY <1>5 DEF FirstPage
  <2> HIDE DEF first
  <2>4. hdr[first].size = PageSize /\ ~ hdr[first].allocated /\ hdr[first].next = NULL
    BY <2>2 DEF Header
  <2>5. HdrOK
    <3>1. Header(PageSize, FALSE, NULL) \in Headers
      BY <1>1, HeaderType, Zenon DEF NULL
    <3>2. first \in Nat \ {0}
      BY <2>1
    <3>3. hdr[first] \in Headers
      BY <2>2, <3>1, Zenon
    <3>4. QED
      BY <2>2, <3>2, <3>3, Zenon DEF HdrOK
  <2>6. IsFiniteSet(DOMAIN hdr) /\ Cardinality(mine) = 1
    BY <2>2, <2>3, FS_Singleton
  <2>7. LinksValid
    BY <1>4, <2>2, <2>3, <2>4, Zenon DEF LinksValid
  <2>8. LiveBlocksIntact /\ HeadersApart
    BY <1>4, <2>2, <2>4, Zenon DEF LiveBlocksIntact, HeadersApart
  <2>9. HeapWithinLimit
    BY <1>1, <2>3, <2>6 DEF HeapWithinLimit
  <2>10. Shape
    <3>1. Roomy
      BY <1>1, <2>2, <2>4, HeapAssumption, Zenon DEF Roomy
    <3>2. Apart
      BY <2>1, <2>2 DEF Apart
    <3>3. InPages
      <4>1. first <= first /\ first + hdr[first].size <= first + PageSize
        BY <1>1, <2>1, <2>4
      <4>2. QED
        BY <2>2, <2>3, <4>1, Zenon DEF InPages
    <3>4. QED
      BY <3>1, <3>2, <3>3 DEF Shape
  <2>11. QED
    BY <1>2, <1>3, <2>3, <2>5, <2>6, <2>7, <2>8, <2>9, <2>10 DEF HeapInv, Marks
<1>6. CASE NoFirstPage
  <2>1. /\ DOMAIN hdr = {} /\ mine = {} /\ owned = {} /\ heap_size = 0
        /\ freelist = NULL /\ current = NULL
    BY <1>4, <1>6 DEF NoFirstPage
  <2>2. IsFiniteSet(DOMAIN hdr) /\ Cardinality(mine) = 0
    BY <2>1, FS_EmptySet
  <2>3. HdrOK /\ Roomy /\ Apart /\ InPages
    BY <2>1 DEF HdrOK, Roomy, Apart, InPages
  <2>4. LinksValid
    BY <2>1 DEF LinksValid
  <2>5. LiveBlocksIntact /\ HeadersApart
    BY <1>4, <2>1 DEF LiveBlocksIntact, HeadersApart
  <2>6. HeapWithinLimit
    BY <1>1, <2>1, <2>2 DEF HeapWithinLimit
  <2>7. QED
    BY <1>2, <1>3, <2>1, <2>2, <2>3, <2>4, <2>5, <2>6 DEF HeapInv, Marks, Shape
<1>7. QED
  BY <1>5, <1>6 DEF ck_heap_init

(* A step that leaves the headers, the heap's pages and the history alone
   keeps the invariant if the page allocator's holds and the call's own
   variables stay in range. *)
LEMMA SameHeapInv ==
    ASSUME HeapInv, PmemInv', mine \subseteq owned',
           UNCHANGED <<listVars, mine, live, damage>>,
           pc' \in {"idle", "search"}, size' \in Sizes \cup {0},
           pc' = "search" => size' \in Sizes /\ damage # "clash",
           current' = NULL \/ current' \in DOMAIN hdr
    PROVE  HeapInv'
<1> USE DEF HeapInv, listVars
<1>1. HdrOK' /\ IsFiniteSet(DOMAIN hdr)'
  BY DEF HdrOK
<1>2. CallOK'
  BY DEF CallOK
<1>3. LinksValid'
  BY DEF LinksValid
<1>4. (mine \subseteq owned)' /\ HeapWithinLimit'
  BY DEF HeapWithinLimit
<1>5. (damage # "clash" => Marks)'
  BY DEF Marks, LiveBlocksIntact, HeadersApart
<1>6. (damage = "none" => Shape)'
  BY DEF Shape, Roomy, Apart, InPages
<1>7. QED
  BY <1>1, <1>2, <1>3, <1>4, <1>5, <1>6

(* The pages of a step that takes none and gives none back. *)
LEMMA SamePages ==
    ASSUME HeapInv, UNCHANGED pmemVars
    PROVE  PmemInv' /\ mine \subseteq owned'
BY DEF HeapInv, pmemVars, PmemInv, PmemTypeOK, UsedPagesIsBitmap, PagesAccountedFor

(* The calls of the rest of the kernel leave the pages of the heap alone. *)
LEMMA OtherPagesInv ==
    ASSUME HeapInv, OtherPages
    PROVE  HeapInv'
<1>1. PmemInv'
  BY PmemNextInv DEF HeapInv, OtherPages, Next
<1>2. mine \subseteq owned'
  BY DEF HeapInv, OtherPages, ck_pmem_alloc_page, ck_pmem_free_page, AllocPage, AllocFails,
         FreePageClears, FreePageIgnored, pmemVars
<1>3. UNCHANGED <<listVars, callVars, mine, live, damage>>
  BY DEF OtherPages
<1>4. QED
  BY <1>1, <1>2, <1>3, SameHeapInv DEF HeapInv, CallOK, LinksValid, callVars

(* An exact fit only sets the allocated flag of a free block. *)
LEMMA SearchExactInv ==
    ASSUME HeapInv, SearchExact
    PROVE  HeapInv'
<1> USE DEF HeapInv
<1>1. /\ pc = "search" /\ current # NULL /\ ~ hdr[current].allocated
      /\ hdr[current].size = total_size
      /\ hdr' = [hdr EXCEPT ![current].allocated = TRUE]
      /\ UNCHANGED <<pmemVars, freelist, heap_size, mine, damage, total_freed>>
      /\ pc' = "idle" /\ size' = 0 /\ current' = NULL
      /\ total_allocated' = (total_allocated + total_size) % Word
      /\ live' = [a \in DOMAIN live \cup {current} |-> IF a = current THEN size ELSE live[a]]
  BY DEF SearchExact, MallocReturn, Suitable
<1>2. size \in Sizes /\ damage # "clash" /\ Marks
  BY <1>1 DEF CallOK
<1>3. total_size = size + HeaderSize /\ total_size \in Nat
  BY <1>2, TotalSize
<1>4. current \in DOMAIN hdr /\ current \in Nat /\ hdr[current] \in Headers
  BY <1>1 DEF LinksValid, HdrOK
<1>5. /\ DOMAIN hdr' = DOMAIN hdr
      /\ \A a \in DOMAIN hdr : /\ hdr'[a] \in Headers
                               /\ hdr'[a].size = hdr[a].size
                               /\ hdr'[a].next = hdr[a].next
                               /\ hdr'[a].allocated = (hdr[a].allocated \/ a = current)
  BY <1>1, <1>4, Zenon DEF HdrOK, Headers
<1>6. PmemInv' /\ (mine \subseteq owned)' /\ HeapWithinLimit'
  BY <1>1, SamePages DEF HeapWithinLimit
<1>7. HdrOK' /\ IsFiniteSet(DOMAIN hdr)'
  BY <1>5 DEF HdrOK
<1>8. (damage = "none" => Shape)'
  BY <1>1, <1>5, ZenonT(60) DEF Shape, Roomy, Apart, InPages
<1>9. CallOK'
  BY <1>1, <1>3, PmemAssumption DEF CallOK
<1>10. LinksValid'
  BY <1>1, <1>5 DEF LinksValid
<1>11. LiveBlocksIntact'
  BY <1>1, <1>2, <1>3, <1>4, <1>5 DEF Marks, LiveBlocksIntact
<1>12. HeadersApart'
  BY <1>2, <1>5 DEF Marks, HeadersApart
<1>13. QED
  BY <1>6, <1>7, <1>8, <1>9, <1>10, <1>11, <1>12 DEF Marks

(* The headers a split writes: the block is cut in two, the part handed out
   comes first and links to the rest.  Without a clash no header was where
   the rest gets its own, and without damage the rest has room for it. *)
LEMMA SplitHeaders ==
    ASSUME HeapInv, SearchSplit
    PROVE  LET rest == current + total_size
               old == hdr[current].size
           IN  /\ current \in DOMAIN hdr /\ current \in Nat \ {0} /\ hdr[current] \in Headers
               /\ old \in Nat /\ old > total_size
               /\ total_size = size + HeaderSize /\ total_size \in Nat
               /\ total_size >= HeaderSize
               /\ rest \in Nat \ {0} /\ current < rest /\ rest < current + old /\ rest # current
               /\ old - total_size \in Nat
               /\ DOMAIN hdr' = DOMAIN hdr \cup {rest}
               /\ hdr'[rest] = Header(old - total_size, FALSE, hdr[current].next)
               /\ hdr'[current] = Header(total_size, TRUE, rest)
               /\ \A a \in DOMAIN hdr : a # current /\ a # rest => hdr'[a] = hdr[a]
               /\ damage # "clash" /\ damage' \in {"none", "stray", "clash"}
               /\ damage' # "clash" =>
                     rest \notin DOMAIN hdr /\ \A a \in DOMAIN hdr : ~ Overlap(rest, a)
               /\ damage' = "none" => damage = "none" /\ old - total_size >= HeaderSize
<1> DEFINE rest == current + total_size
           old == hdr[current].size
<1> USE DEF HeapInv, SearchSplit
<1>1. size \in Sizes /\ damage # "clash" /\ damage \in {"none", "stray", "clash"}
  BY DEF CallOK
<1>2. total_size = size + HeaderSize /\ total_size \in Nat /\ total_size >= HeaderSize
      /\ total_size >= 1
  BY <1>1, TotalSize
<1>3. /\ current \in DOMAIN hdr /\ current \in Nat \ {0} /\ hdr[current] \in Headers
      /\ old \in Nat /\ old > total_size
  BY DEF LinksValid, HdrOK, Headers
<1>4. rest \in Nat \ {0} /\ current < rest /\ rest < current + old /\ rest # current
      /\ old - total_size \in Nat /\ old - total_size # 0
  BY <1>2, <1>3
<1>5. /\ DOMAIN hdr' = DOMAIN hdr \cup {rest}
      /\ hdr'[rest] = Header(old - total_size, FALSE, hdr[current].next)
      /\ hdr'[current] = Header(total_size, TRUE, rest)
      /\ \A a \in DOMAIN hdr : a # current /\ a # rest => hdr'[a] = hdr[a]
  BY <1>3, <1>4, Zenon DEF Write, TwoHeaders, SplitRest, SplitUsed
<1>6. damage' = DamageAfter({rest}, old - total_size)
  OBVIOUS
<1> HIDE DEF rest, old
<1>7. /\ damage' \in {"none", "stray", "clash"}
      /\ damage' # "clash" => \A a \in {rest}, b \in DOMAIN hdr : ~ Overlap(a, b)
      /\ damage' = "none" => damage = "none"
                             /\ (old - total_size = 0 \/ old - total_size >= HeaderSize)
  <2> DEFINE room == old - total_size
  <2>1. room \in Int /\ damage' = DamageAfter({rest}, room)
    BY <1>4, <1>6
  <2> HIDE DEF room
  <2>2. /\ damage' \in {"none", "stray", "clash"}
        /\ damage' # "clash" => \A a \in {rest}, b \in DOMAIN hdr : ~ Overlap(a, b)
        /\ damage' = "none" => damage = "none" /\ (room = 0 \/ room >= HeaderSize)
    BY <1>1, <2>1, DamageStep, Zenon
  <2> QED
    BY <2>2, Zenon DEF room
<1>8. damage' # "clash" => rest \notin DOMAIN hdr /\ \A a \in DOMAIN hdr : ~ Overlap(rest, a)
  BY <1>4, <1>7, NotWrittenOver
<1> QED
  BY <1>1, <1>2, <1>3, <1>4, <1>5, <1>7, <1>8, Zenon DEF rest, old

(* A new header that overlaps none keeps the headers apart. *)
LEMMA OneMoreApart ==
    ASSUME HeadersApart, NEW x, DOMAIN hdr' = DOMAIN hdr \cup {x},
           \A a \in DOMAIN hdr : a \in Nat, x \in Nat,
           \A a \in DOMAIN hdr : ~ Overlap(x, a)
    PROVE  HeadersApart'
<1>1. \A a \in DOMAIN hdr : ~ Overlap(a, x)
  BY HeapAssumption DEF Overlap
<1> QED
  BY <1>1 DEF HeadersApart, Overlap

(* A split: the part handed out ends where the rest begins, and the rest ends
   where the block ended. *)
LEMMA SearchSplitInv ==
    ASSUME HeapInv, SearchSplit
    PROVE  HeapInv'
<1> DEFINE rest == current + total_size
           old == hdr[current].size
<1> USE DEF HeapInv
<1>1. /\ UNCHANGED <<pmemVars, freelist, heap_size, mine, total_freed>>
      /\ pc' = "idle" /\ size' = 0 /\ current' = NULL
      /\ total_allocated' = (total_allocated + total_size) % Word
      /\ live' = [a \in DOMAIN live \cup {current} |-> IF a = current THEN size ELSE live[a]]
      /\ ~ hdr[current].allocated
  BY DEF SearchSplit, MallocReturn, Suitable
<1>2. /\ total_size = size + HeaderSize /\ total_size \in Nat
      /\ total_size >= HeaderSize
  BY SplitHeaders, Zenon
<1>3. /\ current \in DOMAIN hdr /\ current \in Nat \ {0} /\ hdr[current] \in Headers
      /\ old \in Nat /\ old > total_size
  BY SplitHeaders, Zenon
<1>4. old - total_size \in Nat
  BY SplitHeaders, Zenon
<1>5. rest \in Nat \ {0} /\ current < rest /\ rest < current + old /\ rest # current
  BY SplitHeaders, Zenon
<1>6. /\ damage # "clash" /\ damage' \in {"none", "stray", "clash"}
      /\ damage' # "clash" =>
             rest \notin DOMAIN hdr /\ \A a \in DOMAIN hdr : ~ Overlap(rest, a)
      /\ damage' = "none" => damage = "none" /\ old - total_size >= HeaderSize
  BY SplitHeaders, Zenon
<1>7. /\ DOMAIN hdr' = DOMAIN hdr \cup {rest}
      /\ hdr'[rest] = Header(old - total_size, FALSE, hdr[current].next)
      /\ hdr'[current] = Header(total_size, TRUE, rest)
      /\ \A a \in DOMAIN hdr : a # current /\ a # rest => hdr'[a] = hdr[a]
  BY SplitHeaders, Zenon
<1> HIDE DEF rest, old
<1>8. PmemInv' /\ (mine \subseteq owned)' /\ HeapWithinLimit'
  BY <1>1, SamePages DEF HeapWithinLimit
<1>9. HdrOK'
  <2>1. hdr[current].next \in Nat
    BY <1>3 DEF Headers
  <2>2. hdr'[rest] \in Headers
    <3>1. Header(old - total_size, FALSE, hdr[current].next) \in Headers
      BY <1>4, <2>1, HeaderType, Zenon
    <3>2. QED
      BY <1>7, <3>1, Zenon
  <2>3. hdr'[current] \in Headers
    <3>1. Header(total_size, TRUE, rest) \in Headers
      BY <1>2, <1>5, HeaderType, Zenon
    <3>2. QED
      BY <1>7, <3>1, Zenon
  <2>4. \A a \in DOMAIN hdr : a \in Nat \ {0} /\ hdr[a] \in Headers
    BY DEF HdrOK
  <2>5. QED
    BY <1>5, <1>7, <2>2, <2>3, <2>4, Zenon DEF HdrOK
<1>10. IsFiniteSet(DOMAIN hdr)'
  BY <1>7, FS_AddElement
<1>11. CallOK'
  BY <1>1, <1>2, <1>6, PmemAssumption DEF CallOK
<1>12. LinksValid'
  <2>1. \A a \in DOMAIN hdr' : hdr'[a].next \in {NULL} \cup DOMAIN hdr'
    BY <1>3, <1>7 DEF LinksValid, Header
  <2>2. freelist' \in {NULL} \cup DOMAIN hdr' /\ current' = NULL
    BY <1>7, <1>1 DEF LinksValid
  <2>3. QED
    BY <2>1, <2>2 DEF LinksValid
<1>13. ASSUME damage' # "clash" PROVE LiveBlocksIntact' /\ HeadersApart'
  <2>1. /\ LiveBlocksIntact /\ HeadersApart /\ rest \notin DOMAIN hdr
        /\ \A a \in DOMAIN hdr : ~ Overlap(rest, a)
    BY <1>6, <1>13 DEF Marks
  <2>2. DOMAIN live = {a \in DOMAIN hdr : hdr[a].allocated} /\ current \notin DOMAIN live
    BY <1>1, <2>1 DEF LiveBlocksIntact
  <2>3. hdr'[current].allocated /\ hdr'[current].size = total_size /\ ~ hdr'[rest].allocated
    BY <1>7 DEF Header
  <2>4. \A a \in DOMAIN hdr' : hdr'[a].allocated <=> a \in DOMAIN live \cup {current}
    BY <1>7, <2>1, <2>2, <2>3, Zenon
  <2>5. DOMAIN live' = DOMAIN live \cup {current} /\ DOMAIN live' \subseteq DOMAIN hdr'
    BY <1>3, <1>7, <1>1, <2>2
  <2>6. DOMAIN live' = {a \in DOMAIN hdr' : hdr'[a].allocated}
    BY <2>4, <2>5
  <2>7. ASSUME NEW a \in DOMAIN live' PROVE hdr'[a].size >= live'[a] + HeaderSize
    <3>1. CASE a = current
      BY <1>2, <1>1, <2>3, <2>5, <3>1
    <3>2. CASE a # current
      <4>1. a \in DOMAIN live /\ hdr'[a] = hdr[a] /\ live'[a] = live[a]
        BY <1>7, <1>1, <2>1, <2>2, <2>5, <3>2
      <4>2. QED
        BY <2>1, <4>1 DEF LiveBlocksIntact
    <3>3. QED
      BY <3>1, <3>2
  <2>8. HeadersApart'
    <3>1. \A a \in DOMAIN hdr : a \in Nat
      BY DEF HdrOK
    <3>2. QED
      BY <1>5, <1>7, <2>1, <3>1, OneMoreApart
  <2>9. QED
    BY <2>6, <2>7, <2>8 DEF LiveBlocksIntact
<1>14. rest + hdr'[rest].size = current + old /\ current + hdr'[current].size = rest
  <2>1. hdr'[rest].size = old - total_size /\ hdr'[current].size = total_size
    BY <1>7, SizeField, Zenon
  <2>2. rest + (old - total_size) = current + old /\ current + total_size = rest
    BY <1>2, <1>3, <1>4 DEF rest
  <2> QED
    BY <2>1, <2>2, Zenon
<1>15. ASSUME damage' = "none" PROVE Shape'
  <2>0. /\ Roomy /\ Apart /\ InPages /\ rest \notin DOMAIN hdr
        /\ old - total_size >= HeaderSize
        /\ \A a \in DOMAIN hdr : a # current => hdr'[a] = hdr[a]
    BY <1>6, <1>7, <1>15 DEF Shape
  <2>1. \A x \in DOMAIN hdr : x \in Nat /\ hdr[x].size \in Nat
    BY DEF HdrOK, Headers
  <2>2. Roomy'
    BY <1>2, <1>3, <1>4, <1>7, <2>0 DEF Roomy, Header
  <2>3. Apart'
    <3> SUFFICES ASSUME NEW a \in DOMAIN hdr', NEW b \in DOMAIN hdr', a < b
                 PROVE  a + hdr'[a].size <= b
      BY DEF Apart
    <3>2. \A x, y \in DOMAIN hdr : x < y => x + hdr[x].size <= y
      BY <2>0 DEF Apart
    <3>3. CASE a = rest
      <4>1. b \in DOMAIN hdr /\ current < b
        BY <1>5, <1>7, <1>3, <2>1, <3>3
      <4>2. current + old <= b
        BY <1>3, <3>2, <4>1 DEF old
      <4>3. QED
        BY <1>14, <3>3, <4>2
    <3>4. CASE a = current
      <4>1. CASE b = rest
        BY <1>5, <1>14, <3>4, <4>1
      <4>2. CASE b \in DOMAIN hdr
        <5>1. current + old <= b
          BY <1>3, <3>2, <3>4, <4>2 DEF old
        <5>2. QED
          BY <1>3, <1>5, <1>14, <2>1, <3>4, <4>2, <5>1
      <4>3. QED
        BY <1>7, <4>1, <4>2
    <3>5. CASE a \in DOMAIN hdr /\ a # current
      <4>1. hdr'[a] = hdr[a] /\ a \in Nat /\ hdr[a].size \in Nat
        BY <2>0, <2>1, <3>5
      <4>2. CASE b = rest
        <5>1. a < current
          <6>1. current < a => current + old <= a
            BY <1>3, <3>2, <3>5 DEF old
          <6>2. QED
            BY <1>3, <1>5, <3>5, <4>1, <4>2, <6>1
        <5>2. a + hdr[a].size <= current
          BY <1>3, <3>2, <3>5, <5>1
        <5>3. QED
          BY <1>3, <1>5, <4>1, <4>2, <5>2
      <4>3. CASE b \in DOMAIN hdr
        BY <3>2, <3>5, <4>1, <4>3
      <4>4. QED
        BY <1>7, <4>2, <4>3
    <3>6. QED
      BY <1>7, <3>3, <3>4, <3>5
  <2>4. InPages'
    <3> SUFFICES ASSUME NEW a \in DOMAIN hdr'
                 PROVE  \E base \in mine : base <= a /\ a + hdr'[a].size <= base + PageSize
      BY <1>1 DEF InPages
    <3>1. \A x \in DOMAIN hdr :
             \E base \in mine : base <= x /\ x + hdr[x].size <= base + PageSize
      BY <2>0 DEF InPages
    <3>2. PICK base \in mine : base <= current /\ current + old <= base + PageSize
      BY <1>3, <3>1 DEF old
    <3>3. base \in Nat /\ PageSize \in Nat
      BY PmemAssumption DEF PmemInv, PmemTypeOK, Pages
    <3>4. CASE a \in DOMAIN hdr /\ a # current
      BY <2>0, <3>1, <3>4
    <3>5. CASE a = current
      <4>1. current + hdr'[current].size <= base + PageSize
        BY <1>3, <1>5, <1>14, <3>2, <3>3
      <4>2. QED
        BY <3>2, <3>5, <4>1
    <3>6. CASE a = rest
      <4>1. base <= rest
        BY <1>3, <1>5, <3>2, <3>3
      <4>2. QED
        BY <1>14, <3>2, <3>6, <4>1
    <3>7. QED
      BY <1>7, <3>4, <3>5, <3>6
  <2>5. QED
    BY <2>2, <2>3, <2>4 DEF Shape
<1>16. QED
  BY <1>8, <1>9, <1>10, <1>11, <1>12, <1>13, <1>15 DEF Marks

(* ck_free only flips a flag and relinks a block that is there. *)
LEMMA FreeBlockInv ==
    ASSUME HeapInv, NEW a \in DOMAIN hdr, FreeBlock(a + HeaderSize)
    PROVE  HeapInv'
<1> USE DEF HeapInv
<1>1. a \in Nat /\ HeaderOf(a + HeaderSize) = a
  BY HeapAssumption DEF HdrOK, HeaderOf
<1>2. /\ total_freed' = (total_freed + hdr[a].size) % Word
      /\ hdr' = [hdr EXCEPT ![a].allocated = FALSE, ![a].next = freelist]
      /\ freelist' = a
      /\ live' = [b \in DOMAIN live \ {a} |-> live[b]]
      /\ damage # "clash"
      /\ UNCHANGED <<pmemVars, heap_size, total_allocated, callVars, mine, damage>>
  BY <1>1, Zenon DEF FreeBlock, FreedBlock
<1>3. freelist \in Nat /\ (freelist = NULL \/ freelist \in DOMAIN hdr)
  BY DEF LinksValid, HdrOK, NULL
<1>4. /\ DOMAIN hdr' = DOMAIN hdr
      /\ \A b \in DOMAIN hdr : /\ hdr'[b] \in Headers
                               /\ hdr'[b].size = hdr[b].size
                               /\ hdr'[b].next = IF b = a THEN freelist ELSE hdr[b].next
                               /\ hdr'[b].allocated = (hdr[b].allocated /\ b # a)
  BY <1>2, <1>3, Zenon DEF HdrOK, Headers
<1>5. PmemInv' /\ (mine \subseteq owned)' /\ HeapWithinLimit'
  BY <1>2, SamePages DEF HeapWithinLimit
<1>6. HdrOK' /\ IsFiniteSet(DOMAIN hdr)'
  BY <1>4 DEF HdrOK
<1>7. (damage = "none" => Shape)'
  BY <1>2, <1>4 DEF Shape, Roomy, Apart, InPages
<1>8. CallOK'
  <2>1. hdr[a].size \in Nat
    BY DEF HdrOK, Headers
  <2>2. QED
    BY <1>2, <2>1, PmemAssumption DEF CallOK, callVars
<1>9. LinksValid'
  BY <1>2, <1>3, <1>4 DEF LinksValid, callVars
<1>10. LiveBlocksIntact'
  BY <1>2, <1>4 DEF Marks, LiveBlocksIntact
<1>11. HeadersApart'
  BY <1>2, <1>4 DEF Marks, HeadersApart
<1>12. QED
  BY <1>5, <1>6, <1>7, <1>8, <1>9, <1>10, <1>11 DEF Marks

(* A page more is PageSize bytes more, and the limit leaves room for it: the
   test adds at least one byte to a size that is a whole number of pages. *)
LEMMA ExpandLimitInv ==
    ASSUME HeapInv, NEW page \in Pages, Expand(page)
    PROVE  /\ HeapWithinLimit'
           /\ page * PageSize \in Nat \ {0}
           /\ page * PageSize \notin owned
           /\ owned' = owned \cup {page * PageSize}
           /\ mine' = mine \cup {page * PageSize}
<1> USE DEF HeapInv
<1>1. /\ MaxPages \in Nat /\ PageSize \in Nat \ {0} /\ Word \in Nat
      /\ HeapMaxSize \in Nat /\ HeapMaxSize % PageSize = 0
      /\ HeapMaxSize + PageSize < Word /\ ReservedPages \in Nat \ {0}
  BY PmemAssumption, HeapAssumption
<1>2. size \in Sizes
  BY DEF CallOK, Expand
<1>3. total_size \in Nat /\ total_size >= 1 /\ HeapMaxSize + total_size < Word
  BY <1>1, <1>2, TotalSize
<1>4. /\ page \in Nat /\ page \notin bitmap
      /\ owned' = owned \cup ({page * PageSize} \ {0})
      /\ mine' = mine \cup {page * PageSize}
  BY <1>1 DEF Expand, AllocPage, Pages
<1>5. page # 0 /\ page * PageSize \notin owned /\ page * PageSize \notin mine
  BY <1>1, <1>4 DEF PmemInv, PagesAccountedFor, Reserved
<1>6. page * PageSize \in Nat \ {0}
  BY <1>1, <1>4, <1>5
<1>7. owned' = owned \cup {page * PageSize}
  BY <1>4, <1>6
<1>8. IsFiniteSet(mine) /\ Cardinality(mine) \in Nat
  BY MineFinite
<1>9. Cardinality(mine') = Cardinality(mine) + 1
  BY <1>4, <1>5, <1>8, FS_AddElement, Zenon
<1> DEFINE n == Cardinality(mine)
<1>10. heap_size = PageSize * n /\ heap_size <= HeapMaxSize /\ heap_size \in Nat
  BY <1>1, <1>8 DEF HeapWithinLimit
<1>11. heap_size + total_size <= HeapMaxSize
  BY <1>1, <1>3, <1>10 DEF Expand, ExpandLimit
<1>12. heap_size % PageSize = 0 /\ heap_size < HeapMaxSize
  <2>1. \A m \in Nat : (PageSize * m) % PageSize = 0
    BY <1>1
  <2>2. heap_size % PageSize = 0
    BY <1>8, <1>10, <2>1, Zenon
  <2>3. heap_size < HeapMaxSize
    BY <1>1, <1>3, <1>10, <1>11
  <2>4. QED
    BY <2>2, <2>3
<1>13. HeapMaxSize - heap_size >= PageSize
  BY <1>1, <1>10, <1>12, GranuleDifference
<1>14. heap_size' = heap_size + PageSize /\ heap_size' <= HeapMaxSize
  BY <1>1, <1>10, <1>13 DEF Expand
<1>15. heap_size' = PageSize * (n + 1)
  BY <1>1, <1>8, <1>10, <1>14
<1>16. QED
  BY <1>4, <1>5, <1>6, <1>7, <1>9, <1>14, <1>15 DEF HeapWithinLimit

(* Until one strays the blocks of the heap stay clear of a page it does not
   own. *)
LEMMA NewPageClear ==
    ASSUME HeapInv, InPages, NEW page \in Pages, page * PageSize \notin owned
    PROVE  \A a \in DOMAIN hdr : \/ a + hdr[a].size <= page * PageSize
                                 \/ page * PageSize + PageSize <= a
<1> SUFFICES ASSUME NEW a \in DOMAIN hdr
             PROVE  \/ a + hdr[a].size <= page * PageSize
                    \/ page * PageSize + PageSize <= a
  OBVIOUS
<1> USE DEF HeapInv
<1>1. a \in Nat /\ hdr[a].size \in Nat /\ PageSize \in Nat /\ page \in Nat
  BY PmemAssumption DEF HdrOK, Headers, Pages
<1>2. PICK p \in Pages : /\ p * PageSize \in owned
                         /\ p * PageSize <= a /\ a + hdr[a].size <= p * PageSize + PageSize
  BY DEF InPages, PmemInv, PmemTypeOK
<1>3. p \in Nat /\ p # page
  BY <1>2 DEF Pages
<1>4. p < page => p * PageSize + PageSize <= page * PageSize
  BY <1>1, <1>3, PagesApart
<1>5. page < p => page * PageSize + PageSize <= p * PageSize
  BY <1>1, <1>3, PagesApart
<1>6. p * PageSize \in Nat /\ page * PageSize \in Nat
  BY <1>1, <1>3
<1>7. CASE p < page
  <2>1. p * PageSize + PageSize <= page * PageSize
    BY <1>4, <1>7
  <2>2. a + hdr[a].size <= p * PageSize + PageSize
    BY <1>2
  <2>3. p * PageSize + PageSize \in Nat /\ a + hdr[a].size \in Nat
    BY <1>1, <1>6
  <2>4. QED
    BY <1>6, <2>1, <2>2, <2>3
<1>8. CASE page < p
  <2>1. page * PageSize + PageSize <= p * PageSize
    BY <1>5, <1>8
  <2>2. page * PageSize + PageSize \in Nat
    BY <1>1, <1>6
  <2>3. QED
    BY <1>1, <1>2, <1>6, <2>1, <2>2
<1>9. QED
  BY <1>1, <1>3, <1>7, <1>8

(* The headers a fresh page gets: the block handed out and, unless it takes
   the whole page, a free block that ends with the page.  Without a clash no
   header was where they are written, and without damage the block fits in
   the page and the rest has room for its header. *)
LEMMA ExpandHeaders ==
    ASSUME HeapInv, NEW page \in Pages, Expand(page)
    PROVE  LET h == page * PageSize
               r == page * PageSize + total_size
               new == IF total_size < PageSize THEN {h, r} ELSE {h}
           IN  /\ DOMAIN hdr' = DOMAIN hdr \cup new
               /\ \A a \in DOMAIN hdr : a \notin new => hdr'[a] = hdr[a]
               /\ \/ /\ total_size < PageSize
                     /\ hdr'[h] = Header(total_size, TRUE, r)
                     /\ hdr'[r] = Header(PageSize - total_size, FALSE, freelist)
                     /\ freelist' = r
                  \/ /\ total_size >= PageSize
                     /\ hdr'[h] = Header(total_size, TRUE, freelist)
                     /\ freelist' = h
               /\ damage # "clash" /\ damage' \in {"none", "stray", "clash"}
               /\ damage' # "clash" => \A a \in new, b \in DOMAIN hdr : ~ Overlap(a, b)
               /\ damage' = "none" => /\ damage = "none" /\ total_size <= PageSize
                                      /\ \/ PageSize - total_size = 0
                                         \/ PageSize - total_size >= HeaderSize
<1> DEFINE h == page * PageSize
           r == h + total_size
           new == IF total_size < PageSize THEN {h, r} ELSE {h}
           room == PageSize - total_size
<1>1. h \in Nat
  BY ExpandLimitInv
<1>2. size \in Sizes /\ damage # "clash" /\ damage \in {"none", "stray", "clash"}
  BY DEF HeapInv, CallOK, Expand
<1>3. total_size \in Nat /\ total_size >= 1 /\ PageSize \in Nat /\ HeaderSize \in Nat
  BY <1>2, TotalSize, PmemAssumption, HeapAssumption
<1>4. h # r /\ room \in Int /\ (total_size < PageSize <=> ~ total_size >= PageSize)
  BY <1>1, <1>3
<1>5. ExpandWithRest(h, r) \/ ExpandWhole(h)
  BY DEF Expand
<1> HIDE DEF h, r
<1>6. ASSUME ExpandWithRest(h, r)
      PROVE  /\ total_size < PageSize
             /\ DOMAIN hdr' = DOMAIN hdr \cup {h, r}
             /\ \A a \in DOMAIN hdr : a \notin {h, r} => hdr'[a] = hdr[a]
             /\ hdr'[h] = Header(total_size, TRUE, r)
             /\ hdr'[r] = Header(PageSize - total_size, FALSE, freelist)
             /\ freelist' = r
             /\ damage' = DamageAfter({h, r}, room)
  BY <1>3, <1>4, <1>6, Zenon DEF ExpandWithRest, Write, TwoHeaders, PageRest
<1>7. ASSUME ExpandWhole(h)
      PROVE  /\ total_size >= PageSize
             /\ DOMAIN hdr' = DOMAIN hdr \cup {h}
             /\ \A a \in DOMAIN hdr : a \notin {h} => hdr'[a] = hdr[a]
             /\ hdr'[h] = Header(total_size, TRUE, freelist)
             /\ freelist' = h
             /\ damage' = DamageAfter({h}, room)
  <2> DEFINE one == [a \in {h} |-> Header(total_size, TRUE, freelist)]
  <2>1. /\ PageSize <= total_size /\ freelist' = h
        /\ hdr' = [a \in DOMAIN hdr \cup DOMAIN one |->
                        IF a \in DOMAIN one THEN one[a] ELSE hdr[a]]
        /\ damage' = DamageAfter({h}, room)
    BY <1>7 DEF ExpandWhole, Write
  <2>2. DOMAIN one = {h} /\ one[h] = Header(total_size, TRUE, freelist)
    OBVIOUS
  <2> HIDE DEF one, room
  <2>3. QED
    BY <1>3, <2>1, <2>2
<1>8. damage' = DamageAfter(new, room)
  BY <1>4, <1>5, <1>6, <1>7, Zenon
<1>9. /\ DOMAIN hdr' = DOMAIN hdr \cup new
      /\ \A a \in DOMAIN hdr : a \notin new => hdr'[a] = hdr[a]
      /\ \/ /\ total_size < PageSize
            /\ hdr'[h] = Header(total_size, TRUE, r)
            /\ hdr'[r] = Header(PageSize - total_size, FALSE, freelist)
            /\ freelist' = r
         \/ /\ total_size >= PageSize
            /\ hdr'[h] = Header(total_size, TRUE, freelist)
            /\ freelist' = h
  BY <1>4, <1>5, <1>6, <1>7, Zenon
<1> HIDE DEF new, room
<1>10. /\ damage' \in {"none", "stray", "clash"}
       /\ damage' # "clash" => \A a \in new, b \in DOMAIN hdr : ~ Overlap(a, b)
       /\ damage' = "none" => damage = "none" /\ (room = 0 \/ room >= HeaderSize)
  BY <1>2, <1>4, <1>8, DamageStep
<1>11. room = 0 \/ room >= HeaderSize => total_size <= PageSize
  BY <1>3 DEF room
<1>12. QED
  BY <1>2, <1>9, <1>10, <1>11, Zenon DEF h, r, new, room

(* Taking a page from the page allocator and cutting the block from it. *)
LEMMA ExpandInv ==
    ASSUME HeapInv, NEW page \in Pages, Expand(page)
    PROVE  HeapInv'
<1> DEFINE h == page * PageSize
           r == page * PageSize + total_size
           new == IF total_size < PageSize THEN {h, r} ELSE {h}
<1>1. PmemInv'
  BY AllocPageInv DEF HeapInv, Expand
<1>2. /\ HeapWithinLimit' /\ h \in Nat \ {0} /\ h \notin owned
      /\ owned' = owned \cup {h} /\ mine' = mine \cup {h}
  BY ExpandLimitInv
<1>3. size \in Sizes
  BY DEF HeapInv, CallOK, Expand
<1>4. /\ total_size = size + HeaderSize /\ total_size \in Nat /\ total_size >= 1
      /\ total_size >= HeaderSize /\ PageSize \in Nat /\ HeaderSize \in Nat \ {0}
  BY <1>3, TotalSize, PmemAssumption, HeapAssumption
<1>5. r \in Nat \ {0} /\ r = h + total_size /\ h # r
  BY <1>2, <1>4
<1>6. /\ DOMAIN hdr' = DOMAIN hdr \cup new
      /\ \A a \in DOMAIN hdr : a \notin new => hdr'[a] = hdr[a]
      /\ \/ /\ total_size < PageSize
            /\ hdr'[h] = Header(total_size, TRUE, r)
            /\ hdr'[r] = Header(PageSize - total_size, FALSE, freelist)
            /\ freelist' = r
         \/ /\ total_size >= PageSize
            /\ hdr'[h] = Header(total_size, TRUE, freelist)
            /\ freelist' = h
  BY ExpandHeaders, Zenon
<1>7. /\ damage # "clash" /\ damage' \in {"none", "stray", "clash"}
      /\ damage' # "clash" => \A a \in new, b \in DOMAIN hdr : ~ Overlap(a, b)
      /\ damage' = "none" => /\ damage = "none" /\ total_size <= PageSize
                             /\ \/ PageSize - total_size = 0
                                \/ PageSize - total_size >= HeaderSize
  BY ExpandHeaders, Zenon
<1> HIDE DEF h, r
<1>8. new \subseteq {h, r} /\ h \in new /\ (r \in new <=> total_size < PageSize)
  BY <1>5
<1>9. freelist' \in new
  <2>1. total_size < PageSize <=> ~ total_size >= PageSize
    BY <1>4
  <2>2. QED
    BY <1>6, <2>1, Zenon
<1>10. \A a \in DOMAIN hdr : a \in Nat \ {0} /\ hdr[a] \in Headers /\ hdr[a].size \in Nat
  BY DEF HeapInv, HdrOK, Headers
<1>11. freelist \in Nat /\ (freelist = NULL \/ freelist \in DOMAIN hdr)
  BY <1>10 DEF HeapInv, LinksValid, NULL
<1> HIDE DEF new
<1>12. /\ hdr'[h].size = total_size
       /\ hdr'[h].allocated
       /\ hdr'[h].next \in {freelist} \cup new
       /\ hdr'[h] \in Headers
  <2>1. PICK nx \in {freelist} \cup new : nx \in Nat /\ hdr'[h] = Header(total_size, TRUE, nx)
    BY <1>5, <1>6, <1>8, <1>11, Zenon
  <2>2. /\ Header(total_size, TRUE, nx).size = total_size
        /\ Header(total_size, TRUE, nx).allocated
        /\ Header(total_size, TRUE, nx).next = nx
    BY DEF Header
  <2>3. Header(total_size, TRUE, nx) \in Headers
    <3>1. total_size \in Nat
      BY <1>4
    <3>2. QED
      BY <2>1, <3>1, HeaderType, Zenon
  <2>4. QED
    BY <2>1, <2>2, <2>3, Zenon
<1>13. ASSUME r \in new
       PROVE  /\ hdr'[r].size = PageSize - total_size
              /\ PageSize - total_size \in Nat
              /\ ~ hdr'[r].allocated
              /\ hdr'[r].next = freelist
              /\ hdr'[r] \in Headers
  <2>1. total_size < PageSize /\ ~ total_size >= PageSize /\ PageSize - total_size \in Nat
    BY <1>4, <1>8, <1>13
  <2>2. hdr'[r] = Header(PageSize - total_size, FALSE, freelist)
    BY <1>6, <2>1, Zenon
  <2>3. /\ Header(PageSize - total_size, FALSE, freelist).size = PageSize - total_size
        /\ ~ Header(PageSize - total_size, FALSE, freelist).allocated
        /\ Header(PageSize - total_size, FALSE, freelist).next = freelist
    BY DEF Header
  <2>4. Header(PageSize - total_size, FALSE, freelist) \in Headers
    BY <1>11, <2>1, HeaderType, Zenon
  <2>5. QED
    BY <2>1, <2>2, <2>3, <2>4, Zenon
<1>14. HdrOK'
  BY <1>2, <1>5, <1>6, <1>8, <1>10, <1>12, <1>13, Zenon DEF HdrOK
<1>15. IsFiniteSet(DOMAIN hdr)'
  <2>1. IsFiniteSet({h, r})
    <3>1. IsFiniteSet({h} \cup {r})
      BY FS_Singleton, FS_AddElement, Zenon
    <3>2. {h} \cup {r} = {h, r}
      OBVIOUS
    <3>3. QED
      BY <3>1, <3>2
  <2>2. IsFiniteSet(new)
    BY <1>8, <2>1, FS_Subset
  <2>3. QED
    BY <1>6, <2>2, FS_Union, Zenon DEF HeapInv
<1>16. CallOK'
  <2>1. /\ pc' = "idle" /\ size' = 0 /\ total_freed' = total_freed
        /\ total_allocated' = (total_allocated + total_size) % Word
    BY DEF Expand, MallocReturn
  <2>2. total_allocated \in 0 .. Word - 1 /\ total_freed \in 0 .. Word - 1
    BY DEF HeapInv, CallOK
  <2>3. Word \in Nat \ {0}
    BY PmemAssumption
  <2>4. total_allocated' \in 0 .. Word - 1
    BY <1>4, <2>1, <2>2, <2>3
  <2> QED
    BY <1>7, <2>1, <2>2, <2>4 DEF CallOK
<1>17. LinksValid'
  <2>1. \A a \in DOMAIN hdr' : hdr'[a].next \in {NULL} \cup DOMAIN hdr'
    <3>1. \A a \in DOMAIN hdr : hdr[a].next \in {NULL} \cup DOMAIN hdr
      BY DEF HeapInv, LinksValid
    <3>2. \A a \in new : hdr'[a].next \in {freelist} \cup new
      BY <1>8, <1>12, <1>13
    <3>3. QED
      BY <1>6, <1>11, <3>1, <3>2
  <2>2. freelist' \in DOMAIN hdr' /\ current' = NULL
    BY <1>6, <1>9 DEF Expand, MallocReturn
  <2>3. QED
    BY <2>1, <2>2 DEF LinksValid
<1>18. ASSUME damage' # "clash"
       PROVE  /\ LiveBlocksIntact /\ HeadersApart
              /\ \A a \in DOMAIN hdr : hdr'[a] = hdr[a] /\ a \notin new
  <2>1. \A a \in new : a \in Nat
    BY <1>2, <1>5, <1>8
  <2>2. \A a \in new : a \notin DOMAIN hdr
    BY <1>7, <1>18, <2>1, NotWrittenOver
  <2>3. QED
    BY <1>6, <1>7, <2>2 DEF HeapInv, Marks
<1>19. ASSUME damage' # "clash" PROVE LiveBlocksIntact'
  <2>1. live' = [a \in DOMAIN live \cup {h} |-> IF a = h THEN size ELSE live[a]]
    BY DEF Expand, MallocReturn, h
  <2>2. \A a \in DOMAIN hdr' : hdr'[a].allocated <=>
            a = h \/ (a \in DOMAIN hdr /\ hdr[a].allocated)
    BY <1>6, <1>8, <1>12, <1>13, <1>18, <1>19
  <2>3. DOMAIN live' = {a \in DOMAIN hdr' : hdr'[a].allocated}
    BY <1>6, <1>8, <1>18, <1>19, <2>1, <2>2 DEF LiveBlocksIntact
  <2>4. ASSUME NEW a \in DOMAIN live' PROVE hdr'[a].size >= live'[a] + HeaderSize
    <3>1. CASE a = h
      BY <1>4, <1>12, <2>1, <3>1
    <3>2. CASE a # h
      <4>1. a \in DOMAIN live /\ live'[a] = live[a]
        BY <2>1, <3>2
      <4>2. hdr[a].size >= live[a] + HeaderSize /\ a \in DOMAIN hdr
        BY <1>18, <1>19, <4>1 DEF LiveBlocksIntact
      <4>3. QED
        BY <1>18, <1>19, <4>1, <4>2
    <3>3. QED
      BY <3>1, <3>2
  <2>5. QED
    BY <2>3, <2>4 DEF LiveBlocksIntact
<1>20. ASSUME damage' # "clash" PROVE HeadersApart'
  <2> SUFFICES ASSUME NEW a \in DOMAIN hdr', NEW b \in DOMAIN hdr', a # b
               PROVE  ~ Overlap(a, b)
    BY DEF HeadersApart, Overlap
  <2>1. CASE a \in DOMAIN hdr /\ b \in DOMAIN hdr
    BY <1>18, <1>20, <2>1 DEF HeadersApart
  <2>2. CASE a \in new /\ b \in DOMAIN hdr
    BY <1>7, <1>20, <2>2
  <2>3. CASE a \in DOMAIN hdr /\ b \in new
    <3>1. ~ Overlap(b, a)
      BY <1>7, <1>20, <2>3
    <3>2. QED
      BY <3>1 DEF Overlap
  <2>4. CASE a \in new /\ b \in new
    <3>1. (a = h /\ b = r) \/ (a = r /\ b = h)
      BY <1>8, <2>4
    <3>2. ~ Overlap(h, r) /\ ~ Overlap(r, h)
      BY <1>2, <1>4, <1>5 DEF Overlap
    <3>3. QED
      BY <3>1, <3>2
  <2>5. QED
    BY <1>6, <2>1, <2>2, <2>3, <2>4
<1>21. ASSUME damage' = "none" PROVE Shape'
  <2>1. /\ Roomy /\ Apart /\ InPages
        /\ total_size <= PageSize
        /\ PageSize - total_size = 0 \/ PageSize - total_size >= HeaderSize
    BY <1>7, <1>21 DEF HeapInv, Shape
  <2>2. \A a \in DOMAIN hdr : hdr'[a] = hdr[a] /\ a \notin new
    BY <1>18, <1>21
  <2>3. \A a \in DOMAIN hdr : a + hdr[a].size <= h \/ h + PageSize <= a
    BY <1>2, <2>1, NewPageClear DEF h
  <2>4. r \in new => hdr'[r].size >= HeaderSize /\ r + hdr'[r].size = h + PageSize
    <3>1. r \in new => total_size < PageSize /\ hdr'[r].size = PageSize - total_size
      BY <1>8, <1>13
    <3>2. QED
      BY <1>2, <1>4, <1>5, <2>1, <3>1
  <2>5. Roomy'
    BY <1>4, <1>6, <1>8, <1>12, <2>1, <2>2, <2>4 DEF Roomy
  <2>6. \A a \in new : /\ a \in Nat /\ hdr'[a].size \in Nat /\ hdr'[a].size >= 1
                       /\ h <= a /\ a + hdr'[a].size <= h + PageSize
    <3>1. h <= h /\ h + total_size <= h + PageSize /\ h <= r
      BY <1>2, <1>4, <1>5, <2>1
    <3>2. r \in new => hdr'[r].size \in Nat /\ hdr'[r].size >= 1 /\ r + hdr'[r].size <= h + PageSize
      BY <1>2, <1>4, <1>13, <2>4
    <3>3. QED
      BY <1>2, <1>4, <1>5, <1>8, <1>12, <3>1, <3>2
  <2>7. Apart'
    <3> SUFFICES ASSUME NEW a \in DOMAIN hdr', NEW b \in DOMAIN hdr', a < b
                 PROVE  a + hdr'[a].size <= b
      BY DEF Apart
    <3>1. CASE a \in DOMAIN hdr /\ b \in DOMAIN hdr
      BY <2>1, <2>2, <3>1 DEF Apart
    <3>2. CASE a \in DOMAIN hdr /\ b \in new
      <4>1. hdr'[a] = hdr[a] /\ a \in Nat /\ hdr[a].size \in Nat
        BY <1>10, <2>2, <3>2
      <4>2. b \in Nat /\ h <= b /\ b < h + PageSize
        BY <1>2, <1>4, <2>6, <3>2
      <4>3. QED
        BY <1>2, <1>4, <2>3, <3>2, <4>1, <4>2
    <3>3. CASE a \in new /\ b \in DOMAIN hdr
      <4>1. b \in Nat /\ hdr[b].size \in Nat /\ (b + hdr[b].size <= h \/ h + PageSize <= b)
        BY <1>10, <2>3, <3>3
      <4>2. a \in Nat /\ hdr'[a].size \in Nat /\ h <= a /\ a + hdr'[a].size <= h + PageSize
        BY <2>6, <3>3
      <4>3. QED
        BY <1>2, <1>4, <4>1, <4>2
    <3>4. CASE a \in new /\ b \in new
      <4>1. h \in Nat /\ r \in Nat /\ h < r /\ r = h + total_size
        BY <1>2, <1>4, <1>5
      <4>2. (a = h \/ a = r) /\ (b = h \/ b = r)
        BY <1>8, <3>4
      <4>3. ~ (h < h) /\ ~ (r < r) /\ ~ (r < h)
        BY <4>1
      <4>4. a = h /\ b = r
        BY <4>2, <4>3
      <4>5. QED
        BY <1>12, <4>1, <4>4
    <3>5. QED
      BY <1>6, <3>1, <3>2, <3>3, <3>4
  <2>8. InPages'
    <3> SUFFICES ASSUME NEW a \in DOMAIN hdr'
                 PROVE  \E base \in mine' : base <= a /\ a + hdr'[a].size <= base + PageSize
      BY DEF InPages
    <3>1. CASE a \in DOMAIN hdr
      BY <1>2, <2>1, <2>2, <3>1 DEF InPages
    <3>2. CASE a \in new
      BY <1>2, <2>6, <3>2
    <3>3. QED
      BY <1>6, <3>1, <3>2
  <2>9. QED
    BY <2>5, <2>7, <2>8 DEF Shape
<1>22. (mine \subseteq owned)'
  BY <1>2 DEF HeapInv
<1>23. QED
  BY <1>1, <1>2, <1>14, <1>15, <1>16, <1>17, <1>19, <1>20, <1>21, <1>22 DEF HeapInv, Marks

-----------------------------------------------------------------------------

(* Every step of the heap keeps the invariant. *)
LEMMA HeapNextInv ==
    ASSUME HeapInv, [HeapNext]_heapVars
    PROVE  HeapInv'
<1>1. CASE UNCHANGED heapVars
  BY <1>1, SamePages, SameHeapInv DEF HeapInv, CallOK, LinksValid, heapVars, callVars
<1>2. CASE MallocZero
  BY <1>2, SamePages, SameHeapInv DEF MallocZero, MallocFail
<1>3. ASSUME NEW sz \in Sizes, MallocCall(sz) PROVE HeapInv'
  BY <1>3, SamePages, SameHeapInv DEF MallocCall, HeapInv, LinksValid
<1>4. CASE SearchNext
  BY <1>4, SamePages, SameHeapInv DEF SearchNext, HeapInv, LinksValid, CallOK
<1>5. CASE SearchExact
  BY <1>5, SearchExactInv
<1>6. CASE SearchSplit
  BY <1>6, SearchSplitInv
<1>7. CASE ExpandFails
  BY <1>7, SamePages, SameHeapInv DEF ExpandFails, MallocFail
<1>8. ASSUME NEW page \in Pages, Expand(page) PROVE HeapInv'
  BY <1>8, ExpandInv
<1>9. ASSUME NEW a \in DOMAIN hdr, FreeBlock(a + HeaderSize) PROVE HeapInv'
  BY <1>9, FreeBlockInv
<1>10. CASE OtherPages
  BY <1>10, OtherPagesInv
<1>11. QED
  BY <1>1, <1>2, <1>3, <1>4, <1>5, <1>6, <1>7, <1>8, <1>9, <1>10
  DEF HeapNext, ck_malloc_step, ck_free, FreeNull, FreeIgnored

LEMMA HeapAlways == HeapSpec => []HeapInv
  BY HeapInitInv, HeapNextInv, PTL DEF HeapSpec

(* For every page, header and heap size and requests of all sizes, whatever
   the sequence of ck_malloc, ck_free and repeated frees: the only ways to
   make blocks overlap or leave their page are a request that does not fit
   in a page and a split that leaves less than a header.  After one of them,
   and so for the kernel's own requests, it still holds, until a header is
   written over another one, that every block in a caller's hands is marked
   and as large as they asked for and that no two headers share a byte.  No
   link ever dangles. *)
THEOREM HeapCorrect ==
    HeapSpec => [](/\ HeapTypeOK /\ LinksValid
                   /\ DisjointUntilStray
                   /\ damage # "clash" => LiveBlocksIntact /\ HeadersApart)
<1>1. HeapInv => DisjointUntilStray
  BY ShapeDisjoint DEF HeapInv, DisjointUntilStray
<1>2. HeapInv => HeapTypeOK
  BY DEF HeapInv, PmemInv, HdrOK, Headers, CallOK, HeapTypeOK
<1>3. HeapInv => LinksValid /\ (damage # "clash" => LiveBlocksIntact /\ HeadersApart)
  BY DEF HeapInv, Marks
<1> QED
  BY <1>1, <1>2, <1>3, HeapAlways, PTL

(* The heap never outgrows CK_HEAP_MAX_SIZE and accounts for every page it
   took, for requests of all sizes and whatever the others do with pages,
   although ck_heap_expand tests the size asked for and then adds a whole
   page: the limit is a whole number of pages. *)
THEOREM HeapKeepsLimit == HeapSpec => []HeapWithinLimit
<1>1. HeapInv => HeapWithinLimit
  BY DEF HeapInv
<1> QED
  BY <1>1, HeapAlways, PTL

(* The heap and the page allocator together: the heap changes pages only
   through the page allocator's two operations, and next to it and to the
   other callers the count of pages stays right and no page is held twice or
   lost, whatever is asked of the heap. *)
THEOREM HeapTakesPages ==
    HeapSpec => /\ [][Next]_pmemVars
                /\ [](UsedPagesIsBitmap /\ PagesAccountedFor)
<1>1. ck_heap_init => PmemInv
  BY HeapInitPages
<1>2. [HeapNext]_heapVars => [Next]_pmemVars
  BY Zenon DEF HeapNext, heapVars, pmemVars, MallocZero, MallocFail, MallocCall, ck_malloc_step,
         SearchNext, SearchExact, SearchSplit, ExpandFails, Expand, ck_free, FreeBlock,
         FreeNull, FreeIgnored, OtherPages, ck_pmem_alloc_page, Next
<1>3. PmemInv /\ [Next]_pmemVars => PmemInv'
  BY PmemNextInv
<1>4. PmemInv => UsedPagesIsBitmap /\ PagesAccountedFor
  BY DEF PmemInv
<1> QED
  BY <1>1, <1>2, <1>3, <1>4, PTL DEF HeapSpec

-----------------------------------------------------------------------------

(* Callers hold finitely many blocks. *)
LEMMA BlocksFinite ==
    ASSUME HeapInv, damage # "clash"
    PROVE  IsFiniteSet(DOMAIN live) /\ DOMAIN live \subseteq DOMAIN hdr
<1>1. DOMAIN live \subseteq DOMAIN hdr /\ IsFiniteSet(DOMAIN hdr)
  BY DEF HeapInv, Marks, LiveBlocksIntact
<1> QED
  BY <1>1, FS_Subset

(* What the three ways in which ck_malloc succeeds have in common: a block
   that nobody held is handed out, as large as the request and its header,
   and no block in a caller's hands changes its size.  This is so unless the
   step writes a header over another one. *)
HandsOut(b) ==
    /\ b \in DOMAIN hdr' /\ b \notin DOMAIN live
    /\ live' = [a \in DOMAIN live \cup {b} |-> IF a = b THEN size ELSE live[a]]
    /\ hdr'[b].size = total_size
    /\ \A a \in DOMAIN live : a \in DOMAIN hdr' /\ hdr'[a].size = hdr[a].size
    /\ total_allocated' = (total_allocated + total_size) % Word
    /\ total_freed' = total_freed
    /\ ret' = b + HeaderSize
    /\ pc = "search"
    /\ damage # "clash" /\ damage' # "clash"
    /\ damage' = "none" => damage = "none"

LEMMA ExactHandsOut ==
    ASSUME HeapInv, SearchExact
    PROVE  HandsOut(current)
<1>1. /\ DOMAIN hdr' = DOMAIN hdr
      /\ \A a \in DOMAIN hdr : hdr'[a].size = hdr[a].size
  BY DEF SearchExact, HeapInv, HdrOK, Headers
<1>2. current \in DOMAIN hdr /\ ~ hdr[current].allocated
  BY DEF SearchExact, Suitable, HeapInv, LinksValid
<1>3. damage # "clash" /\ LiveBlocksIntact
  BY DEF SearchExact, HeapInv, CallOK, Marks
<1>4. DOMAIN live \subseteq DOMAIN hdr /\ current \notin DOMAIN live
  BY <1>2, <1>3 DEF LiveBlocksIntact
<1> QED
  BY <1>1, <1>2, <1>3, <1>4, Zenon DEF SearchExact, MallocReturn, HandsOut

LEMMA SplitHandsOut ==
    ASSUME HeapInv, SearchSplit, damage' # "clash"
    PROVE  HandsOut(current)
<1>1. current \in DOMAIN hdr /\ ~ hdr[current].allocated
  BY Zenon DEF SearchSplit, Suitable, HeapInv, LinksValid
<1>2. damage # "clash" /\ (damage' = "none" => damage = "none")
  BY SplitHeaders
<1>3. DOMAIN live \subseteq DOMAIN hdr /\ current \notin DOMAIN live
  BY <1>1, <1>2 DEF HeapInv, Marks, LiveBlocksIntact
<1>4. /\ DOMAIN hdr' = DOMAIN hdr \cup {current + total_size}
      /\ hdr'[current] = Header(total_size, TRUE, current + total_size)
      /\ \A a \in DOMAIN hdr : a # current => hdr'[a] = hdr[a]
  <2> DEFINE rest == current + total_size
  <2>1. /\ DOMAIN hdr' = DOMAIN hdr \cup {rest}
        /\ hdr'[current] = Header(total_size, TRUE, rest)
        /\ \A a \in DOMAIN hdr : a # current /\ a # rest => hdr'[a] = hdr[a]
        /\ rest \notin DOMAIN hdr
    BY SplitHeaders
  <2> HIDE DEF rest
  <2>2. \A a \in DOMAIN hdr : a # current => hdr'[a] = hdr[a]
    BY <2>1
  <2> QED
    BY <2>1, <2>2 DEF rest
<1>5. /\ live' = [a \in DOMAIN live \cup {current} |-> IF a = current THEN size ELSE live[a]]
      /\ total_allocated' = (total_allocated + total_size) % Word
      /\ total_freed' = total_freed /\ ret' = current + HeaderSize /\ pc = "search"
  BY DEF SearchSplit, MallocReturn
<1>6. hdr'[current].size = total_size
  BY <1>4, SizeField, Zenon
<1>7. \A a \in DOMAIN live : a \in DOMAIN hdr' /\ hdr'[a].size = hdr[a].size
  BY <1>3, <1>4
<1> QED
  BY <1>1, <1>2, <1>3, <1>4, <1>5, <1>6, <1>7, Zenon DEF HandsOut

(* The blocks of an expansion that writes over no header. *)
LEMMA ExpandNew ==
    ASSUME HeapInv, NEW page \in Pages, Expand(page), damage' # "clash"
    PROVE  LET h == page * PageSize
               r == page * PageSize + total_size
           IN  /\ h \notin DOMAIN hdr /\ h \in Nat \ {0} /\ r \in Nat /\ h < r
               /\ \A a \in DOMAIN hdr : hdr'[a] = hdr[a]
               /\ \/ /\ r \notin DOMAIN hdr
                     /\ DOMAIN hdr' = DOMAIN hdr \cup {h, r}
                     /\ hdr'[h] = Header(total_size, TRUE, r)
                     /\ hdr'[r] = Header(PageSize - total_size, FALSE, freelist)
                     /\ freelist' = r
                  \/ /\ DOMAIN hdr' = DOMAIN hdr \cup {h}
                     /\ hdr'[h] = Header(total_size, TRUE, freelist)
                     /\ freelist' = h
<1> DEFINE h == page * PageSize
           r == page * PageSize + total_size
           new == IF total_size < PageSize THEN {h, r} ELSE {h}
<1>1. h \in Nat \ {0}
  BY ExpandLimitInv
<1>2. size \in Sizes
  BY DEF HeapInv, CallOK, Expand
<1>3. total_size \in Nat /\ total_size >= 1 /\ PageSize \in Nat
  BY <1>2, TotalSize, PmemAssumption
<1>4. r \in Nat /\ h < r
  BY <1>1, <1>3
<1>5. /\ DOMAIN hdr' = DOMAIN hdr \cup new
      /\ \A a \in DOMAIN hdr : a \notin new => hdr'[a] = hdr[a]
      /\ \/ /\ total_size < PageSize
            /\ hdr'[h] = Header(total_size, TRUE, r)
            /\ hdr'[r] = Header(PageSize - total_size, FALSE, freelist)
            /\ freelist' = r
         \/ /\ total_size >= PageSize
            /\ hdr'[h] = Header(total_size, TRUE, freelist)
            /\ freelist' = h
      /\ \A a \in new, b \in DOMAIN hdr : ~ Overlap(a, b)
  BY ExpandHeaders, Zenon
<1> HIDE DEF h, r
<1>6. \A a \in new : a \in Nat
  BY <1>1, <1>4
<1>7. \A a \in new : a \notin DOMAIN hdr
  <2> HIDE DEF new
  <2> QED
    BY <1>5, <1>6, NotWrittenOver
<1>8. total_size >= PageSize => ~ total_size < PageSize
  BY <1>3
<1> QED
  BY <1>1, <1>4, <1>5, <1>7, <1>8, Zenon DEF h, r

LEMMA ExpandHandsOut ==
    ASSUME HeapInv, NEW page \in Pages, Expand(page), damage' # "clash"
    PROVE  HandsOut(page * PageSize)
<1> DEFINE h == page * PageSize
<1>1. /\ h \in DOMAIN hdr' /\ h \notin DOMAIN hdr /\ DOMAIN hdr \subseteq DOMAIN hdr'
      /\ \A a \in DOMAIN hdr : hdr'[a] = hdr[a]
      /\ \E nx : hdr'[h] = Header(total_size, TRUE, nx)
  BY ExpandNew, Zenon
<1>2. hdr'[h].size = total_size
  BY <1>1, SizeField, Zenon
<1>3. damage # "clash" /\ (damage' = "none" => damage = "none")
  BY ExpandHeaders, Zenon
<1>4. DOMAIN live \subseteq DOMAIN hdr
  BY <1>3 DEF HeapInv, Marks, LiveBlocksIntact
<1>5. /\ live' = [a \in DOMAIN live \cup {h} |-> IF a = h THEN size ELSE live[a]]
      /\ total_allocated' = (total_allocated + total_size) % Word
      /\ total_freed' = total_freed /\ ret' = h + HeaderSize /\ pc = "search"
  BY DEF Expand, MallocReturn
<1> HIDE DEF h
<1>6. HandsOut(h)
  BY <1>1, <1>2, <1>3, <1>4, <1>5, Zenon DEF HandsOut
<1> QED
  BY <1>6 DEF h

(* A ck_free that releases a block takes it out of its caller's hands and
   counts its size. *)
GivesBack(b) ==
    /\ b \in DOMAIN live
    /\ live' = [a \in DOMAIN live \ {b} |-> live[a]]
    /\ DOMAIN hdr' = DOMAIN hdr
    /\ \A a \in DOMAIN hdr : hdr'[a].size = hdr[a].size
    /\ total_freed' = (total_freed + hdr[b].size) % Word
    /\ total_allocated' = total_allocated
    /\ ret' = ret
    /\ damage # "clash" /\ damage' = damage

LEMMA FreeGivesBack ==
    ASSUME HeapInv, NEW a \in DOMAIN hdr, FreeBlock(a + HeaderSize)
    PROVE  GivesBack(a)
<1>1. a \in Nat /\ HeaderOf(a + HeaderSize) = a
  BY HeapAssumption DEF HeapInv, HdrOK, HeaderOf
<1>2. /\ hdr[a].allocated
      /\ total_freed' = (total_freed + hdr[a].size) % Word
      /\ hdr' = [hdr EXCEPT ![a].allocated = FALSE, ![a].next = freelist]
      /\ live' = [b \in DOMAIN live \ {a} |-> live[b]]
      /\ total_allocated' = total_allocated /\ ret' = ret
      /\ damage # "clash" /\ damage' = damage
  BY <1>1, Zenon DEF FreeBlock, FreedBlock, callVars
<1>3. \A b \in DOMAIN hdr : hdr'[b].size = hdr[b].size
  BY <1>2 DEF HeapInv, HdrOK, Headers
<1>4. DOMAIN hdr' = DOMAIN hdr /\ a \in DOMAIN live
  BY <1>2 DEF HeapInv, Marks, LiveBlocksIntact
<1> QED
  BY <1>2, <1>3, <1>4 DEF GivesBack

(* Every other step leaves the callers' blocks and the statistics alone. *)
Keeps ==
    /\ UNCHANGED <<hdr, live, total_allocated, total_freed, damage>>
    /\ ret' \in {ret, NULL}

LEMMA HeapSteps ==
    ASSUME HeapInv, [HeapNext]_heapVars, damage' # "clash"
    PROVE  (\E b : HandsOut(b)) \/ (\E b : GivesBack(b)) \/ Keeps
<1> USE DEF heapVars, listVars, callVars
<1>1. CASE UNCHANGED heapVars
  BY <1>1 DEF Keeps
<1>2. CASE MallocZero
  BY <1>2 DEF MallocZero, MallocFail, Keeps
<1>3. ASSUME NEW sz \in Sizes, MallocCall(sz) PROVE Keeps
  BY <1>3 DEF MallocCall, Keeps
<1>4. CASE SearchNext
  BY <1>4 DEF SearchNext, Keeps
<1>5. CASE SearchExact
  BY <1>5, ExactHandsOut
<1>6. CASE SearchSplit
  BY <1>6, SplitHandsOut
<1>7. CASE ExpandFails
  BY <1>7 DEF ExpandFails, MallocFail, Keeps
<1>8. ASSUME NEW page \in Pages, Expand(page) PROVE \E b : HandsOut(b)
  BY <1>8, ExpandHandsOut
<1>9. ASSUME NEW a \in DOMAIN hdr, FreeBlock(a + HeaderSize) PROVE \E b : GivesBack(b)
  BY <1>9, FreeGivesBack
<1>10. CASE OtherPages
  BY <1>10 DEF OtherPages, Keeps
<1> QED
  BY <1>1, <1>2, <1>3, <1>4, <1>5, <1>6, <1>7, <1>8, <1>9, <1>10
  DEF HeapNext, ck_malloc_step, ck_free, FreeNull, FreeIgnored

-----------------------------------------------------------------------------

BlockSizes == [a \in DOMAIN hdr |-> hdr[a].size]
InUse == SumFunctionOnSet(BlockSizes, DOMAIN live)

(* The sum of the sizes of a caller's blocks: its type, and that it does not
   depend on any other block. *)
LEMMA InUseType ==
    ASSUME HeapInv, damage # "clash"
    PROVE  InUse \in Int /\ \A a \in DOMAIN live : BlockSizes[a] = hdr[a].size /\ hdr[a].size \in Int
<1>1. IsFiniteSet(DOMAIN live)
  BY BlocksFinite
<1>2. \A a \in DOMAIN live : BlockSizes[a] = hdr[a].size /\ hdr[a].size \in Int
  BY BlocksFinite DEF HeapInv, HdrOK, Headers, BlockSizes
<1> QED
  BY <1>1, <1>2, SumType DEF InUse

(* ck_malloc adds the size of the block it hands out to both sides. *)
LEMMA HandsOutBalance ==
    ASSUME HeapInv, HeapInv', CallOK, StatsBalance, NEW b, HandsOut(b)
    PROVE  StatsBalance'
<1> DEFINE L == DOMAIN live
           f == BlockSizes
           g == BlockSizes'
<1>1. IsFiniteSet(L) /\ b \notin L /\ DOMAIN live' = L \cup {b}
  BY BlocksFinite DEF HandsOut
<1>2. \A a \in L : f[a] = g[a]
  BY InUseType DEF HandsOut, BlockSizes
<1>3. \A a \in L \cup {b} : g[a] \in Int
  <2>1. \A a \in DOMAIN hdr' : hdr'[a].size \in Int
    BY DEF HeapInv, HdrOK, Headers
  <2> QED
    BY <2>1 DEF HandsOut, BlockSizes
<1>4. g[b] = total_size
  BY DEF HandsOut, BlockSizes
<1> HIDE DEF f, g, L
<1>5. SumFunctionOnSet(g, L \cup {b}) = g[b] + SumFunctionOnSet(g, L)
  BY <1>1, <1>3, SumAdd
<1>6. SumFunctionOnSet(f, L) = SumFunctionOnSet(g, L)
  BY <1>1, <1>2, SumSame
<1>7. InUse' = InUse + total_size /\ InUse \in Int /\ total_size \in Int
  <2>1. SumFunctionOnSet(f, L) \in Int
    <3>1. damage # "clash"
      BY DEF HandsOut
    <3> QED
      BY <3>1, InUseType DEF InUse, f, L
  <2>2. InUse' = SumFunctionOnSet(g, L \cup {b}) /\ InUse = SumFunctionOnSet(f, L)
    BY <1>1 DEF InUse, f, g, L
  <2>3. g[b] \in Int
    BY <1>3
  <2> QED
    BY <1>4, <1>5, <1>6, <2>1, <2>2, <2>3
<1>8. /\ total_allocated \in Int /\ total_freed \in Int /\ Word \in Nat \ {0}
      /\ total_freed' = total_freed
      /\ total_allocated' = (total_allocated + total_size) % Word
  <2>1. Word \in Nat \ {0}
    BY PmemAssumption
  <2>2. total_allocated \in Int /\ total_freed \in Int
    BY <2>1 DEF CallOK
  <2> QED
    BY <2>1, <2>2, Zenon DEF HandsOut
<1>9. (total_allocated - total_freed) % Word = InUse % Word
  BY DEF StatsBalance, InUse, BlockSizes, HandsOut
<1> HIDE DEF InUse
<1>10. Balanced(total_allocated, total_freed, InUse, Word)
  BY <1>9 DEF Balanced
<1>11. Balanced(total_allocated', total_freed', InUse', Word)
  BY <1>7, <1>8, <1>10, BalanceUp, Zenon
<1> QED
  BY <1>11 DEF Balanced, StatsBalance, InUse, BlockSizes

(* ck_free takes the size of the block from both sides. *)
LEMMA GivesBackBalance ==
    ASSUME HeapInv, HeapInv', CallOK, StatsBalance, NEW b, GivesBack(b)
    PROVE  StatsBalance'
<1> DEFINE L == DOMAIN live
           f == BlockSizes
           g == BlockSizes'
<1>1. IsFiniteSet(L) /\ b \in L /\ DOMAIN live' = L \ {b}
  BY BlocksFinite DEF GivesBack
<1>2. f = g /\ f[b] = hdr[b].size /\ \A a \in L : f[a] \in Int
  BY <1>1, InUseType, Zenon DEF GivesBack, BlockSizes
<1> HIDE DEF f, g, L
<1>3. SumFunctionOnSet(f, L) = f[b] + SumFunctionOnSet(f, L \ {b})
  <2>1. IsFiniteSet(L) /\ b \in L
    BY <1>1
  <2>2. \A y \in L : f[y] \in Int
    BY <1>2, Zenon
  <2> QED
    BY <2>1, <2>2, SumRemove
<1> DEFINE z == hdr[b].size
<1>4. InUse' = InUse - z /\ InUse \in Int /\ z \in Int
  <2>1. IsFiniteSet(L \ {b})
    BY <1>1, FS_RemoveElement
  <2>2. SumFunctionOnSet(f, L \ {b}) \in Int /\ SumFunctionOnSet(f, L) \in Int
    BY <1>1, <1>2, <2>1, SumType
  <2>3. InUse' = SumFunctionOnSet(f, L \ {b}) /\ InUse = SumFunctionOnSet(f, L)
    BY <1>1, <1>2 DEF InUse, f, g, L
  <2> DEFINE all == SumFunctionOnSet(f, L)
             others == SumFunctionOnSet(f, L \ {b})
  <2>4. z \in Int /\ all = z + others
    BY <1>1, <1>2, <1>3
  <2>5. all \in Int /\ others \in Int /\ InUse' = others /\ InUse = all
    BY <2>2, <2>3
  <2> HIDE DEF all, others, z, InUse
  <2> QED
    BY <2>4, <2>5
<1>5. /\ total_allocated \in Int /\ total_freed \in Int /\ Word \in Nat \ {0}
      /\ total_allocated' = total_allocated
      /\ total_freed' = (total_freed + z) % Word
  BY PmemAssumption DEF CallOK, GivesBack
<1>6. (total_allocated - total_freed) % Word = InUse % Word
  BY DEF StatsBalance, InUse, BlockSizes, GivesBack
<1> HIDE DEF InUse, z
<1>7. Balanced(total_allocated, total_freed, InUse, Word)
  BY <1>6 DEF Balanced
<1>8. Balanced(total_allocated', total_freed', InUse', Word)
  BY <1>4, <1>5, <1>7, BalanceDown, Zenon
<1> QED
  BY <1>8 DEF Balanced, StatsBalance, InUse, BlockSizes

(* The two statistics stay in balance for requests of all sizes until a
   header is written over another one, across wraps of both counters: what
   ck_malloc counted as allocated and ck_free has not counted as freed is what
   callers hold, also when blocks stray as the task stacks do. *)
THEOREM StatsStayBalanced ==
    HeapSpec => []StatsBalance
<1> DEFINE Inv == HeapInv /\ StatsBalance
<1>1. ck_heap_init => Inv
  <2> SUFFICES ASSUME ck_heap_init PROVE StatsBalance
    BY HeapInitInv
  <2>1. DOMAIN live = {} /\ total_allocated = 0 /\ total_freed = 0
    BY DEF ck_heap_init
  <2>2. SumFunctionOnSet(BlockSizes, {}) = 0
    BY SumEmpty
  <2> QED
    BY <2>1, <2>2 DEF StatsBalance, BlockSizes
<1>2. Inv /\ [HeapNext]_heapVars => Inv'
  <2> SUFFICES ASSUME HeapInv, StatsBalance, [HeapNext]_heapVars
               PROVE  HeapInv' /\ StatsBalance'
    OBVIOUS
  <2>1. HeapInv'
    BY HeapNextInv
  <2>2. CallOK
    BY DEF HeapInv
  <2>3. CASE Keeps
    BY <2>1, <2>3 DEF StatsBalance, Keeps
  <2>4. CASE damage' = "clash"
    BY <2>1, <2>4 DEF StatsBalance
  <2> QED
    BY <2>1, <2>2, <2>3, <2>4, HeapSteps, HandsOutBalance, GivesBackBalance
<1> QED
  BY <1>1, <1>2, PTL DEF HeapSpec

-----------------------------------------------------------------------------

(* Before the first ck_free the links never run in a circle, whatever sizes
   are asked for, until a header is written over another one: in every set of
   blocks there is one whose next block, if any, is outside it. *)
NoCircle ==
    frees = 0 /\ damage # "clash" =>
        \A S \in SUBSET DOMAIN hdr : S # {} => \E a \in S : hdr[a].next \notin S

(* The search of ck_malloc before the first ck_free: each turn of the loop
   leaves a block behind that it does not come back to. *)
SearchAdvances ==
    [][frees = 0 /\ SearchNext => Reach(current)' \subseteq Reach(current) \ {current}]_heapVars

LinkInv == frees \in Nat /\ FreeBlocksLinked /\ NoCircle

(* Links lead to blocks, and no block is at address 0. *)
LEMMA LinkTargets ==
    ASSUME HeapInv
    PROVE  /\ NULL \notin DOMAIN hdr
           /\ freelist \in DOMAIN hdr \cup {NULL}
           /\ current \in DOMAIN hdr \cup {NULL}
           /\ \A a \in DOMAIN hdr : hdr[a].next \in DOMAIN hdr \cup {NULL}
BY DEF NULL, HeapInv, HdrOK, LinksValid

(* A step that leaves the links alone and marks no block free. *)
LEMMA SameLinks ==
    ASSUME LinkInv, UNCHANGED <<freelist, frees, damage>>, DOMAIN hdr' = DOMAIN hdr,
           \A a \in DOMAIN hdr : /\ hdr'[a].next = hdr[a].next
                                 /\ hdr[a].allocated => hdr'[a].allocated
    PROVE  LinkInv'
<1>1. NoCircle'
  BY DEF LinkInv, NoCircle
<1>2. \A S \in SUBSET DOMAIN hdr : Follows(S)' <=> Follows(S)
  BY DEF Follows
<1>3. Reach(freelist)' = Reach(freelist)
  BY <1>2 DEF Reach
<1>4. FreeBlocksLinked'
  BY <1>3 DEF LinkInv, FreeBlocksLinked
<1> QED
  BY <1>1, <1>4 DEF LinkInv

(* A split puts the rest into the list right behind the block. *)
LEMMA SplitLinks ==
    ASSUME HeapInv, LinkInv, SearchSplit, damage' # "clash"
    PROVE  LinkInv'
<1> DEFINE rest == current + total_size
<1>1. /\ current \in DOMAIN hdr /\ rest \notin DOMAIN hdr /\ rest # NULL
      /\ DOMAIN hdr' = DOMAIN hdr \cup {rest}
      /\ \E sz : hdr'[rest] = Header(sz, FALSE, hdr[current].next)
      /\ hdr'[current] = Header(total_size, TRUE, rest)
      /\ \A a \in DOMAIN hdr : a # current => hdr'[a] = hdr[a]
  <2> DEFINE left == hdr[current].size - total_size
  <2>1. /\ current \in DOMAIN hdr /\ rest \in Nat \ {0} /\ rest \notin DOMAIN hdr
        /\ DOMAIN hdr' = DOMAIN hdr \cup {rest}
        /\ hdr'[rest] = Header(left, FALSE, hdr[current].next)
        /\ hdr'[current] = Header(total_size, TRUE, rest)
        /\ \A a \in DOMAIN hdr : a # current /\ a # rest => hdr'[a] = hdr[a]
    BY SplitHeaders, Zenon
  <2>2. rest # NULL
    BY <2>1 DEF NULL
  <2> HIDE DEF rest, left
  <2> QED
    BY <2>1, <2>2, Zenon
<1>2. freelist' = freelist /\ frees' = frees /\ frees \in Nat /\ ~ hdr[current].allocated
      /\ damage # "clash"
  BY DEF SearchSplit, MallocReturn, LinkInv, Suitable, HeapInv, CallOK
<1> HIDE DEF rest
<1>3. hdr'[rest].next = hdr[current].next /\ hdr'[current].next = rest /\ hdr'[current].allocated
  <2>1. PICK sz : hdr'[rest] = Header(sz, FALSE, hdr[current].next)
    BY <1>1, Zenon
  <2>2. hdr'[rest].next = hdr[current].next
    BY <2>1, NextField, Zenon
  <2>3. hdr'[current] = Header(total_size, TRUE, rest)
    BY <1>1, Zenon
  <2>4. hdr'[current].next = rest
    BY <2>3, NextField, Zenon
  <2>5. hdr'[current].allocated
    BY <2>3, AllocatedField, Zenon
  <2> QED
    BY <2>2, <2>4, <2>5
<1>4. /\ freelist \in DOMAIN hdr \cup {NULL}
      /\ \A a \in DOMAIN hdr : hdr[a].next \in DOMAIN hdr \cup {NULL}
  BY LinkTargets
<1>5. ASSUME frees = 0, NEW S \in SUBSET DOMAIN hdr', freelist \in S \cup {NULL}, Follows(S)'
      PROVE  \A a \in DOMAIN hdr' : hdr'[a].allocated \/ a \in S
  <2> DEFINE T == S \ {rest}
  <2>1. T \in SUBSET DOMAIN hdr /\ freelist \in T \cup {NULL}
    BY <1>1, <1>4, <1>5
  <2>2. \A a \in S : hdr'[a].next \in S \cup {NULL}
    BY <1>5 DEF Follows
  <2>3. ASSUME NEW a \in T PROVE hdr[a].next \in T \cup {NULL}
    <3>1. CASE a # current
      BY <1>1, <1>4, <2>1, <2>2, <3>1
    <3>2. CASE a = current
      <4>1. rest \in S
        BY <1>1, <1>3, <2>2, <3>2, Zenon
      <4> QED
        BY <1>1, <1>3, <1>4, <2>2, <3>2, <4>1, Zenon
    <3> QED
      BY <3>1, <3>2
  <2>4. \A a \in DOMAIN hdr : hdr[a].allocated \/ a \in T
    BY <1>2, <1>5, <2>1, <2>3, Zenon DEF LinkInv, FreeBlocksLinked, Reach, Follows
  <2>5. rest \in S
    BY <1>1, <1>2, <1>3, <2>2, <2>4, Zenon
  <2> QED
    BY <1>1, <1>3, <2>4, <2>5, Zenon
<1>6. FreeBlocksLinked'
  BY <1>2, <1>5 DEF FreeBlocksLinked, Reach
<1>7. ASSUME frees = 0, NEW S \in SUBSET DOMAIN hdr', S # {}
      PROVE  \E a \in S : hdr'[a].next \notin S
  <2> DEFINE T == S \ {rest}
  <2>1. CASE T = {}
    <3>1. S = {rest}
      BY <1>7, <2>1
    <3>2. hdr'[rest].next # rest
      BY <1>1, <1>3, <1>4, Zenon
    <3> QED
      BY <3>1, <3>2
  <2>2. CASE T # {}
    <3>1. T \in SUBSET DOMAIN hdr
      BY <1>1
    <3>2. PICK a \in T : hdr[a].next \notin T
      BY <1>2, <1>7, <2>2, <3>1, Zenon DEF LinkInv, NoCircle
    <3>3. hdr[a].next \notin S
      BY <1>1, <1>4, <3>1, <3>2
    <3>4. CASE a # current
      BY <1>1, <3>1, <3>3, <3>4
    <3>5. CASE a = current
      BY <1>3, <3>3, <3>5
    <3> QED
      BY <3>4, <3>5
  <2> QED
    BY <2>1, <2>2
<1>8. NoCircle'
  BY <1>2, <1>7 DEF NoCircle
<1> QED
  BY <1>2, <1>6, <1>8 DEF LinkInv

(* An expansion puts its new blocks in front of the list. *)
LEMMA ExpandLinks ==
    ASSUME HeapInv, LinkInv, NEW page \in Pages, Expand(page), damage' # "clash"
    PROVE  LinkInv'
<1> DEFINE h == page * PageSize
           r == page * PageSize + total_size
<1>1. /\ h \notin DOMAIN hdr
      /\ \A a \in DOMAIN hdr : hdr'[a] = hdr[a]
      /\ \/ /\ r \notin DOMAIN hdr
            /\ DOMAIN hdr' = DOMAIN hdr \cup {h, r}
            /\ hdr'[h] = Header(total_size, TRUE, r)
            /\ hdr'[r] = Header(PageSize - total_size, FALSE, freelist)
            /\ freelist' = r
         \/ /\ DOMAIN hdr' = DOMAIN hdr \cup {h}
            /\ hdr'[h] = Header(total_size, TRUE, freelist)
            /\ freelist' = h
  BY ExpandNew, Zenon
<1>2. h # NULL /\ r # NULL /\ r # h
  <2>1. h \in Nat \ {0} /\ r \in Nat /\ h < r
    BY ExpandNew, Zenon
  <2> HIDE DEF h, r
  <2> QED
    BY <2>1 DEF NULL
<1>3. frees' = frees /\ frees \in Nat /\ damage # "clash"
  BY DEF Expand, MallocReturn, LinkInv, HeapInv, CallOK
<1> HIDE DEF h, r
<1>4. /\ freelist \in DOMAIN hdr \cup {NULL}
      /\ \A a \in DOMAIN hdr : hdr[a].next \in DOMAIN hdr \cup {NULL}
  BY LinkTargets
<1>5. \/ /\ r \notin DOMAIN hdr
         /\ DOMAIN hdr' = DOMAIN hdr \cup {h, r}
         /\ hdr'[h].next = r /\ hdr'[r].next = freelist /\ freelist' = r
      \/ /\ DOMAIN hdr' = DOMAIN hdr \cup {h}
         /\ hdr'[h].next = freelist /\ freelist' = h
  BY <1>1, NextField, Zenon
<1>6. hdr'[h].allocated
  <2>1. \E nx : hdr'[h] = Header(total_size, TRUE, nx)
    BY <1>1, Zenon
  <2>2. hdr'[h].allocated = TRUE
    BY <2>1, AllocatedField, Zenon
  <2> QED
    BY <2>2, Zenon
<1>7. ASSUME frees = 0, NEW S \in SUBSET DOMAIN hdr', freelist' \in S \cup {NULL}, Follows(S)'
      PROVE  \A a \in DOMAIN hdr' : hdr'[a].allocated \/ a \in S
  <2> DEFINE T == S \cap DOMAIN hdr
  <2>1. \A a \in S : hdr'[a].next \in S \cup {NULL}
    BY <1>7 DEF Follows
  <2>2. freelist' \in S /\ freelist \in T \cup {NULL}
    BY <1>2, <1>4, <1>5, <1>7, <2>1
  <2>3. \A a \in T : hdr[a].next \in T \cup {NULL}
    BY <1>1, <1>4, <2>1
  <2>4. \A a \in DOMAIN hdr : hdr[a].allocated \/ a \in T
    BY <1>3, <1>7, <2>2, <2>3, Zenon DEF LinkInv, FreeBlocksLinked, Reach, Follows
  <2>5. ASSUME NEW a \in DOMAIN hdr, a \notin S PROVE hdr'[a].allocated
    BY <1>1, <2>4, <2>5
  <2>6. \A a \in DOMAIN hdr' : a \in DOMAIN hdr \/ a = h \/ a = freelist'
    BY <1>5
  <2> QED
    BY <1>6, <2>2, <2>5, <2>6, Zenon
<1>8. FreeBlocksLinked'
  BY <1>3, <1>7 DEF FreeBlocksLinked, Reach
<1>9. ASSUME frees = 0, NEW S \in SUBSET DOMAIN hdr', S # {}
      PROVE  \E a \in S : hdr'[a].next \notin S
  <2> DEFINE T == S \cap DOMAIN hdr
  <2>1. CASE T # {}
    <3>1. PICK a \in T : hdr[a].next \notin T
      BY <1>3, <1>9, <2>1, Zenon DEF LinkInv, NoCircle
    <3>2. a \in S /\ hdr'[a].next = hdr[a].next /\ hdr[a].next \in DOMAIN hdr \cup {NULL}
      BY <1>1, <1>4, <3>1
    <3>3. hdr[a].next \notin S
      <4>1. S \subseteq DOMAIN hdr \cup {h, r}
        BY <1>5, <1>9
      <4> QED
        BY <1>2, <3>1, <3>2, <4>1
    <3> QED
      BY <3>2, <3>3
  <2>2. CASE T = {}
    <3>1. freelist \notin S
      BY <1>2, <1>4, <1>5, <2>2
    <3> QED
      BY <1>2, <1>5, <1>9, <2>2, <3>1
  <2> QED
    BY <2>1, <2>2
<1>10. NoCircle'
  BY <1>3, <1>9 DEF NoCircle
<1> QED
  BY <1>3, <1>8, <1>10 DEF LinkInv

(* Every step of the heap keeps the links in order up to the first ck_free. *)
LEMMA HeapNextLinks ==
    ASSUME HeapInv, LinkInv, [HeapNext]_heapVars
    PROVE  LinkInv'
<1> USE DEF heapVars, listVars
<1>0. CASE damage' = "clash" /\ frees' \in Nat
  BY <1>0 DEF LinkInv, FreeBlocksLinked, NoCircle
<1>1. CASE UNCHANGED <<hdr, freelist, frees, damage>>
  BY <1>1, SameLinks
<1>2. CASE SearchExact
  <2>1. /\ DOMAIN hdr' = DOMAIN hdr
        /\ \A a \in DOMAIN hdr : /\ hdr'[a].next = hdr[a].next
                                 /\ hdr[a].allocated => hdr'[a].allocated
    BY <1>2 DEF SearchExact, HeapInv, HdrOK, Headers
  <2>2. UNCHANGED <<freelist, frees, damage>>
    BY <1>2 DEF SearchExact, MallocReturn
  <2> QED
    BY <2>1, <2>2, SameLinks
<1>3. CASE SearchSplit
  <2>1. frees' \in Nat
    BY <1>3 DEF SearchSplit, MallocReturn, LinkInv
  <2> QED
    BY <1>0, <1>3, <2>1, SplitLinks
<1>4. ASSUME NEW page \in Pages, Expand(page) PROVE LinkInv'
  <2>1. frees' \in Nat
    BY <1>4 DEF Expand, MallocReturn, LinkInv
  <2> QED
    BY <1>0, <1>4, <2>1, ExpandLinks
<1>5. ASSUME NEW a \in DOMAIN hdr, FreeBlock(a + HeaderSize) PROVE LinkInv'
  <2>1. frees' = frees + 1 /\ frees \in Nat
    BY <1>5 DEF FreeBlock, LinkInv
  <2>2. frees' \in Nat /\ frees' # 0
    BY <2>1
  <2> QED
    BY <2>2 DEF LinkInv, FreeBlocksLinked, NoCircle
<1>6. \/ UNCHANGED <<hdr, freelist, frees, damage>>
      \/ SearchExact \/ SearchSplit
      \/ \E page \in Pages : Expand(page)
      \/ \E a \in DOMAIN hdr : FreeBlock(a + HeaderSize)
  BY DEF HeapNext, ck_malloc_step, ck_free, FreeNull, FreeIgnored, MallocZero, MallocFail,
         MallocCall, SearchNext, ExpandFails, OtherPages
<1> QED
  BY <1>1, <1>2, <1>3, <1>4, <1>5, <1>6

LEMMA HeapInitLinks == ck_heap_init => LinkInv
<1> SUFFICES ASSUME ck_heap_init PROVE LinkInv
  OBVIOUS
<1>1. frees \in Nat
  BY DEF ck_heap_init
<1>2. CASE FirstPage
  <2> DEFINE first == ReservedPages * PageSize
  <2>1. first # NULL
    <3>1. ReservedPages \in Nat \ {0} /\ PageSize \in Nat \ {0}
      BY PmemAssumption
    <3> QED
      BY <3>1 DEF NULL
  <2>2. DOMAIN hdr = {first} /\ hdr[first].next = NULL /\ freelist = first
    BY <1>2 DEF FirstPage, Header
  <2> HIDE DEF first
  <2>3. FreeBlocksLinked
    BY <2>1, <2>2 DEF FreeBlocksLinked, Reach
  <2>4. NoCircle
    BY <2>1, <2>2 DEF NoCircle
  <2> QED
    BY <1>1, <2>3, <2>4 DEF LinkInv
<1>3. CASE NoFirstPage
  <2>1. DOMAIN hdr = {}
    BY <1>3 DEF NoFirstPage
  <2> QED
    BY <1>1, <2>1 DEF LinkInv, FreeBlocksLinked, NoCircle
<1> QED
  BY <1>2, <1>3 DEF ck_heap_init

(* Where a walk can go: nowhere from the end of the list, and from a block
   to that block and to wherever its next block leads. *)
LEMMA ReachSteps ==
    ASSUME \A a \in DOMAIN hdr : hdr[a].next \in DOMAIN hdr \cup {NULL}, NULL \notin DOMAIN hdr
    PROVE  /\ Reach(NULL) = {}
           /\ \A a \in DOMAIN hdr : /\ a \in Reach(a)
                                    /\ Reach(hdr[a].next) \subseteq Reach(a)
                                    /\ Reach(a) \subseteq {a} \cup Reach(hdr[a].next)
<1>1. Reach(NULL) = {}
  <2>1. Follows({})
    BY DEF Follows
  <2> QED
    BY <2>1 DEF Reach
<1>2. ASSUME NEW a \in DOMAIN hdr PROVE a \in Reach(a)
  BY <1>2 DEF Reach
<1>3. ASSUME NEW a \in DOMAIN hdr PROVE Reach(hdr[a].next) \subseteq Reach(a)
  BY <1>3 DEF Reach, Follows
<1>4. ASSUME NEW a \in DOMAIN hdr, NEW b \in Reach(a), b # a PROVE b \in Reach(hdr[a].next)
  <2> SUFFICES ASSUME NEW S \in SUBSET DOMAIN hdr, hdr[a].next \in S \cup {NULL}, Follows(S)
               PROVE  b \in S
    BY <1>4 DEF Reach
  <2> DEFINE T == S \cup {a}
  <2>1. T \in SUBSET DOMAIN hdr /\ a \in T /\ Follows(T)
    BY DEF Follows
  <2>2. b \in T
    BY <2>1 DEF Reach
  <2> QED
    BY <1>4, <2>2
<1> QED
  BY <1>1, <1>2, <1>3, <1>4

(* Without circles a walk does not come back to where it started. *)
LEMMA NoWayBack ==
    ASSUME \A a \in DOMAIN hdr : hdr[a].next \in DOMAIN hdr \cup {NULL}, NULL \notin DOMAIN hdr,
           \A S \in SUBSET DOMAIN hdr : S # {} => \E a \in S : hdr[a].next \notin S,
           NEW c \in DOMAIN hdr
    PROVE  c \notin Reach(hdr[c].next)
<1> SUFFICES ASSUME c \in Reach(hdr[c].next) PROVE FALSE
  OBVIOUS
<1> DEFINE S == {a \in DOMAIN hdr : c \in Reach(a)}
<1>1. S \in SUBSET DOMAIN hdr /\ c \in S
  BY ReachSteps
<1>2. ASSUME NEW a \in S PROVE hdr[a].next \in S
  <2>1. c \in Reach(hdr[a].next)
    BY ReachSteps
  <2>2. hdr[a].next # NULL
    BY <2>1, ReachSteps
  <2> QED
    BY <2>1, <2>2
<1> HIDE DEF S
<1> QED
  BY <1>1, <1>2

(* For requests of all sizes: until the first ck_free, or until a header is
   written over another one, no free block drops out of the list ck_malloc
   searches, however blocks are split and pages added. *)
THEOREM FreeBlocksStayLinked ==
    HeapSpec => []FreeBlocksLinked
<1> DEFINE Inv == HeapInv /\ LinkInv
<1>1. ck_heap_init => Inv
  BY HeapInitInv, HeapInitLinks
<1>2. Inv /\ [HeapNext]_heapVars => Inv'
  BY HeapNextInv, HeapNextLinks
<1>3. Inv => FreeBlocksLinked
  BY DEF LinkInv
<1> QED
  BY <1>1, <1>2, <1>3, PTL DEF HeapSpec

(* For requests of all sizes: until the first ck_free the links form no
   circle, unless a header is written over another one, and each turn of the
   loop in ck_malloc moves on to a block the search has not seen and leaves
   one behind for good: the search takes at most as many turns as there are
   blocks.  This is why ck_malloc returns before the first ck_free. *)
THEOREM SearchMakesProgress ==
    HeapSpec => []NoCircle /\ SearchAdvances
<1> DEFINE Inv == HeapInv /\ LinkInv
           Advance == frees = 0 /\ SearchNext => Reach(current)' \subseteq Reach(current) \ {current}
<1>1. ck_heap_init => Inv
  BY HeapInitInv, HeapInitLinks
<1>2. Inv /\ [HeapNext]_heapVars => Inv'
  BY HeapNextInv, HeapNextLinks
<1>3. Inv => NoCircle
  BY DEF LinkInv
<1>4. Inv /\ [HeapNext]_heapVars => [Advance]_heapVars
  <2> SUFFICES ASSUME HeapInv, LinkInv, frees = 0, SearchNext
               PROVE  Reach(current)' \subseteq Reach(current) \ {current}
    OBVIOUS
  <2>1. /\ NULL \notin DOMAIN hdr /\ current \in DOMAIN hdr
        /\ \A a \in DOMAIN hdr : hdr[a].next \in DOMAIN hdr \cup {NULL}
    BY LinkTargets DEF SearchNext
  <2>2. \A S \in SUBSET DOMAIN hdr : S # {} => \E a \in S : hdr[a].next \notin S
    BY DEF LinkInv, NoCircle, HeapInv, CallOK, SearchNext
  <2>3. hdr' = hdr /\ current' = hdr[current].next
    BY DEF SearchNext, listVars
  <2>4. Reach(current)' = Reach(hdr[current].next)
    BY <2>3 DEF Reach, Follows
  <2>5. current \notin Reach(hdr[current].next)
    BY <2>1, <2>2, NoWayBack
  <2>6. Reach(hdr[current].next) \subseteq Reach(current)
    BY <2>1, ReachSteps
  <2> QED
    BY <2>4, <2>5, <2>6
<1> QED
  BY <1>1, <1>2, <1>3, <1>4, PTL DEF HeapSpec, SearchAdvances

-----------------------------------------------------------------------------

(* A search is for at least one byte, and blocks are held for sizes that
   were asked for. *)
Asked ==
    /\ pc = "search" => size # 0
    /\ damage # "clash" => \A a \in DOMAIN live : live[a] \in Sizes

LEMMA AskedStep ==
    ASSUME HeapInv, Asked, [HeapNext]_heapVars
    PROVE  Asked'
<1>1. pc' = "search" => size' # 0
  BY Zenon DEF Asked, HeapNext, heapVars, callVars, MallocZero, MallocFail, MallocCall, ck_malloc_step,
         SearchNext, SearchExact, SearchSplit, MallocReturn, ExpandFails, Expand,
         ck_free, FreeBlock, FreeNull, FreeIgnored, OtherPages
<1>2. pc = "search" => size \in Sizes
  BY DEF HeapInv, CallOK
<1>3. ASSUME damage' # "clash", NEW a \in DOMAIN live' PROVE live'[a] \in Sizes
  BY <1>2, <1>3, HeapSteps, Zenon DEF HandsOut, GivesBack, Keeps, Asked
<1> QED
  BY <1>1, <1>3 DEF Asked

(* Pointers and blocks correspond one to one. *)
LEMMA HeldBlocks ==
    ASSUME HeapInv, damage # "clash"
    PROVE  /\ \A a \in DOMAIN live : /\ a \in Nat /\ a + HeaderSize \in DOMAIN Held
                                     /\ HeaderOf(a + HeaderSize) = a
                                     /\ Held[a + HeaderSize] = live[a]
           /\ \A q \in DOMAIN Held : HeaderOf(q) \in DOMAIN live /\ q = HeaderOf(q) + HeaderSize
<1>1. HeaderSize \in Nat /\ \A a \in DOMAIN live : a \in Nat
  BY BlocksFinite, HeapAssumption DEF HeapInv, HdrOK
<1>2. \A a \in Nat : HeaderOf(a + HeaderSize) = a
  BY <1>1 DEF HeaderOf
<1> QED
  BY <1>1, <1>2 DEF Held

(* Until one strays blocks lie in managed memory: their pages are not
   reserved ones. *)
BlocksManaged ==
    \A a \in DOMAIN hdr : /\ a \in Nat /\ hdr[a].size \in Nat
                          /\ ReservedPages * PageSize <= a
                          /\ a + hdr[a].size <= MaxPages * PageSize

LEMMA Managed ==
    ASSUME HeapInv, damage = "none"
    PROVE  BlocksManaged
<1> SUFFICES ASSUME NEW a \in DOMAIN hdr
             PROVE  /\ a \in Nat /\ hdr[a].size \in Nat
                    /\ ReservedPages * PageSize <= a
                    /\ a + hdr[a].size <= MaxPages * PageSize
  BY DEF BlocksManaged
<1>1. /\ MaxPages \in Nat /\ PageSize \in Nat \ {0} /\ ReservedPages \in Nat
  BY PmemAssumption
<1>2. a \in Nat /\ hdr[a].size \in Nat
  BY DEF HeapInv, HdrOK, Headers
<1>3. PICK p \in Pages : /\ p * PageSize \in owned /\ p * PageSize <= a
                         /\ a + hdr[a].size <= p * PageSize + PageSize
  BY DEF HeapInv, Shape, InPages, PmemInv, PmemTypeOK
<1>4. p \in Nat /\ p < MaxPages /\ ReservedPages <= p
  BY <1>1, <1>3 DEF Pages, Reserved, HeapInv, PmemInv, PagesAccountedFor
<1>5. p * PageSize + PageSize <= MaxPages * PageSize
  BY <1>1, <1>4, PagesApart
<1>6. ReservedPages * PageSize <= p * PageSize
  BY <1>1, <1>4
<1> DEFINE x == p * PageSize
           lo == ReservedPages * PageSize
           hi == MaxPages * PageSize
<1>7. x \in Nat /\ lo \in Nat /\ hi \in Nat
  BY <1>1, <1>4
<1>8. lo <= x /\ x <= a /\ a + hdr[a].size <= x + PageSize /\ x + PageSize <= hi
  BY <1>3, <1>5, <1>6
<1> HIDE DEF x, lo, hi
<1>9. lo <= a /\ a + hdr[a].size <= hi
  BY <1>1, <1>2, <1>7, <1>8
<1> QED
  BY <1>2, <1>9 DEF lo, hi

LEMMA ManagedNext == HeapInv' /\ (damage = "none")' => BlocksManaged'
<1>1. HeapInv /\ damage = "none" => BlocksManaged
  BY Managed
<1> QED
  BY <1>1, PTL

(* The pointer handed out is one that nobody held, and is held from now on
   for the size asked for. *)
LEMMA HandsOutHeld ==
    ASSUME HeapInv, HeapInv', Asked, NEW b, HandsOut(b)
    PROVE  LET p == b + HeaderSize
           IN  /\ b \in Nat /\ p # 0 /\ p \notin DOMAIN Held
               /\ Held' = [q \in DOMAIN Held \cup {p} |-> IF q = p THEN size ELSE Held[q]]
<1> DEFINE p == b + HeaderSize
<1>1. HeaderSize \in Nat \ {0} /\ b \in Nat /\ b \notin DOMAIN live /\ damage # "clash"
  BY HeapAssumption DEF HandsOut, HeapInv, HdrOK
<1>2. DOMAIN Held' = DOMAIN Held \cup {p} /\ p \notin DOMAIN Held
  <2>1. DOMAIN live' = DOMAIN live \cup {b}
    BY DEF HandsOut
  <2>2. DOMAIN Held' = {a + HeaderSize : a \in DOMAIN live \cup {b}}
    BY <2>1 DEF Held
  <2>3. DOMAIN Held = {a + HeaderSize : a \in DOMAIN live}
    BY DEF Held
  <2>4. \A a \in DOMAIN live : a \in Nat /\ a # b
    BY <1>1, HeldBlocks
  <2>5. p \notin DOMAIN Held
    <3>1. \A a \in DOMAIN live : a + HeaderSize # p
      BY <1>1, <2>4
    <3> QED
      BY <2>3, <3>1
  <2> QED
    BY <2>2, <2>3, <2>5
<1>3. ASSUME NEW q \in DOMAIN Held PROVE Held'[q] = Held[q]
  <2> DEFINE a == HeaderOf(q)
  <2>1. a \in DOMAIN live /\ q = a + HeaderSize /\ a # b /\ Held[q] = live[a]
    BY <1>1, HeldBlocks
  <2>2. live'[a] = live[a]
    BY <2>1 DEF HandsOut
  <2>3. Held'[q] = live'[a]
    BY <1>2 DEF Held, HeaderOf
  <2> QED
    BY <2>1, <2>2, <2>3
<1>4. Held'[p] = size
  <2>1. HeaderOf(p) = b
    BY <1>1 DEF HeaderOf
  <2> QED
    BY <1>2, <2>1 DEF Held, HeaderOf, HandsOut
<1>5. Held' = [q \in DOMAIN Held \cup {p} |-> IF q = p THEN size ELSE Held[q]]
  <2>1. Held' = [q \in DOMAIN Held' |-> Held'[q]]
    BY DEF Held
  <2> QED
    BY <1>2, <1>3, <1>4, <2>1
<1>6. p # 0
  BY <1>1
<1> QED
  BY <1>1, <1>2, <1>5, <1>6

(* No byte after the lower of two headers, and within its block, lies in the
   bytes after the upper one. *)
LEMMA BytesApart ==
    ASSUME NEW a \in Int, NEW b \in Int, NEW n \in Int, NEW hs \in Nat,
           a < b, a + (n + hs) <= b,
           NEW x \in Int, b + hs <= x, x < a + hs + n
    PROVE  FALSE
  OBVIOUS

(* Until a block strays its bytes are managed ones, and the caller's own. *)
LEMMA HandsOutOwn ==
    ASSUME HeapInv, HeapInv', Asked, NEW b, HandsOut(b), damage' = "none"
    PROVE  Alloc!OwnBytes(b + HeaderSize, size)
<1> DEFINE p == b + HeaderSize
<1>1. size \in Sizes /\ size \in Nat \ {0} /\ HeaderSize \in Nat \ {0}
  BY HeapAssumption DEF HandsOut, Asked, HeapInv, CallOK
<1>2. total_size = size + HeaderSize
  BY <1>1, TotalSize
<1>3. /\ b \in DOMAIN hdr' /\ b \notin DOMAIN live /\ hdr'[b].size = size + HeaderSize
      /\ damage # "clash"
  BY <1>2 DEF HandsOut
<1>4. /\ b \in Nat
      /\ ReservedPages * PageSize <= b
      /\ b + (size + HeaderSize) <= MaxPages * PageSize
  BY <1>3, ManagedNext DEF BlocksManaged
<1>5. ReservedPages * PageSize \in Int /\ MaxPages * PageSize \in Int
  BY PmemAssumption
<1>6. Alloc!Bytes(p, size) \subseteq ManagedAddrs
  <2> DEFINE lo == ReservedPages * PageSize
             hi == MaxPages * PageSize
  <2>1. ManagedAddrs = lo .. hi - 1 /\ lo \in Int /\ hi \in Int
    BY <1>5 DEF ManagedAddrs
  <2>2. lo <= b /\ b + (size + HeaderSize) <= hi
    BY <1>4
  <2> HIDE DEF lo, hi
  <2> QED
    BY <1>1, <1>4, <2>1, <2>2 DEF Alloc!Bytes
<1>7. Apart' /\ LiveBlocksIntact /\ HdrOK'
  BY <1>3 DEF HeapInv, Shape, Marks
<1>8. ASSUME NEW q \in DOMAIN Held
      PROVE  Alloc!Bytes(p, size) \cap Alloc!Bytes(q, Held[q]) = {}
  <2> DEFINE a == HeaderOf(q)
  <2>1. a \in DOMAIN live /\ q = a + HeaderSize /\ a # b /\ Held[q] = live[a] /\ a \in Nat
    BY <1>3, HeldBlocks
  <2>2. a \in DOMAIN hdr' /\ hdr'[a].size = hdr[a].size
    BY <2>1 DEF HandsOut
  <2>3. live[a] \in Nat /\ hdr'[a].size \in Nat /\ hdr'[a].size >= live[a] + HeaderSize
    <3>1. live[a] \in Nat
      BY <1>3, <2>1, HeapAssumption, Zenon DEF Asked
    <3> QED
      BY <1>7, <2>1, <2>2, <3>1, Zenon DEF LiveBlocksIntact, HdrOK, Headers
  <2>4. a < b => a + hdr'[a].size <= b
    BY <1>3, <1>7, <2>2 DEF Apart
  <2>5. b < a => b + (size + HeaderSize) <= a
    BY <1>3, <1>7, <2>2 DEF Apart
  <2> HIDE DEF a
  <2>6. Alloc!Bytes(p, size) \cap Alloc!Bytes(q, live[a]) = {}
    <3>1. ASSUME NEW x \in p .. p + size - 1, x \in q .. q + live[a] - 1
          PROVE  FALSE
      <4> DEFINE n == live[a]
      <4>1. n \in Int /\ size \in Int /\ HeaderSize \in Nat /\ a \in Int /\ b \in Int
        BY <1>1, <1>4, <2>1, <2>3
      <4>2. a < b => a + (n + HeaderSize) <= b
        BY <1>1, <1>4, <2>1, <2>3, <2>4
      <4>3. /\ x \in Int /\ b + HeaderSize <= x /\ x < b + HeaderSize + size
            /\ a + HeaderSize <= x /\ x < a + HeaderSize + n
        BY <1>1, <1>4, <2>1, <2>3, <3>1
      <4> HIDE DEF n
      <4>4. CASE a < b
        BY <4>1, <4>2, <4>3, <4>4, BytesApart
      <4>5. CASE b < a
        BY <2>5, <4>1, <4>3, <4>5, BytesApart
      <4> QED
        BY <2>1, <4>1, <4>4, <4>5
    <3> QED
      BY <3>1 DEF Alloc!Bytes
  <2> QED
    BY <2>1, <2>6
<1> QED
  BY <1>6, <1>8 DEF Alloc!OwnBytes

(* ck_malloc hands out memory as an allocator should. *)
LEMMA HandsOutGets ==
    ASSUME HeapInv, HeapInv', Asked, NEW b, HandsOut(b)
    PROVE  size \in Sizes /\ Alloc!Get(size)
<1>1. size \in Sizes
  BY DEF HandsOut, HeapInv, CallOK
<1> DEFINE p == b + HeaderSize
<1>2. /\ p # 0 /\ p \notin DOMAIN Held
      /\ Held' = [q \in DOMAIN Held \cup {p} |-> IF q = p THEN size ELSE Held[q]]
  BY HandsOutHeld, Zenon
<1>3. ret' = p /\ (damage' = "none" => damage = "none" /\ Alloc!OwnBytes(p, size))
  BY HandsOutOwn DEF HandsOut
<1> HIDE DEF p
<1> QED
  BY <1>1, <1>2, <1>3 DEF Alloc!Get

(* ck_free gives memory back as an allocator should. *)
LEMMA GivesBackReleases ==
    ASSUME HeapInv, NEW b, GivesBack(b)
    PROVE  b + HeaderSize \in DOMAIN Held /\ Alloc!Release(b + HeaderSize)
<1> DEFINE p == b + HeaderSize
<1>1. /\ b \in DOMAIN live /\ b \in Nat /\ HeaderSize \in Nat /\ p \in DOMAIN Held
      /\ damage # "clash"
  BY HeldBlocks, HeapAssumption DEF GivesBack
<1>2. live' = [a \in DOMAIN live \ {b} |-> live[a]] /\ ret' = ret /\ damage' = damage
  BY Zenon DEF GivesBack
<1>3. DOMAIN Held' = DOMAIN Held \ {p}
  <2>1. DOMAIN Held' = {a + HeaderSize : a \in DOMAIN live \ {b}}
    BY <1>2 DEF Held
  <2>2. DOMAIN Held = {a + HeaderSize : a \in DOMAIN live}
    BY DEF Held
  <2>3. \A a \in DOMAIN live : a \in Nat /\ (a + HeaderSize = p <=> a = b)
    BY <1>1, HeldBlocks
  <2> QED
    BY <2>1, <2>2, <2>3
<1>4. \A q \in DOMAIN Held' : Held'[q] = Held[q]
  <2> TAKE q \in DOMAIN Held'
  <2>1. HeaderOf(q) \in DOMAIN live /\ HeaderOf(q) # b
    BY <1>1, <1>3, HeldBlocks
  <2>2. Held'[q] = live'[HeaderOf(q)] /\ Held[q] = live[HeaderOf(q)]
    BY <1>3 DEF Held, HeaderOf
  <2> QED
    BY <1>2, <2>1, <2>2
<1>5. Held' = [q \in DOMAIN Held' |-> Held'[q]]
  BY DEF Held
<1>6. Held' = [q \in DOMAIN Held \ {p} |-> Held[q]]
  BY <1>3, <1>4, <1>5
<1> QED
  BY <1>1, <1>2, <1>6 DEF Alloc!Release

(* For requests of all sizes: what callers see of ck_malloc and ck_free is an
   allocator.  Until a block strays it hands out as many bytes of managed
   memory as were asked for, never a byte that somebody still holds; after
   that, and so for the task stacks, still never a block that somebody holds,
   until a header is written over another one. *)
THEOREM HeapImplements ==
    HeapSpec => ImplementsAllocator
<1> DEFINE Inv == HeapInv /\ Asked
<1>1. ck_heap_init => Inv
  BY HeapInitInv DEF ck_heap_init, Asked
<1>2. Inv /\ [HeapNext]_heapVars => Inv'
  BY HeapNextInv, AskedStep
<1>3. ck_heap_init => Alloc!AllocInit
  BY DEF ck_heap_init, Alloc!AllocInit, Held, NULL
<1>4. Inv /\ Inv' /\ [HeapNext]_heapVars => [Alloc!AllocNext]_(Alloc!allocVars)
  <2> SUFFICES ASSUME HeapInv, Asked, HeapInv', [HeapNext]_heapVars
               PROVE  [Alloc!AllocNext]_(Alloc!allocVars)
    OBVIOUS
  <2>1. ASSUME NEW b, HandsOut(b) PROVE Alloc!AllocNext
    <3>1. damage # "clash"
      BY <2>1 DEF HandsOut
    <3> QED
      BY <2>1, <3>1, HandsOutGets DEF Alloc!AllocNext
  <2>2. ASSUME NEW b, GivesBack(b) PROVE Alloc!AllocNext
    <3>1. damage # "clash"
      BY <2>2 DEF GivesBack
    <3> QED
      BY <2>2, <3>1, GivesBackReleases DEF Alloc!AllocNext
  <2>3. ASSUME Keeps, damage' # "clash" PROVE [Alloc!AllocNext]_(Alloc!allocVars)
    <3>1. Held' = Held
      BY <2>3 DEF Held, HeaderOf, Keeps
    <3> QED
      BY <2>3, <3>1 DEF Alloc!AllocNext, Alloc!Refuse, Alloc!allocVars, NULL, Keeps
  <2>4. CASE damage' = "clash"
    BY <2>4 DEF Alloc!AllocNext, Alloc!Ruined
  <2> QED
    BY <2>1, <2>2, <2>3, <2>4, HeapSteps
<1> QED
  BY <1>1, <1>2, <1>3, <1>4, PTL DEF HeapSpec, ImplementsAllocator, Alloc!AllocSpec
============================================================================
