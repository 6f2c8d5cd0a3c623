------------------------------- MODULE Heap -------------------------------
(***************************************************************************)
(* The kernel heap (src/memory/heap.c) on top of the page allocator.       *)
(*                                                                         *)
(* Memory is byte-addressed; hdr holds the headers that have been written, *)
(* by address.  ck_malloc is a call step, one step per iteration of its    *)
(* search loop, and the step that returns, so that a search that never     *)
(* ends is a behaviour and not a gap in the model.  Nothing is unlinked    *)
(* from the freelist and nothing is coalesced, as in the code.             *)
(*                                                                         *)
(* The code looks neither at what a split leaves behind nor at whether a   *)
(* request fits in the page it gets, so for some sizes blocks overlap.     *)
(* The history variable damage says how far that has gone:                 *)
(*   "none"   no request has caused an overlap;                            *)
(*   "stray"  a block larger than its page, or a remainder smaller than    *)
(*            its header, was made: payloads reach into other memory, and  *)
(*            the headers are right as long as nobody writes there;        *)
(*   "clash"  a header was written over bytes of another one, and memory   *)
(*            is no longer what hdr says: the model of the heap ends here. *)
(***************************************************************************)
EXTENDS Pmem, Functions

CONSTANTS
    HeaderSize,   \* CK_HEAP_HEADER_SIZE, 12
    HeapMaxSize,  \* CK_HEAP_MAX_SIZE, 256 MB
    Sizes,        \* the sizes callers pass to ck_malloc
    MaxFrees      \* bound: how many times ck_free releases a block

ASSUME HeapAssumption ==
    /\ HeaderSize \in Nat \ {0} /\ HeaderSize <= PageSize
    /\ HeapMaxSize \in Nat
    /\ PageSize <= HeapMaxSize /\ HeapMaxSize % PageSize = 0
    /\ HeapMaxSize + PageSize < Word
    /\ Sizes \subseteq Nat
    /\ \A sz \in Sizes : HeapMaxSize + sz + HeaderSize < Word
    /\ MaxFrees \in Nat

NULL == 0

VARIABLES
    hdr,              \* address -> struct ck_heap_header
    freelist,         \* ck_heap_freelist
    heap_size,        \* ck_heap_size
    total_allocated,  \* ck_heap_total_allocated
    total_freed,      \* ck_heap_total_freed
    pc,               \* "idle", or "search" inside ck_malloc's loop
    size,             \* ck_malloc's argument
    current,          \* the loop variable of ck_malloc
    ret,              \* what the last ck_malloc returned
    mine,             \* history: the pages the heap took, by address
    live,             \* history: block handed out and not freed -> size asked for
    frees,            \* history: number of blocks freed, bounded by MaxFrees
    damage            \* history: "none", "stray" or "clash", see above

listVars == <<hdr, freelist, heap_size, total_allocated, total_freed>>
callVars == <<pc, size, current, ret>>
heapVars == <<pmemVars, listVars, callVars, mine, live, frees, damage>>

Header(sz, al, nx) == [size |-> sz, allocated |-> al, next |-> nx]

(* Memory after writing the headers of new. *)
Write(new) ==
    [a \in DOMAIN hdr \cup DOMAIN new |-> IF a \in DOMAIN new THEN new[a] ELSE hdr[a]]

TwoHeaders(a, x, b, y) == [d \in {a, b} |-> IF d = a THEN x ELSE y]

total_size == (size + HeaderSize) % Word

(* The damage that writing headers at the addresses of new does, the block in
   front of them leaving room bytes of the block or page it was cut from. *)
Overlap(a, b) == a < b + HeaderSize /\ b < a + HeaderSize

DamageAfter(new, room) ==
    IF \E a \in new, b \in DOMAIN hdr : Overlap(a, b) THEN "clash"
    ELSE IF room # 0 /\ room < HeaderSize THEN "stray"
    ELSE damage

(* The whole first page is one free block; with no page to be had the heap
   stays empty. *)
FirstPage ==
    LET first == ReservedPages * PageSize
    IN  /\ ReservedPages < MaxPages
        /\ bitmap = Reserved \cup {ReservedPages}
        /\ used_pages = ReservedPages + 1
        /\ owned = {first} /\ mine = {first}
        /\ hdr = [a \in {first} |-> Header(PageSize, FALSE, NULL)]
        /\ freelist = first
        /\ heap_size = PageSize

NoFirstPage ==
    /\ ReservedPages = MaxPages
    /\ bitmap = Reserved
    /\ used_pages = ReservedPages
    /\ owned = {} /\ mine = {}
    /\ hdr = << >>
    /\ freelist = NULL
    /\ heap_size = 0

ck_heap_init ==
    /\ FirstPage \/ NoFirstPage
    /\ total_pages = MaxPages
    /\ total_allocated = 0
    /\ total_freed = 0
    /\ pc = "idle"
    /\ size = 0
    /\ current = NULL
    /\ ret = NULL
    /\ live = << >>
    /\ frees = 0
    /\ damage = "none"

MallocReturn(block) ==
    /\ pc' = "idle"
    /\ size' = 0
    /\ current' = NULL
    /\ ret' = block + HeaderSize
    /\ live' = [a \in DOMAIN live \cup {block} |-> IF a = block THEN size ELSE live[a]]
    /\ total_allocated' = (total_allocated + total_size) % Word
    /\ UNCHANGED <<total_freed, frees>>

MallocFail ==
    /\ pc' = "idle"
    /\ size' = 0
    /\ current' = NULL
    /\ ret' = NULL
    /\ UNCHANGED <<pmemVars, listVars, mine, live, frees, damage>>

MallocZero ==
    /\ pc = "idle"
    /\ MallocFail

MallocCall(sz) ==
    /\ pc = "idle"
    /\ damage # "clash"
    /\ sz # 0
    /\ pc' = "search"
    /\ size' = sz
    /\ current' = freelist
    /\ UNCHANGED <<pmemVars, listVars, ret, mine, live, frees, damage>>

(* The test at the top of the loop body. *)
SuitableInUse == hdr[current].size >= total_size
Suitable == ~ hdr[current].allocated /\ hdr[current].size >= total_size

SearchNext ==
    /\ pc = "search"
    /\ current # NULL
    /\ ~ Suitable
    /\ current' = hdr[current].next
    /\ UNCHANGED <<pmemVars, listVars, pc, size, ret, mine, live, frees, damage>>

SearchExact ==
    /\ pc = "search"
    /\ current # NULL
    /\ Suitable
    /\ hdr[current].size = total_size
    /\ hdr' = [hdr EXCEPT ![current].allocated = TRUE]
    /\ MallocReturn(current)
    /\ UNCHANGED <<pmemVars, freelist, heap_size, mine, damage>>

(* Splitting a larger block: the header of new_block, then current's. *)
SplitRestUncut == Header(hdr[current].size, FALSE, hdr[current].next)
SplitRest == Header(hdr[current].size - total_size, FALSE, hdr[current].next)

SplitUsedUnlinked == Header(total_size, TRUE, hdr[current].next)
SplitUsed == Header(total_size, TRUE, current + total_size)

SearchSplit ==
    /\ pc = "search"
    /\ current # NULL
    /\ Suitable
    /\ hdr[current].size > total_size
    /\ hdr' = Write(TwoHeaders(current + total_size, SplitRest, current, SplitUsed))
    /\ damage' = DamageAfter({current + total_size}, hdr[current].size - total_size)
    /\ MallocReturn(current)
    /\ UNCHANGED <<pmemVars, freelist, heap_size, mine>>

(* ck_heap_expand refuses on the size asked for, then gives one page. *)
LimitIgnoresRequest == heap_size > HeapMaxSize
ExpandLimit == (heap_size + total_size) % Word > HeapMaxSize

ExpandFails ==
    /\ pc = "search"
    /\ current = NULL
    /\ ExpandLimit \/ Pages \subseteq bitmap
    /\ MallocFail

(* The header of what is left of a fresh page, written at remaining. *)
PageRestSelfLinked(remaining) == Header(PageSize - total_size, FALSE, remaining)
PageRest(remaining) == Header(PageSize - total_size, FALSE, freelist)

ExpandWithRest(header, remaining) ==
    /\ PageSize > total_size
    /\ hdr' = Write(TwoHeaders(remaining, PageRest(remaining),
                               header, Header(total_size, TRUE, remaining)))
    /\ damage' = DamageAfter({header, remaining}, PageSize - total_size)
    /\ freelist' = remaining

ExpandWhole(header) ==
    /\ PageSize <= total_size
    /\ hdr' = Write([a \in {header} |-> Header(total_size, TRUE, freelist)])
    /\ damage' = DamageAfter({header}, PageSize - total_size)
    /\ freelist' = header

Expand(page) ==
    /\ pc = "search"
    /\ current = NULL
    /\ ~ ExpandLimit
    /\ AllocPage(page)
    /\ mine' = mine \cup {page * PageSize}
    /\ heap_size' = (heap_size + PageSize) % Word
    /\ \/ ExpandWithRest(page * PageSize, page * PageSize + total_size)
       \/ ExpandWhole(page * PageSize)
    /\ MallocReturn(page * PageSize)

ck_malloc_step ==
    \/ SearchNext
    \/ SearchExact
    \/ SearchSplit
    \/ ExpandFails
    \/ \E page \in Pages : Expand(page)

(* ck_free finds the header just below the pointer it is given. *)
HeaderOf(ptr) == ptr - HeaderSize

FreedPayload(header) == (total_freed + hdr[header].size - HeaderSize) % Word
FreedBlock(header) == (total_freed + hdr[header].size) % Word

FreeBlock(ptr) ==
    LET header == HeaderOf(ptr)
    IN  /\ pc = "idle"
        /\ damage # "clash"
        /\ frees < MaxFrees
        /\ hdr[header].allocated
        /\ total_freed' = FreedBlock(header)
        /\ hdr' = [hdr EXCEPT ![header].allocated = FALSE, ![header].next = freelist]
        /\ freelist' = header
        /\ live' = [b \in DOMAIN live \ {header} |-> live[b]]
        /\ frees' = frees + 1
        /\ UNCHANGED <<pmemVars, heap_size, total_allocated, callVars, mine, damage>>

(* ck_free of NULL, and a second ck_free of the same block. *)
FreeNull == pc = "idle" /\ UNCHANGED heapVars

FreeIgnored(ptr) ==
    /\ pc = "idle"
    /\ damage # "clash"
    /\ ~ hdr[HeaderOf(ptr)].allocated
    /\ UNCHANGED heapVars

ck_free(ptr) == FreeBlock(ptr) \/ FreeIgnored(ptr)

(* The rest of the kernel and its pages: pmem.h offers both calls to it, and
   today nothing but the heap uses them.  It frees any address, but for the
   pages of the heap. *)
OtherPages ==
    /\ pc = "idle"
    /\ \/ ck_pmem_alloc_page
       \/ \E addr \in ManagedAddrs \ mine : ck_pmem_free_page(addr)
    /\ UNCHANGED <<listVars, callVars, mine, live, frees, damage>>

HeapNext ==
    \/ OtherPages
    \/ MallocZero
    \/ \E sz \in Sizes : MallocCall(sz)
    \/ ck_malloc_step
    \/ FreeNull
    \/ \E a \in DOMAIN hdr : ck_free(a + HeaderSize)

HeapSpec == ck_heap_init /\ [][HeapNext]_heapVars

(* The search loop is not blocked by anything: the kernel thread keeps
   executing the call it is in. *)
HeapFairSpec == HeapSpec /\ WF_heapVars(ck_malloc_step)

-----------------------------------------------------------------------------

(* Types, with every counter within a 32-bit word. *)
HeapTypeOK ==
    /\ PmemTypeOK
    /\ \A a \in DOMAIN hdr : hdr[a] \in [size : Nat, allocated : BOOLEAN, next : Nat]
    /\ pc \in {"idle", "search"}
    /\ size \in Sizes \cup {0}
    /\ total_allocated \in 0 .. Word - 1
    /\ total_freed \in 0 .. Word - 1
    /\ mine \subseteq owned
    /\ damage \in {"none", "stray", "clash"}

(* Bytes from a that the block at a may touch: its header at least. *)
End(a) == a + (IF hdr[a].size >= HeaderSize THEN hdr[a].size ELSE HeaderSize)

(* No two blocks share a byte, and every block lies inside one page that the
   heap got from the page allocator: no header and no payload that ck_malloc
   splits off or hands out reaches into another block, into another page or
   into memory the heap does not own. *)
BlocksDisjoint ==
    /\ \A a, b \in DOMAIN hdr : a < b => End(a) <= b
    /\ \A a \in DOMAIN hdr : \E base \in mine : base <= a /\ End(a) <= base + PageSize

(* Blocks are disjoint until a request does not fit in its page or a split
   leaves less than a header: nothing else that ck_malloc and ck_free do, in
   any order and with any sizes, makes two blocks share a byte. *)
DisjointUntilStray == damage = "none" => BlocksDisjoint

(* No header lies over another one, so that each field reads as it was
   written. *)
HeadersApart == \A a, b \in DOMAIN hdr : a # b => ~ Overlap(a, b)

(* Every pointer the allocator follows, the freelist head, each next field
   and the loop variable, is NULL or the address of a header: the repeated
   linking that ck_free does may tie knots but never leaves a dangling link. *)
LinksValid ==
    \A p \in {freelist, current} \cup {hdr[a].next : a \in DOMAIN hdr} :
        p = NULL \/ p \in DOMAIN hdr

(* The blocks in the hands of callers are exactly the ones marked allocated,
   and each is as large as the caller asked for. *)
LiveBlocksIntact ==
    /\ DOMAIN live = {a \in DOMAIN hdr : hdr[a].allocated}
    /\ \A a \in DOMAIN live : hdr[a].size >= live[a] + HeaderSize

(* ck_heap_size counts the pages taken and never exceeds the maximum, even
   though ck_heap_expand compares the size asked for and then adds a page. *)
HeapWithinLimit ==
    /\ heap_size = PageSize * Cardinality(mine)
    /\ heap_size <= HeapMaxSize

(* The callers' view: the pointers they hold, and the sizes they asked for. *)
Held == [p \in {a + HeaderSize : a \in DOMAIN live} |-> live[HeaderOf(p)]]
Alloc ==
    INSTANCE Allocator WITH
        Memory <- ManagedAddrs, Requests <- Sizes, held <- Held, answer <- ret,
        trust <- damage

(* Callers see an allocator: no pointer ck_malloc returns is one that somebody
   still holds, whatever was split, expanded, freed and freed again before;
   and until a block strays it is the start of as many bytes of managed memory
   as they asked for, none of them in a block that somebody holds. *)
ImplementsAllocator == Alloc!AllocSpec

(* The two statistics differ by the bytes of the blocks in use, modulo 2^32:
   a block handed out twice, or released twice, would break the balance.
   Blocks of any size count, as long as no header is written over another. *)
StatsBalance ==
    damage # "clash" =>
        (total_allocated - total_freed) % Word
            = SumFunctionOnSet([a \in DOMAIN hdr |-> hdr[a].size], DOMAIN live) % Word

(* The blocks that a walk along the list meets from block p on: those in
   every set of blocks that has p and, with a block, the next one. *)
Follows(S) == \A a \in S : hdr[a].next \in S \cup {NULL}
Reach(p) ==
    {a \in DOMAIN hdr : \A S \in SUBSET DOMAIN hdr : p \in S \cup {NULL} /\ Follows(S) => a \in S}

(* "Free blocks are linked in a freelist for reuse" (heap.c:7): every free
   block can be reached from the freelist head.  A ck_free may cut some off,
   so this is about the states before the first one. *)
FreeBlocksLinked ==
    frees = 0 /\ damage # "clash" =>
        \A a \in DOMAIN hdr : hdr[a].allocated \/ a \in Reach(freelist)

(* Every ck_malloc returns. *)
MallocReturns == pc = "search" ~> pc = "idle"

(* Every ck_malloc called before the first ck_free returns: splitting and
   expanding never tie the list that the search follows into a cycle. *)
MallocReturnsBeforeFree == pc = "search" /\ frees = 0 ~> pc = "idle"
============================================================================
