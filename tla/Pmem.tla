------------------------------- MODULE Pmem -------------------------------
(***************************************************************************)
(* The physical page allocator (src/memory/pmem.c): one bit per 4 KB page, *)
(* first-fit allocation, and the statistics the shell prints.  Every call  *)
(* runs to completion on the one kernel thread and no interrupt handler    *)
(* calls into it, so each function is one action.                          *)
(***************************************************************************)
EXTENDS Integers, FiniteSets

CONSTANTS
    MaxPages,       \* CK_MAX_PAGES, 65536
    ReservedPages,  \* the 384 pages ck_pmem_init marks used
    PageSize,       \* CK_PAGE_SIZE, 4096
    Word            \* 2^32, the range of a uint32_t

ASSUME PmemAssumption ==
    /\ MaxPages \in Nat
    /\ ReservedPages \in 1 .. MaxPages
    /\ PageSize \in Nat \ {0}
    /\ Word \in Nat
    /\ MaxPages < Word

VARIABLES
    bitmap,       \* the pages whose bit in ck_pmem_bitmap is 1
    total_pages,  \* ck_pmem_total_pages
    used_pages,   \* ck_pmem_used_pages
    owned         \* history: the addresses callers hold, got and not given back

pmemVars == <<bitmap, total_pages, used_pages, owned>>

Pages == 0 .. MaxPages - 1
Reserved == 0 .. ReservedPages - 1
PageOf(addr) == addr \div PageSize

(* ck_pmem_test_bit: a page out of range reads as used. *)
test_bit(page) == page \notin Pages \/ page \in bitmap

ck_pmem_init ==
    /\ bitmap = Reserved
    /\ total_pages = MaxPages
    /\ used_pages = ReservedPages
    /\ owned = {}

(* The scan stops at the first clear bit.  The result 0 means failure, so a
   caller takes nothing from it. *)
AllocPage(page) ==
    /\ page \in Pages \ bitmap
    /\ 0 .. page - 1 \subseteq bitmap
    /\ bitmap' = bitmap \cup {page}
    /\ used_pages' = (used_pages + 1) % Word
    /\ owned' = owned \cup ({page * PageSize} \ {0})
    /\ UNCHANGED total_pages

AllocFails ==
    /\ Pages \subseteq bitmap
    /\ UNCHANGED pmemVars

(* The two early returns of ck_pmem_free_page. *)
FreesUntested(addr) == addr % PageSize = 0
FreesUnaligned(addr) == test_bit(PageOf(addr))
Frees(addr) == addr % PageSize = 0 /\ test_bit(PageOf(addr))

FreePageClears(addr) ==
    /\ Frees(addr)
    /\ bitmap' = bitmap \ {PageOf(addr)}
    /\ used_pages' = (used_pages - 1) % Word
    /\ owned' = owned \ {addr}
    /\ UNCHANGED total_pages

FreePageIgnored(addr) == ~ Frees(addr) /\ UNCHANGED pmemVars

ck_pmem_alloc_page == (\E page \in Pages : AllocPage(page)) \/ AllocFails
ck_pmem_free_page(addr) == FreePageClears(addr) \/ FreePageIgnored(addr)

(***************************************************************************)
(* Callers that keep to pages the allocator manages: any byte address in   *)
(* them, aligned or not, held, given back before or never handed out.      *)
(***************************************************************************)
ManagedAddrs == ReservedPages * PageSize .. MaxPages * PageSize - 1

Next ==
    \/ ck_pmem_alloc_page
    \/ \E addr \in ManagedAddrs : ck_pmem_free_page(addr)

Spec == ck_pmem_init /\ [][Next]_pmemVars

-----------------------------------------------------------------------------

(* The bitmap and the counters stay in range: in particular a free of a page
   that is already free never takes ck_pmem_used_pages below zero. *)
PmemTypeOK ==
    /\ bitmap \subseteq Pages
    /\ total_pages = MaxPages
    /\ used_pages \in 0 .. MaxPages
    /\ owned \subseteq {p * PageSize : p \in Pages}

(* What ck_pmem_get_used_pages reports is the number of bits set, whatever
   mix of allocations, repeated frees and unaligned frees came before. *)
UsedPagesIsBitmap == used_pages = Cardinality(bitmap)

(* Every set bit is a reserved page or a page exactly one caller holds: no
   page is handed out while it is held, none is lost, and the reserved pages
   are never handed out. *)
PagesAccountedFor ==
    /\ \A p \in Pages : p \in bitmap <=> p \in Reserved \/ p * PageSize \in owned
    /\ \A p \in Reserved : p * PageSize \notin owned
============================================================================
