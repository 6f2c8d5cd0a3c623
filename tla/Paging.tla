------------------------------ MODULE Paging ------------------------------
(***************************************************************************)
(* Two-level paging (src/memory/paging.c).  A directory entry is the index *)
(* of one of the static tables, which are page-aligned, so that masking a  *)
(* directory entry gives the table back; a table entry is the word the     *)
(* code stores, a frame address plus the flags in the bits below PageSize. *)
(*                                                                         *)
(* The processor walks the tables whenever it likes and keeps what it      *)
(* found until it is told otherwise, so ck_paging_map_page and             *)
(* ck_paging_unmap_page are cut where a store precedes its invlpg.         *)
(***************************************************************************)
EXTENDS Integers, FiniteSets

CONSTANTS
    Entries,     \* 1024, the entries of the directory and of a table
    TableCount,  \* CK_PAGE_TABLE_COUNT and the bound of ck_paging_init, 256
    PageSize,    \* 4096
    VAddrs,      \* the virtual addresses callers pass
    PAddrs,      \* the physical addresses callers pass
    FlagWords,   \* the flags callers pass
    TlbSize      \* bound: translations the processor keeps at a time

ASSUME PagingAssumption ==
    /\ Entries \in Nat \ {0}
    /\ TableCount \in 1 .. Entries
    /\ PageSize \in Nat /\ PageSize > 3
    /\ VAddrs \subseteq 0 .. Entries * Entries * PageSize - 1
    /\ PAddrs \subseteq Nat
    /\ FlagWords \subseteq Nat
    /\ TlbSize \in Nat

Present == 1            \* CK_PAGE_PRESENT
Kernel == 3             \* CK_PAGE_KERNEL
NoTable == -1           \* a directory entry of 0
Indices == 0 .. Entries - 1
Tables == 0 .. TableCount - 1

VARIABLES
    directory,   \* ck_page_directory: index -> table, or NoTable
    tables,      \* ck_page_tables: table -> index -> entry
    count,       \* ck_page_table_count
    enabled,     \* the PG bit of CR0
    pc,          \* "idle"; "entry" and "flush" inside map_page or unmap_page
    vaddr, new,  \* the call's address and the entry it stores
    tlb          \* external: cached translations, [page, entry]

pagingVars == <<directory, tables, count, enabled, pc, vaddr, new, tlb>>

pd_index(va) == (va \div (Entries * PageSize)) % Entries
pt_index(va) == (va \div PageSize) % Entries
Frame(word) == (word \div PageSize) * PageSize   \* word & 0xFFFFF000
create_pte(pa, flags) == Frame(pa) + (flags % PageSize)

IsPresent(entry) == entry % 2 = Present

(* The entry that belongs to an address, 0 without a table. *)
EntryOf(va) ==
    IF directory[pd_index(va)] = NoTable THEN 0
    ELSE tables[directory[pd_index(va)]][pt_index(va)]

virt_to_phys(va) ==
    IF IsPresent(EntryOf(va))
    THEN Frame(EntryOf(va)) + (va % PageSize)
    ELSE 0

(* The static arrays before ck_paging_init: all zero. *)
PagingInit ==
    /\ directory = [d \in Indices |-> NoTable]
    /\ tables = [t \in Tables |-> [e \in Indices |-> 0]]
    /\ count = 0
    /\ enabled = FALSE
    /\ pc = "idle" /\ vaddr = 0 /\ new = 0
    /\ tlb = {}

IdentityTable(t) == [e \in Indices |-> create_pte((t * Entries + e) * PageSize, Kernel)]

(* Called once, with interrupts off.  Loading CR3 empties the TLB. *)
ck_paging_init ==
    /\ pc = "idle"
    /\ ~ enabled
    /\ directory' = [d \in Indices |-> IF d < TableCount THEN d ELSE NoTable]
    /\ tables' = [t \in Tables |-> IdentityTable(t)]
    /\ count' = TableCount
    /\ enabled' = TRUE
    /\ tlb' = {}
    /\ UNCHANGED <<pc, vaddr, new>>

InvlpgForgotten(va) == UNCHANGED tlb
Invlpg(va) == tlb' = {x \in tlb : x.page # va \div PageSize}

(* ck_paging_map_page: refused, with a table at hand, with a new table. *)
NoTableLeftLate == count > TableCount
NoTableLeft == count >= TableCount

MapRefused(va) ==
    /\ pc = "idle"
    /\ directory[pd_index(va)] = NoTable
    /\ NoTableLeft
    /\ UNCHANGED pagingVars

MapCall(va, pa, flags) ==
    /\ pc = "idle"
    /\ directory[pd_index(va)] # NoTable
    /\ pc' = "entry" /\ vaddr' = va /\ new' = create_pte(pa, flags)
    /\ UNCHANGED <<directory, tables, count, enabled, tlb>>

NewTable == [tables EXCEPT ![count] = [e \in Indices |-> 0]]

NextCountStuck == count
NextCount == count + 1

MapNewTable(va, pa, flags) ==
    /\ pc = "idle"
    /\ directory[pd_index(va)] = NoTable
    /\ ~ NoTableLeft
    /\ tables' = NewTable
    /\ directory' = [directory EXCEPT ![pd_index(va)] = count]
    /\ count' = NextCount
    /\ Invlpg(va)
    /\ pc' = "entry" /\ vaddr' = va /\ new' = create_pte(pa, flags)
    /\ UNCHANGED enabled

(* ck_paging_unmap_page: nothing without a table, else it stores 0. *)
UnmapIgnored(va) ==
    /\ pc = "idle"
    /\ directory[pd_index(va)] = NoTable
    /\ UNCHANGED pagingVars

UnmapCall(va) ==
    /\ pc = "idle"
    /\ directory[pd_index(va)] # NoTable
    /\ pc' = "entry" /\ vaddr' = va /\ new' = 0
    /\ UNCHANGED <<directory, tables, count, enabled, tlb>>

(* The store of the entry, then invlpg and the return. *)
StoreEntry ==
    /\ pc = "entry"
    /\ tables' = [tables EXCEPT ![directory[pd_index(vaddr)]][pt_index(vaddr)] = new]
    /\ pc' = "flush"
    /\ UNCHANGED <<directory, count, enabled, vaddr, new, tlb>>

Flush ==
    /\ pc = "flush"
    /\ Invlpg(vaddr)
    /\ pc' = "idle" /\ vaddr' = 0 /\ new' = 0
    /\ UNCHANGED <<directory, tables, count, enabled>>

ck_paging_map_page ==
    \E va \in VAddrs :
        \/ MapRefused(va)
        \/ \E pa \in PAddrs, flags \in FlagWords :
              MapCall(va, pa, flags) \/ MapNewTable(va, pa, flags)

ck_paging_unmap_page == \E va \in VAddrs : UnmapIgnored(va) \/ UnmapCall(va)

(* The processor: it caches the walk of a present page, and drops any. *)
TlbFill(va) ==
    /\ enabled
    /\ IsPresent(EntryOf(va))
    /\ Cardinality(tlb) < TlbSize
    /\ \A x \in tlb : x.page # va \div PageSize
    /\ tlb' = tlb \cup {[page |-> va \div PageSize, entry |-> EntryOf(va)]}
    /\ UNCHANGED <<directory, tables, count, enabled, pc, vaddr, new>>

TlbEvict ==
    /\ \E x \in tlb : tlb' = tlb \ {x}
    /\ UNCHANGED <<directory, tables, count, enabled, pc, vaddr, new>>

PagingNext ==
    \/ ck_paging_init
    \/ ck_paging_map_page \/ ck_paging_unmap_page
    \/ StoreEntry \/ Flush
    \/ \E va \in VAddrs : TlbFill(va)
    \/ TlbEvict

PagingSpec == PagingInit /\ [][PagingNext]_pagingVars

-----------------------------------------------------------------------------

(* Types; in particular a table is taken only while one is left. *)
PagingTypeOK ==
    /\ directory \in [Indices -> Tables \cup {NoTable}]
    /\ tables \in [Tables -> [Indices -> Nat]]
    /\ count \in 0 .. TableCount
    /\ enabled \in BOOLEAN
    /\ pc \in {"idle", "entry", "flush"}
    /\ vaddr \in VAddrs \cup {0}
    /\ new \in Nat
    /\ \A x \in tlb : x.page \in Nat /\ x.entry \in Nat

(* No table serves two directory entries, and no table in use is taken a
   second time for another region, before or after ck_paging_init. *)
TablesNotShared ==
    /\ \A d \in Indices : directory[d] = NoTable \/ directory[d] < count
    /\ \A d, e \in Indices :
          directory[d] = directory[e] /\ directory[d] # NoTable => d = e

(* What the processor has cached is what the tables say, but for the one
   page whose entry has been stored and not yet flushed: a mapping changed
   by map_page or unmap_page is in force when the call returns, and the
   address ck_paging_virt_to_phys reports is the one the processor uses. *)
TlbCoherent ==
    \A va \in VAddrs, x \in tlb :
        x.page = va \div PageSize =>
            \/ /\ x.entry = EntryOf(va)
               /\ virt_to_phys(va) = Frame(x.entry) + (va % PageSize)
            \/ pc = "flush" /\ vaddr \div PageSize = x.page

(* The flat map that the two levels stand for.  IdentityFlat is what the loop
   of ck_paging_init covers, TableCount tables (1 GB); the comments of
   paging.h and paging.c speak of 256 MB. *)
Pages == 0 .. Entries * Entries - 1
FlatMap == [v \in Pages |-> EntryOf(v * PageSize)]
IdentityFlat ==
    [v \in Pages |-> IF v < TableCount * Entries THEN create_pte(v * PageSize, Kernel) ELSE 0]
Storable == {0} \cup {create_pte(pa, flags) : pa \in PAddrs, flags \in FlagWords}

Abstract == INSTANCE AddressMap WITH
    VirtualPages <- Pages,
    EntryValues <- Storable,
    InitialMap <- IdentityFlat,
    map <- FlatMap,
    on <- enabled,
    call <- IF pc = "idle" THEN [page |-> -1, entry |-> 0]
            ELSE [page |-> vaddr \div PageSize, entry |-> new]

(* The two levels implement a flat map: a call changes the entry of the page
   it was called for and of no other one, to the entry asked for, and has
   done so when it returns; taking a new table changes none. *)
ImplementsAddressMap == Abstract!MapSpec
============================================================================
