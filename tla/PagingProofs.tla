--------------------------- MODULE PagingProofs ---------------------------
(***************************************************************************)
(* Proofs about paging, for every number of tables and entries, every page *)
(* size and every set of addresses and flags that callers pass.            *)
(***************************************************************************)
EXTENDS Paging, TLAPS

(* The call in progress has a table to store into and an entry to store, and
   has stored it when it comes to the flush. *)
CallHasTable ==
    /\ pc # "idle" => /\ vaddr \in VAddrs
                      /\ directory[pd_index(vaddr)] # NoTable
                      /\ new \in Storable
    /\ pc = "flush" => EntryOf(vaddr) = new

(* What the processor has cached, page by page; the one exception is the
   page whose entry was stored and not flushed. *)
Cached ==
    \A x \in tlb :
        /\ IsPresent(x.entry)
        /\ \A va \in VAddrs : va \div PageSize = x.page =>
              \/ x.entry = EntryOf(va)
              \/ pc = "flush" /\ vaddr \div PageSize = x.page

(* The inductive invariant.  TlbCoherent needs the tables apart: taking a
   table in use would change translations that nobody flushes. *)
PagingInv == PagingTypeOK /\ TablesNotShared /\ CallHasTable /\ Cached

-----------------------------------------------------------------------------

(* Every virtual address; callers pass some of them. *)
Addresses == 0 .. Entries * Entries * PageSize - 1

(* The two indices depend on the page alone. *)
LEMMA IndexOfPage ==
    ASSUME NEW va \in Addresses
    PROVE  /\ va \in Nat /\ va \div PageSize \in 0 .. Entries * Entries - 1
           /\ pd_index(va) = (va \div PageSize) \div Entries
           /\ pt_index(va) = (va \div PageSize) % Entries
           /\ pd_index(va) \in Indices /\ pt_index(va) \in Indices
<1> DEFINE q == va \div PageSize
           s == va % PageSize
           k == q \div Entries
           r == q % Entries
<1>1. /\ Entries \in Nat \ {0} /\ PageSize \in Nat \ {0}
      /\ va \in Nat /\ va < Entries * Entries * PageSize
  BY PagingAssumption DEF Addresses
<1>2. q \in Nat /\ s \in Nat /\ s < PageSize /\ va = PageSize * q + s
  BY <1>1
<1>3. q < Entries * Entries
  <2>1. Entries * Entries \in Nat
    BY <1>1
  <2>2. \A m \in Nat : q >= m => PageSize * q >= PageSize * m
    BY <1>1, <1>2
  <2>3. q >= Entries * Entries => PageSize * q >= PageSize * (Entries * Entries)
    BY <2>1, <2>2
  <2>4. PageSize * (Entries * Entries) = Entries * Entries * PageSize
    BY <1>1
  <2>5. QED
    BY <1>1, <1>2, <2>1, <2>3, <2>4
<1> HIDE DEF q, s
<1>4. k \in Nat /\ r \in Nat /\ r < Entries /\ q = Entries * k + r
  BY <1>1, <1>2
<1> HIDE DEF k, r
<1>5. k < Entries
  <2>1. k >= Entries => Entries * k >= Entries * Entries
    BY <1>1, <1>4
  <2>2. Entries * k \in Nat /\ Entries * Entries \in Nat /\ Entries * k < Entries * Entries
    BY <1>1, <1>3, <1>4
  <2>3. QED
    BY <1>1, <1>4, <2>1, <2>2
<1>6. va = (Entries * PageSize) * k + (PageSize * r + s)
  BY <1>1, <1>2, <1>4
<1>7. PageSize * r + s \in Nat /\ PageSize * r + s < Entries * PageSize
  <2>1. PageSize * (r + 1) <= PageSize * Entries
    BY <1>1, <1>4
  <2>2. QED
    BY <1>1, <1>2, <1>4, <2>1
<1>8. va \div (Entries * PageSize) = k
  <2>1. Entries * PageSize \in Nat \ {0}
    BY <1>1
  <2>2. \A d \in Nat \ {0}, n \in Nat, m \in Nat : m < d => (d * n + m) \div d = n
    OBVIOUS
  <2> DEFINE d == Entries * PageSize
             m == PageSize * r + s
  <2>3. d \in Nat \ {0} /\ m \in Nat /\ m < d /\ va = d * k + m
    BY <1>6, <1>7, <2>1
  <2> HIDE DEF d, m
  <2>4. va \div d = k
    BY <1>4, <2>2, <2>3
  <2>5. QED
    BY <2>4 DEF d
<1>9. pd_index(va) = k
  BY <1>1, <1>4, <1>5, <1>8 DEF pd_index
<1>10. pt_index(va) = r
  BY DEF pt_index, r, q
<1>11. QED
  BY <1>1, <1>2, <1>3, <1>4, <1>5, <1>9, <1>10 DEF q, k, r, Indices

(* Two addresses in one page have one entry; addresses in two pages differ
   in one of the indices. *)
LEMMA PageDeterminesEntry ==
    ASSUME NEW va \in Addresses, NEW vb \in Addresses
    PROVE  /\ va \div PageSize = vb \div PageSize =>
                 pd_index(va) = pd_index(vb) /\ pt_index(va) = pt_index(vb)
           /\ va \div PageSize # vb \div PageSize =>
                 pd_index(va) # pd_index(vb) \/ pt_index(va) # pt_index(vb)
<1> DEFINE p == va \div PageSize
           q == vb \div PageSize
<1>1. p \in Nat /\ q \in Nat /\ Entries \in Nat \ {0}
  BY IndexOfPage, PagingAssumption
<1>2. /\ pd_index(va) = p \div Entries /\ pt_index(va) = p % Entries
      /\ pd_index(vb) = q \div Entries /\ pt_index(vb) = q % Entries
  BY IndexOfPage
<1> HIDE DEF p, q
<1>3. p = Entries * (p \div Entries) + (p % Entries)
  BY <1>1
<1>4. q = Entries * (q \div Entries) + (q % Entries)
  BY <1>1
<1>5. QED
  BY <1>2, <1>3, <1>4 DEF p, q

LEMMA CallersUseAddresses == VAddrs \subseteq Addresses
BY PagingAssumption DEF Addresses

(* Entries are natural numbers. *)
LEMMA PteNat ==
    ASSUME NEW pa \in Nat, NEW flags \in Nat
    PROVE  create_pte(pa, flags) \in Nat
<1>1. PageSize \in Nat \ {0}
  BY PagingAssumption
<1>2. pa \div PageSize \in Nat /\ flags % PageSize \in Nat
  BY <1>1
<1>3. QED
  BY <1>1, <1>2 DEF create_pte, Frame

LEMMA PagingInitInv == PagingInit => PagingInv
<1> SUFFICES ASSUME PagingInit PROVE PagingInv
  OBVIOUS
<1> USE DEF PagingInit
<1>1. Entries \in Nat \ {0} /\ TableCount \in Nat
  BY PagingAssumption
<1>2. PagingTypeOK
  <2>1. directory \in [Indices -> Tables \cup {NoTable}] /\ tables \in [Tables -> [Indices -> Nat]]
    OBVIOUS
  <2>2. count \in 0 .. TableCount /\ new \in Nat
    BY <1>1
  <2>3. enabled \in BOOLEAN /\ pc \in {"idle", "entry", "flush"} /\ vaddr \in VAddrs \cup {0}
    OBVIOUS
  <2>4. \A x \in tlb : x.page \in Nat /\ x.entry \in Nat
    OBVIOUS
  <2>5. QED
    BY <2>1, <2>2, <2>3, <2>4 DEF PagingTypeOK
<1>3. TablesNotShared
  BY <1>1 DEF TablesNotShared
<1>4. CallHasTable /\ Cached
  BY DEF CallHasTable, Cached
<1>5. QED
  BY <1>2, <1>3, <1>4 DEF PagingInv

(* ck_paging_init: table t for directory entry t, and an empty TLB. *)
LEMMA IdentityInv ==
    ASSUME PagingInv, ck_paging_init
    PROVE  PagingInv'
<1> USE DEF ck_paging_init, PagingInv
<1>1. /\ Entries \in Nat \ {0} /\ TableCount \in Nat /\ TableCount <= Entries
      /\ PageSize \in Nat
  BY PagingAssumption
<1>2. \A t \in Tables, e \in Indices : create_pte((t * Entries + e) * PageSize, Kernel) \in Nat
  <2>1. \A t \in Tables, e \in Indices : (t * Entries + e) * PageSize \in Nat
    BY <1>1 DEF Tables, Indices
  <2>2. Kernel \in Nat
    BY DEF Kernel
  <2>3. QED
    BY <2>1, <2>2, PteNat
<1>3. PagingTypeOK'
  <2>1. directory' \in [Indices -> Tables \cup {NoTable}]
    BY <1>1 DEF Tables, Indices
  <2>2. tables' \in [Tables -> [Indices -> Nat]]
    BY <1>2 DEF IdentityTable
  <2>3. QED
    BY <1>1, <2>1, <2>2 DEF PagingTypeOK
<1>4. TablesNotShared'
  BY <1>1 DEF TablesNotShared, Indices
<1>5. CallHasTable' /\ Cached'
  BY DEF CallHasTable, Cached
<1>6. QED
  BY <1>3, <1>4, <1>5

(* A call that finds its table changes no translation yet. *)
LEMMA CallInv ==
    ASSUME PagingInv, UNCHANGED <<directory, tables, count, enabled, tlb>>,
           pc = "idle", pc' = "entry", vaddr' \in VAddrs, new' \in Nat \cap Storable,
           directory[pd_index(vaddr')] # NoTable
    PROVE  PagingInv'
<1> USE DEF PagingInv
<1>1. PagingTypeOK' /\ TablesNotShared' /\ CallHasTable'
  BY DEF PagingTypeOK, TablesNotShared, CallHasTable
<1>2. Cached'
  BY DEF Cached, EntryOf
<1>3. QED
  BY <1>1, <1>2

(* Taking a table changes no translation: no directory entry leads to the
   table taken, and all of its entries are 0. *)
LEMMA MapNewTableInv ==
    ASSUME PagingInv, NEW va \in VAddrs, NEW pa \in PAddrs, NEW flags \in FlagWords,
           MapNewTable(va, pa, flags)
    PROVE  PagingInv' /\ \A vb \in Addresses : EntryOf(vb)' = EntryOf(vb)
<1> DEFINE d == pd_index(va)
<1> USE DEF PagingInv
<1>1. Entries \in Nat \ {0} /\ TableCount \in Nat /\ d \in Indices /\ NoTable \notin Nat
  BY PagingAssumption, CallersUseAddresses, IndexOfPage DEF NoTable
<1>2. /\ pc = "idle" /\ directory[d] = NoTable
      /\ tables' = [tables EXCEPT ![count] = [e \in Indices |-> 0]]
      /\ directory' = [directory EXCEPT ![d] = count]
      /\ count' = count + 1
      /\ tlb' \subseteq tlb
      /\ pc' = "entry" /\ vaddr' = va /\ new' = create_pte(pa, flags)
      /\ enabled' = enabled
  BY DEF MapNewTable, NewTable, NextCount, Invlpg
<1>3. count \in Tables /\ count \in Nat /\ count + 1 \in 0 .. TableCount
  BY <1>1 DEF MapNewTable, NoTableLeft, PagingTypeOK, Tables
<1>4. new' \in Nat /\ new' \in Storable
  BY <1>2, PteNat, PagingAssumption DEF Storable
<1> HIDE DEF d
<1>5. directory \in [Indices -> Tables \cup {NoTable}] /\ tables \in [Tables -> [Indices -> Nat]]
  BY DEF PagingTypeOK
<1>6. /\ directory'[d] = count
      /\ \A e \in Indices : e # d => directory'[e] = directory[e]
  BY <1>1, <1>2, <1>5
<1>7. PagingTypeOK'
  <2>1. directory' \in [Indices -> Tables \cup {NoTable}]
    BY <1>2, <1>3, <1>5
  <2>2. tables' \in [Tables -> [Indices -> Nat]]
    BY <1>2, <1>3, <1>5
  <2>3. QED
    BY <1>2, <1>3, <1>4, <2>1, <2>2 DEF PagingTypeOK
<1>8. TablesNotShared'
  <2>1. \A e \in Indices : e # d => directory'[e] = NoTable \/ directory'[e] < count
    BY <1>6 DEF TablesNotShared
  <2>2. \A e \in Indices : directory[e] \in Int
    BY <1>1, <1>5 DEF Tables, NoTable
  <2>3. \A e \in Indices : directory'[e] = NoTable \/ directory'[e] < count'
    BY <1>2, <1>3, <1>6, <2>1, <2>2
  <2>4. \A e \in Indices : e # d => directory'[e] # count
    BY <1>1, <1>3, <1>6, <2>1, <2>2
  <2>5. \A e, f \in Indices :
          directory'[e] = directory'[f] /\ directory'[e] # NoTable => e = f
    BY <1>6, <2>4 DEF TablesNotShared
  <2>6. QED
    BY <2>3, <2>5 DEF TablesNotShared
<1>9. ASSUME NEW vb \in Addresses PROVE EntryOf(vb)' = EntryOf(vb)
  <2>1. pd_index(vb) \in Indices /\ pt_index(vb) \in Indices
    BY IndexOfPage
  <2>2. CASE pd_index(vb) = d
    BY <1>1, <1>2, <1>3, <1>5, <1>6, <2>1, <2>2 DEF EntryOf
  <2>3. CASE pd_index(vb) # d
    <3>1. directory'[pd_index(vb)] = directory[pd_index(vb)]
      BY <1>6, <2>1, <2>3
    <3>2. directory[pd_index(vb)] # NoTable =>
              directory[pd_index(vb)] # count /\ directory[pd_index(vb)] \in Tables
      BY <1>3, <1>5, <2>1 DEF TablesNotShared
    <3>3. QED
      BY <1>2, <1>5, <3>1, <3>2 DEF EntryOf
  <2>4. QED
    BY <2>2, <2>3
<1>10. CallHasTable'
  BY <1>1, <1>2, <1>3, <1>4, <1>6 DEF CallHasTable, d
<1>11. Cached'
  BY <1>2, <1>9, CallersUseAddresses DEF Cached
<1>12. QED
  BY <1>7, <1>8, <1>9, <1>10, <1>11

(* The store changes the entry of the page at hand and of no other page. *)
LEMMA StoreEntryInv ==
    ASSUME PagingInv, StoreEntry
    PROVE  /\ PagingInv'
           /\ \A va \in Addresses :
                 EntryOf(va)' = IF va \div PageSize = vaddr \div PageSize
                                THEN new ELSE EntryOf(va)
<1> DEFINE d == pd_index(vaddr)
           i == pt_index(vaddr)
<1> USE DEF PagingInv
<1>1. vaddr \in VAddrs /\ d \in Indices /\ i \in Indices
  BY IndexOfPage, CallersUseAddresses DEF StoreEntry, CallHasTable
<1>2. /\ pc = "entry" /\ pc' = "flush"
      /\ tables' = [tables EXCEPT ![directory[d]][i] = new]
      /\ UNCHANGED <<directory, count, enabled, vaddr, new, tlb>>
  BY DEF StoreEntry
<1> HIDE DEF d, i
<1>3. /\ directory \in [Indices -> Tables \cup {NoTable}]
      /\ tables \in [Tables -> [Indices -> Nat]] /\ new \in Nat
  BY DEF PagingTypeOK
<1>4. directory[d] \in Tables
  BY <1>1, <1>2, <1>3 DEF CallHasTable, d
<1>5. \A t \in Tables, j \in Indices :
        tables'[t][j] = IF t = directory[d] /\ j = i THEN new ELSE tables[t][j]
  BY <1>1, <1>2, <1>3, <1>4
<1>6. PagingTypeOK'
  <2>1. tables' \in [Tables -> [Indices -> Nat]]
    BY <1>1, <1>2, <1>3, <1>4
  <2>2. QED
    BY <1>2, <2>1 DEF PagingTypeOK
<1>7. TablesNotShared'
  BY <1>2 DEF TablesNotShared
<1>8. ASSUME NEW va \in Addresses
      PROVE  EntryOf(va)' = IF va \div PageSize = vaddr \div PageSize
                            THEN new ELSE EntryOf(va)
  <2>1. pd_index(va) \in Indices /\ pt_index(va) \in Indices
    BY IndexOfPage
  <2>2. CASE va \div PageSize = vaddr \div PageSize
    <3>1. pd_index(va) = d /\ pt_index(va) = i
      BY <1>1, <2>2, PageDeterminesEntry, CallersUseAddresses DEF d, i
    <3>2. directory'[d] # NoTable /\ directory' = directory
      BY <1>2 DEF CallHasTable, d
    <3>3. QED
      BY <1>1, <1>4, <1>5, <2>2, <3>1, <3>2 DEF EntryOf
  <2>3. CASE va \div PageSize # vaddr \div PageSize
    <3>1. pd_index(va) # d \/ pt_index(va) # i
      BY <1>1, <2>3, PageDeterminesEntry, CallersUseAddresses DEF d, i
    <3>2. directory[pd_index(va)] = NoTable \/ directory[pd_index(va)] \in Tables
      BY <1>3, <2>1
    <3>3. directory[pd_index(va)] # NoTable /\ pt_index(va) = i =>
              directory[pd_index(va)] # directory[d]
      BY <1>1, <2>1, <3>1 DEF TablesNotShared
    <3>4. QED
      BY <1>2, <1>5, <2>1, <2>3, <3>2, <3>3 DEF EntryOf
  <2>4. QED
    BY <2>2, <2>3
<1>9. Cached'
  BY <1>2, <1>8, CallersUseAddresses DEF Cached
<1>10. CallHasTable'
  <2>1. vaddr \in Addresses /\ pd_index(vaddr) = d /\ pt_index(vaddr) = i
    BY <1>1, CallersUseAddresses DEF d, i
  <2>2. directory[d] # NoTable /\ new \in Storable
    BY <1>2 DEF CallHasTable, d
  <2>3. tables'[directory[d]][i] = new
    BY <1>1, <1>4, <1>5
  <2>4. (EntryOf(vaddr) = new)'
    BY <1>2, <2>1, <2>2, <2>3 DEF EntryOf
  <2>5. QED
    BY <1>1, <1>2, <2>1, <2>2, <2>4 DEF CallHasTable
<1>11. QED
  BY <1>6, <1>7, <1>8, <1>9, <1>10

(* After the flush the page at hand is no exception any more. *)
LEMMA FlushInv ==
    ASSUME PagingInv, Flush
    PROVE  PagingInv'
<1> USE DEF PagingInv, Flush, Invlpg
<1>1. PagingTypeOK'
  BY DEF PagingTypeOK
<1>2. TablesNotShared' /\ CallHasTable'
  BY DEF TablesNotShared, CallHasTable
<1>3. Cached'
  BY DEF Cached, EntryOf
<1>4. QED
  BY <1>1, <1>2, <1>3

(* What the processor caches is what the tables say at that time. *)
LEMMA TlbFillInv ==
    ASSUME PagingInv, NEW va \in VAddrs, TlbFill(va)
    PROVE  PagingInv'
<1> DEFINE fresh == [page |-> va \div PageSize, entry |-> EntryOf(va)]
<1> USE DEF PagingInv
<1>1. /\ tlb' = tlb \cup {fresh} /\ IsPresent(EntryOf(va))
      /\ UNCHANGED <<directory, tables, count, enabled, pc, vaddr, new>>
  BY DEF TlbFill
<1>2. va \div PageSize \in Nat /\ pd_index(va) \in Indices /\ pt_index(va) \in Indices
  BY IndexOfPage, CallersUseAddresses, PagingAssumption
<1>3. EntryOf(va) \in Nat
  BY <1>2 DEF EntryOf, PagingTypeOK
<1>4. PagingTypeOK'
  BY <1>1, <1>2, <1>3 DEF PagingTypeOK
<1>5. TablesNotShared' /\ CallHasTable'
  BY <1>1 DEF TablesNotShared, CallHasTable, EntryOf
<1>6. \A vb \in VAddrs : EntryOf(vb)' = EntryOf(vb)
  BY <1>1 DEF EntryOf
<1>7. \A vb \in VAddrs : vb \div PageSize = va \div PageSize => EntryOf(vb) = EntryOf(va)
  BY PageDeterminesEntry, CallersUseAddresses DEF EntryOf
<1>8. Cached'
  BY <1>1, <1>6, <1>7 DEF Cached
<1>9. QED
  BY <1>4, <1>5, <1>8

LEMMA TlbEvictInv ==
    ASSUME PagingInv, TlbEvict
    PROVE  PagingInv'
<1> USE DEF PagingInv, TlbEvict
<1>1. PagingTypeOK' /\ TablesNotShared' /\ CallHasTable'
  BY DEF PagingTypeOK, TablesNotShared, CallHasTable, EntryOf
<1>2. Cached'
  BY DEF Cached, EntryOf
<1>3. QED
  BY <1>1, <1>2

(* A step that changes nothing. *)
LEMMA PagingStutterInv ==
    ASSUME PagingInv, UNCHANGED pagingVars
    PROVE  PagingInv'
BY DEF PagingInv, pagingVars, PagingTypeOK, TablesNotShared, CallHasTable, Cached, EntryOf

LEMMA PagingNextInv ==
    ASSUME PagingInv, [PagingNext]_pagingVars
    PROVE  PagingInv'
<1>1. CASE ck_paging_init
  BY <1>1, IdentityInv
<1>2. ASSUME NEW va \in VAddrs, NEW pa \in PAddrs, NEW flags \in FlagWords,
             MapCall(va, pa, flags)
      PROVE  PagingInv'
  <2>1. create_pte(pa, flags) \in Nat \cap Storable
    BY PteNat, PagingAssumption DEF Storable
  <2>2. QED
    BY <1>2, <2>1, CallInv DEF MapCall
<1>3. ASSUME NEW va \in VAddrs, NEW pa \in PAddrs, NEW flags \in FlagWords,
             MapNewTable(va, pa, flags)
      PROVE  PagingInv'
  BY <1>3, MapNewTableInv
<1>4. ASSUME NEW va \in VAddrs, UnmapCall(va) PROVE PagingInv'
  BY <1>4, CallInv DEF UnmapCall, Storable
<1>5. CASE StoreEntry
  BY <1>5, StoreEntryInv
<1>6. CASE Flush
  BY <1>6, FlushInv
<1>7. ASSUME NEW va \in VAddrs, TlbFill(va) PROVE PagingInv'
  BY <1>7, TlbFillInv
<1>8. CASE TlbEvict
  BY <1>8, TlbEvictInv
<1>9. CASE UNCHANGED pagingVars
  BY <1>9, PagingStutterInv
<1>10. QED
  BY <1>1, <1>2, <1>3, <1>4, <1>5, <1>6, <1>7, <1>8, <1>9
  DEF PagingNext, ck_paging_map_page, ck_paging_unmap_page, MapRefused, UnmapIgnored

(* The inductive invariant holds throughout. *)
LEMMA PagingAlways == PagingSpec => []PagingInv
  BY PagingInitInv, PagingNextInv, PTL DEF PagingSpec

(* For every geometry: directory entries name tables of the pool, and no more
   tables are taken than it has (ck_paging_map_page). *)
THEOREM TablesWellFormed == PagingSpec => []PagingTypeOK
<1>1. PagingInv => PagingTypeOK
  BY DEF PagingInv
<1> QED
  BY <1>1, PagingAlways, PTL

(* For every geometry: no table serves two regions (ck_paging_map_page). *)
THEOREM TablesOwned == PagingSpec => []TablesNotShared
<1>1. PagingInv => TablesNotShared
  BY DEF PagingInv
<1> QED
  BY <1>1, PagingAlways, PTL

(* For every geometry: what the processor has cached is what the tables say
   and what ck_paging_virt_to_phys reports, except for a page between its
   store and its invlpg. *)
THEOREM PagingCorrect == PagingSpec => []TlbCoherent
<1>1. PagingInv => TlbCoherent
  BY DEF PagingInv, Cached, TlbCoherent, virt_to_phys
<1> QED
  BY <1>1, PagingAlways, PTL

-----------------------------------------------------------------------------

(* A page number and its base address. *)
LEMMA BaseOfPage ==
    ASSUME NEW v \in Pages
    PROVE  /\ v \in Nat /\ v * PageSize \in Addresses
           /\ (v * PageSize) \div PageSize = v
<1>1. /\ Entries \in Nat \ {0} /\ PageSize \in Nat \ {0}
      /\ v \in Nat /\ v + 1 <= Entries * Entries
  BY PagingAssumption DEF Pages
<1>2. (v + 1) * PageSize <= Entries * Entries * PageSize
  <2>1. \A m \in Nat : v + 1 <= m => (v + 1) * PageSize <= m * PageSize
    BY <1>1
  <2>2. Entries * Entries \in Nat
    BY <1>1
  <2>3. QED
    BY <1>1, <2>1, <2>2
<1>3. v * PageSize \in Nat /\ (v + 1) * PageSize = v * PageSize + PageSize
  BY <1>1
<1>4. Entries * Entries * PageSize \in Nat
  BY <1>1
<1>5. v * PageSize \in Addresses
  BY <1>1, <1>2, <1>3, <1>4 DEF Addresses
<1>6. (v * PageSize) \div PageSize = v
  BY <1>1
<1>7. QED
  BY <1>1, <1>5, <1>6

(* A step that changes no entry changes nothing in the flat map. *)
LEMMA SameEntries ==
    ASSUME \A va \in Addresses : EntryOf(va)' = EntryOf(va)
    PROVE  UNCHANGED FlatMap
BY BaseOfPage DEF FlatMap

(* ck_paging_init sets up the identity map of the pages its tables cover. *)
LEMMA InitIsIdentity ==
    ASSUME ck_paging_init, NEW v \in Pages
    PROVE  EntryOf(v * PageSize)' =
             IF v < TableCount * Entries THEN create_pte(v * PageSize, Kernel) ELSE 0
<1> DEFINE k == v \div Entries
           r == v % Entries
<1>1. /\ Entries \in Nat \ {0} /\ TableCount \in Nat /\ TableCount <= Entries
      /\ v \in Nat /\ PageSize \in Nat
  BY PagingAssumption, BaseOfPage
<1>2. /\ pd_index(v * PageSize) = k /\ pt_index(v * PageSize) = r
      /\ k \in Indices /\ r \in Indices
  BY BaseOfPage, IndexOfPage
<1>3. k \in Nat /\ r \in Nat /\ r < Entries /\ v = k * Entries + r
  BY <1>1
<1> HIDE DEF k, r
<1>4. k < TableCount <=> v < TableCount * Entries
  <2>1. k < TableCount => (k + 1) * Entries <= TableCount * Entries
    BY <1>1, <1>3
  <2>2. k >= TableCount => k * Entries >= TableCount * Entries
    BY <1>1, <1>3
  <2>3. k * Entries \in Nat /\ TableCount * Entries \in Nat
        /\ (k + 1) * Entries = k * Entries + Entries
    BY <1>1, <1>3
  <2>4. QED
    BY <1>1, <1>3, <2>1, <2>2, <2>3
<1>5. /\ directory' = [d \in Indices |-> IF d < TableCount THEN d ELSE NoTable]
      /\ tables' = [t \in Tables |-> IdentityTable(t)]
  BY DEF ck_paging_init
<1>6. CASE k < TableCount
  <2>1. k \in Tables /\ directory'[k] = k /\ k # NoTable
    BY <1>1, <1>2, <1>3, <1>5, <1>6 DEF Tables, NoTable
  <2>2. tables'[k][r] = create_pte((k * Entries + r) * PageSize, Kernel)
    BY <1>2, <1>5, <2>1 DEF IdentityTable
  <2>3. EntryOf(v * PageSize)' = tables'[k][r]
    BY <1>2, <2>1 DEF EntryOf
  <2>4. QED
    BY <1>3, <1>4, <1>6, <2>2, <2>3
<1>7. CASE ~ (k < TableCount)
  BY <1>2, <1>4, <1>5, <1>7 DEF EntryOf
<1>8. QED
  BY <1>6, <1>7

(* The call in progress, as the flat map sees it. *)
FlatCall ==
    IF pc = "idle" THEN [page |-> -1, entry |-> 0]
    ELSE [page |-> vaddr \div PageSize, entry |-> new]

(* Every step of the two levels is a step of the flat map, or none. *)
LEMMA StepImplements ==
    ASSUME PagingInv, [PagingNext]_pagingVars
    PROVE  [Abstract!MapNext]_<<FlatMap, enabled, FlatCall>>
<1>1. CASE ck_paging_init
  <2>1. FlatMap' = IdentityFlat
    BY <1>1, InitIsIdentity DEF FlatMap, IdentityFlat
  <2>2. /\ pc = "idle" /\ pc' = pc /\ vaddr' = vaddr /\ new' = new
        /\ ~ enabled /\ enabled' = TRUE
    BY <1>1 DEF ck_paging_init
  <2>3. Abstract!SetUp
    BY <2>1, <2>2 DEF Abstract!SetUp, Abstract!NoCall
  <2>4. QED
    BY <2>3 DEF Abstract!MapNext
<1>2. ASSUME NEW va \in VAddrs, NEW e \in Storable, UNCHANGED <<FlatMap, enabled>>,
             pc = "idle", pc' = "entry", vaddr' = va, new' = e
      PROVE  Abstract!MapNext
  <2>1. va \div PageSize \in Pages
    BY IndexOfPage, CallersUseAddresses DEF Pages
  <2>2. Abstract!Begin(va \div PageSize, e)
    BY <1>2 DEF Abstract!Begin, Abstract!NoCall
  <2>3. QED
    BY <2>1, <2>2 DEF Abstract!MapNext
<1>3. ASSUME UNCHANGED <<directory, tables>> PROVE UNCHANGED FlatMap
  BY <1>3, SameEntries DEF EntryOf
<1>4. ASSUME NEW va \in VAddrs, NEW pa \in PAddrs, NEW flags \in FlagWords,
             MapNewTable(va, pa, flags)
      PROVE  Abstract!MapNext
  <2>1. UNCHANGED FlatMap
    BY <1>4, MapNewTableInv, SameEntries
  <2>2. create_pte(pa, flags) \in Storable
    BY DEF Storable
  <2>3. QED
    BY <1>2, <1>4, <2>1, <2>2 DEF MapNewTable
<1>5. ASSUME NEW va \in VAddrs, NEW pa \in PAddrs, NEW flags \in FlagWords,
             MapCall(va, pa, flags)
      PROVE  Abstract!MapNext
  <2>1. create_pte(pa, flags) \in Storable
    BY DEF Storable
  <2>2. QED
    BY <1>2, <1>3, <1>5, <2>1 DEF MapCall
<1>6. ASSUME NEW va \in VAddrs, UnmapCall(va) PROVE Abstract!MapNext
  <2>1. 0 \in Storable
    BY DEF Storable
  <2>2. QED
    BY <1>2, <1>3, <1>6, <2>1 DEF UnmapCall
<1>7. pc # "idle" =>
        /\ vaddr \div PageSize \in Pages
        /\ [page |-> vaddr \div PageSize, entry |-> new] # [page |-> -1, entry |-> 0]
  <2>1. pc # "idle" => vaddr \div PageSize \in Pages
    BY IndexOfPage, CallersUseAddresses DEF Pages, PagingInv, CallHasTable
  <2>2. pc # "idle" => vaddr \div PageSize # -1
    BY <2>1, BaseOfPage
  <2>3. QED
    BY <2>1, <2>2
<1>8. CASE StoreEntry
  <2> DEFINE p == vaddr \div PageSize
  <2>1. /\ pc = "entry" /\ pc' = "flush" /\ vaddr' = vaddr /\ new' = new
        /\ enabled' = enabled
    BY <1>8 DEF StoreEntry
  <2>2. p \in Pages
    BY <1>7, <2>1
  <2>3. \A v \in Pages : EntryOf(v * PageSize)' = IF v = p THEN new ELSE EntryOf(v * PageSize)
    BY <1>8, StoreEntryInv, BaseOfPage
  <2>4. FlatMap' = [FlatMap EXCEPT ![p] = new]
    BY <2>2, <2>3 DEF FlatMap
  <2>5. Abstract!SetEntry
    BY <1>7, <2>1, <2>4 DEF Abstract!SetEntry, Abstract!NoCall
  <2>6. QED
    BY <2>5 DEF Abstract!MapNext
<1>9. CASE Flush
  <2> DEFINE p == vaddr \div PageSize
  <2>1. pc = "flush" /\ pc' = "idle" /\ UNCHANGED <<directory, tables, enabled>>
    BY <1>9 DEF Flush
  <2>2. FlatMap[p] = new
    <3>1. /\ vaddr \in Addresses /\ EntryOf(vaddr) = new
          /\ p \in Pages
      BY <1>7, <2>1, CallersUseAddresses DEF PagingInv, CallHasTable
    <3>2. p * PageSize \in Addresses /\ (p * PageSize) \div PageSize = p
      BY <3>1, BaseOfPage
    <3>3. EntryOf(p * PageSize) = EntryOf(vaddr)
      BY <3>1, <3>2, PageDeterminesEntry DEF EntryOf
    <3>4. QED
      BY <3>1, <3>3 DEF FlatMap
  <2>3. UNCHANGED FlatMap
    BY <1>3, <2>1
  <2>4. Abstract!Return
    BY <1>7, <2>1, <2>2, <2>3 DEF Abstract!Return, Abstract!NoCall
  <2>5. QED
    BY <2>4 DEF Abstract!MapNext
<1>10. CASE UNCHANGED <<directory, tables, enabled, pc, vaddr, new>>
  BY <1>3, <1>10 DEF FlatCall
<1>11. QED
  BY <1>1, <1>4, <1>5, <1>6, <1>8, <1>9, <1>10
  DEF PagingNext, ck_paging_map_page, ck_paging_unmap_page, MapRefused, UnmapIgnored,
      TlbFill, TlbEvict, pagingVars

(* Directory, tables and table count implement one flat map from pages to
   entries: map_page and unmap_page change the page they were called for, to
   the entry asked for and before they return, and no other page. *)
THEOREM PagingImplements == PagingSpec => ImplementsAddressMap
<1>1. PagingInit => Abstract!MapInit
  <2> SUFFICES ASSUME PagingInit PROVE Abstract!MapInit
    OBVIOUS
  <2>1. \A v \in Pages : EntryOf(v * PageSize) = 0
    BY BaseOfPage, IndexOfPage DEF PagingInit, EntryOf
  <2>2. QED
    BY <2>1 DEF Abstract!MapInit, Abstract!NoCall, FlatMap, PagingInit
<1>2. PagingInit => PagingInv
  BY PagingInitInv
<1>3. PagingInv /\ [PagingNext]_pagingVars => PagingInv'
  BY PagingNextInv
<1>4. PagingInv /\ [PagingNext]_pagingVars => [Abstract!MapNext]_(Abstract!mapVars)
  BY StepImplements DEF FlatCall, Abstract!mapVars
<1>5. QED
  BY <1>1, <1>2, <1>3, <1>4, PTL DEF PagingSpec, ImplementsAddressMap, Abstract!MapSpec
============================================================================
