------------------------------ MODULE MCPmem ------------------------------
(* TLC instances of the page allocator. *)
EXTENDS Pmem

(* The pages ck_pmem_init takes the kernel image to occupy, 0x100000 to
   0x200000 (pmem.c:94). *)
KernelPages == 256 .. 511

(* The comment at pmem.c:94-95 says that the kernel's pages are "Already
   marked above", so no allocation ever returns one of them. *)
KernelPagesNeverAllocated == \A p \in KernelPages : p * PageSize \notin owned
============================================================================
