---------------------------- MODULE AddressMap ----------------------------
(***************************************************************************)
(* What paging promises its callers: a map from virtual pages to entries   *)
(* that a call changes for its own page alone, to the entry it was called  *)
(* with, and has changed when it returns.  0 is "no entry".                *)
(***************************************************************************)
EXTENDS Integers

CONSTANTS
    VirtualPages,   \* the pages of the address space
    EntryValues,    \* the values a call stores
    InitialMap      \* the map ck_paging_init sets up

NoCall == [page |-> -1, entry |-> 0]

VARIABLES
    map,    \* page -> entry
    on,     \* ck_paging_init has run
    call    \* the page and the entry of the call in progress, or NoCall

mapVars == <<map, on, call>>

MapInit ==
    /\ map = [v \in VirtualPages |-> 0]
    /\ on = FALSE
    /\ call = NoCall

SetUp ==
    /\ ~ on /\ on' = TRUE
    /\ call = NoCall
    /\ map' = InitialMap
    /\ UNCHANGED call

Begin(v, e) ==
    /\ call = NoCall
    /\ call' = [page |-> v, entry |-> e]
    /\ UNCHANGED <<map, on>>

SetEntry ==
    /\ call # NoCall
    /\ map' = [map EXCEPT ![call.page] = call.entry]
    /\ UNCHANGED <<on, call>>

Return ==
    /\ call # NoCall
    /\ map[call.page] = call.entry
    /\ call' = NoCall
    /\ UNCHANGED <<map, on>>

MapNext ==
    \/ SetUp
    \/ \E v \in VirtualPages, e \in EntryValues : Begin(v, e)
    \/ SetEntry
    \/ Return

MapSpec == MapInit /\ [][MapNext]_mapVars
============================================================================
