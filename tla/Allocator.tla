----------------------------- MODULE Allocator -----------------------------
(***************************************************************************)
(* What a caller of ck_malloc and ck_free may rely on (src/memory/heap.h): *)
(* an answer other than NULL is a block that nobody holds, and the start   *)
(* of as many bytes of managed memory as were asked for, none of which     *)
(* belongs to a block that is still held.  The second half holds while     *)
(* trust is "none", and the first one until it is "clash"; both are about  *)
(* the damage done (see Heap).  Where a block lies, when a request is      *)
(* refused and how the allocator keeps its books is left open.             *)
(***************************************************************************)
EXTENDS Integers

CONSTANTS
    Memory,   \* the addresses that may be handed out
    Requests  \* the sizes callers ask for

VARIABLES
    held,     \* start of a block a caller holds -> size asked for
    answer,   \* what the last request returned
    trust     \* the damage done so far: "none", "stray" or "clash"

allocVars == <<held, answer, trust>>

Bytes(p, sz) == p .. p + sz - 1

AllocInit == held = << >> /\ answer = 0 /\ trust = "none"

(* The bytes of an answer are the caller's own. *)
OwnBytes(p, sz) ==
    /\ Bytes(p, sz) \subseteq Memory
    /\ \A q \in DOMAIN held : Bytes(p, sz) \cap Bytes(q, held[q]) = {}

Get(sz) ==
    /\ answer' # 0
    /\ answer' \notin DOMAIN held
    /\ held' = [q \in DOMAIN held \cup {answer'} |-> IF q = answer' THEN sz ELSE held[q]]
    /\ trust' = "none" => trust = "none" /\ OwnBytes(answer', sz)

Refuse == answer' = 0 /\ UNCHANGED <<held, trust>>

Release(p) ==
    /\ held' = [q \in DOMAIN held \ {p} |-> held[q]]
    /\ UNCHANGED <<answer, trust>>

(* Nothing is promised any more. *)
Ruined == trust' = "clash"

AllocNext ==
    \/ trust # "clash" /\ \E sz \in Requests : Get(sz)
    \/ trust # "clash" /\ Refuse
    \/ trust # "clash" /\ \E p \in DOMAIN held : Release(p)
    \/ Ruined

AllocSpec == AllocInit /\ [][AllocNext]_allocVars
=============================================================================
