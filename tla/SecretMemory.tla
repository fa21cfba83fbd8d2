----------------------------- MODULE SecretMemory -----------------------------
(***************************************************************************)
(* Memory for secrets (src/src/memlock.rs): LockedString and LockedBytes   *)
(* pin their allocation, clear it and release it. The system pins whole    *)
(* pages, once: pinning a page again changes nothing, and releasing it     *)
(* releases it for every allocation that lies on it (mlock(2)).            *)
(***************************************************************************)
EXTENDS Naturals, FiniteSets

CONSTANTS
    Regions,        \* allocations: one name per use of the two types
    Extents         \* the sets of pages an allocation may lie on

ASSUME MemoryAssumption == {} \notin Extents

VARIABLES
    place,          \* region -> its pages, {} while it is not allocated
    holds,          \* region -> the secret bytes in it, "text" and "spare" capacity
    locked,         \* region -> the field locked
    pinned          \* the pages the system keeps in memory

memory == <<place, holds, locked, pinned>>

Live(r) == place[r] # {}

MemoryInit ==
    /\ place = [r \in Regions |-> {}]
    /\ holds = [r \in Regions |-> {}]
    /\ locked = [r \in Regions |-> FALSE]
    /\ pinned = {}

\* try_lock_region: quota or policy may deny it.
TryLock(r, pages) ==
    \/ locked' = [locked EXCEPT ![r] = TRUE] /\ pinned' = pinned \cup pages
    \/ UNCHANGED <<locked, pinned>>

Allocate(r, bytes) ==
    \E pages \in Extents :
        /\ place' = [place EXCEPT ![r] = pages]
        /\ holds' = [holds EXCEPT ![r] = bytes]
        /\ TryLock(r, pages)

\* LockedString::new: the capacity may hold more than the text.
NewString(r, text) == Allocate(r, text \cup {"spare"})

\* LockedBytes::zeroed; the secret arrives later.
Zeroed(r) == Allocate(r, {})
Fill(r) ==
    /\ holds' = [holds EXCEPT ![r] = {"text"}]
    /\ UNCHANGED <<place, locked, pinned>>

\* clear_and_unlock of both types, step by step, then the deallocation.
ClearText(r) ==         \* faulty: up to the length, not the capacity
    /\ holds' = [holds EXCEPT ![r] = @ \ {"text"}]
    /\ UNCHANGED <<place, locked, pinned>>

Clear(r) ==
    /\ holds' = [holds EXCEPT ![r] = {}]
    /\ UNCHANGED <<place, locked, pinned>>

Unlock(r) ==
    /\ locked' = [locked EXCEPT ![r] = FALSE]
    /\ pinned' = IF locked[r] THEN pinned \ place[r] ELSE pinned
    /\ UNCHANGED <<place, holds>>

Free(r) ==
    /\ place' = [place EXCEPT ![r] = {}]
    /\ UNCHANGED <<holds, locked, pinned>>

-------------------------------------------------------------------------------
MemoryTypeOK ==
    /\ place \in [Regions -> Extents \cup {{}}]
    /\ holds \in [Regions -> SUBSET {"text", "spare"}]
    /\ locked \in [Regions -> BOOLEAN]
    /\ pinned \subseteq UNION Extents

\* Nothing is left behind: memory that has been given back holds no secret, and
\* no page stays pinned for it.
NothingLeft ==
    /\ \A r \in Regions : ~Live(r) => holds[r] = {} /\ ~locked[r]
    /\ pinned \subseteq UNION {place[r] : r \in Regions}

\* "The entire capacity is locked when possible and zeroized before it is
\* unlocked and deallocated" (memlock.rs, LockedString).
LockedUntilCleared ==
    \A r \in Regions : locked[r] /\ holds[r] # {} => place[r] \subseteq pinned
===============================================================================
