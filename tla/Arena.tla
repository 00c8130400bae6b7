--------------------------------- MODULE Arena ---------------------------------
(***************************************************************************)
(* The bump allocator of src/domain/arena.h: one mapping, arenas carved    *)
(* out of it by arena_scratch, and the blocks each hands out.  Addresses   *)
(* are bytes from the start of the mapping.                                *)
(*                                                                         *)
(* base is a uintptr_t *, so base + offset is Word times offset bytes on,  *)
(* while offsets and capacities count bytes.                               *)
(*                                                                         *)
(* That an arena is full is found out by asserts alone.  Without them, as  *)
(* in the scripted Release build, it hands out what lies behind it.        *)
(***************************************************************************)
EXTENDS Integers, FiniteSets, Functions

CONSTANTS
  Word,       \* sizeof(uintptr_t)
  Page,       \* ARENA_PAGE_SIZE
  Capacity,   \* what arena_create is asked for
  Root,       \* the arena arena_create returns
  Scratches,  \* names for the arenas arena_scratch returns
  Sizes,      \* the sizes callers ask for
  MaxBlocks   \* bound: blocks in use at a time

ASSUME ArenaAssumption ==
  /\ Word \in Nat \ {0} /\ Page \in Nat \ {0} /\ Capacity \in Nat
  /\ Root \notin Scratches
  /\ Sizes \subseteq Nat

\* The masks of arena_alloc and align_to_page_size: up to a multiple of unit.
RoundUp(n, unit) == ((n + unit - 1) \div unit) * unit

VARIABLES
  ndebug,  \* the build: assert() is compiled out
  arena,   \* the arena_t of each arena in use
  parent,  \* the arena each scratch arena was taken from
  sound,   \* history: the arenas that were taken from what a sound one had left
  blocks,  \* the blocks whose contents a caller still relies on; history: whether
           \* the arena had room for each
  died     \* an assert has failed

arenaVars == <<ndebug, arena, parent, sound, blocks, died>>

InUse == DOMAIN arena

ArenaTypeOK ==
  /\ ndebug \in BOOLEAN /\ died \in BOOLEAN
  /\ InUse \subseteq {Root} \cup Scratches
  /\ arena \in [InUse -> [base : Nat, offset : Nat, capacity : Nat]]
  /\ \A a \in InUse : ndebug \/ arena[a].offset <= arena[a].capacity
  /\ parent \in [InUse \ {Root} -> InUse]
  /\ sound \subseteq InUse
  /\ blocks \subseteq [of : InUse, at : Nat, size : Sizes, fits : BOOLEAN]

ArenaInit ==
  /\ ndebug \in BOOLEAN
  /\ arena = [a \in {Root} |->
                [base |-> 0, offset |-> 0, capacity |-> RoundUp(Capacity, Page)]]
  /\ parent = [a \in {} |-> a]
  /\ sound = {Root}
  /\ blocks = {}
  /\ died = FALSE

Fail == died' = TRUE /\ UNCHANGED <<ndebug, arena, parent, sound, blocks>>

\* base + offset: the address an arena hands out next.
Top(a) == arena[a].base + Word * arena[a].offset

\* What the asserts of arena_alloc and arena_scratch ask for.
Fits(a, n) == arena[a].offset + n <= arena[a].capacity

Advance(a, n) == [arena EXCEPT ![a].offset = @ + n]

\* A block of a of this size, which takes n bytes of it.
BlockOf(a, size, n) == [of |-> a, at |-> Top(a), size |-> size, fits |-> Fits(a, n)]

\* Mutant of Alloc: the offset stays.
AllocInPlace(a, size) ==
  LET n == RoundUp(size, Word) IN
  \/ /\ Fits(a, n) \/ ndebug
     /\ blocks' = blocks \cup {BlockOf(a, size, n)}
     /\ UNCHANGED <<ndebug, arena, parent, sound, died>>
  \/ ~Fits(a, n) /\ ~ndebug /\ Fail

\* Mutant of Alloc: the assert is made on the offset before the allocation.
AllocWhileRoom(a, size) ==
  LET n == RoundUp(size, Word) IN
  \/ /\ Fits(a, 0) \/ ndebug
     /\ blocks' = blocks \cup {BlockOf(a, size, n)}
     /\ arena' = Advance(a, n)
     /\ UNCHANGED <<ndebug, parent, sound, died>>
  \/ ~Fits(a, 0) /\ ~ndebug /\ Fail

\* arena_alloc.
Alloc(a, size) ==
  LET n == RoundUp(size, Word) IN
  \/ /\ Fits(a, n) \/ ndebug
     /\ blocks' = blocks \cup {BlockOf(a, size, n)}
     /\ arena' = Advance(a, n)
     /\ UNCHANGED <<ndebug, parent, sound, died>>
  \/ ~Fits(a, n) /\ ~ndebug /\ Fail

\* arena_scratch of n bytes, its result called s, when its parent goes on by m.
Carve(a, s, n, m) ==
  \/ /\ Fits(a, n) \/ ndebug
     /\ arena' = [x \in InUse \cup {s} |->
                    IF x = s THEN [base |-> Top(a), offset |-> 0, capacity |-> n]
                             ELSE Advance(a, m)[x]]
     /\ parent' = [x \in DOMAIN arena' \ {Root} |-> IF x = s THEN a ELSE parent[x]]
     /\ sound' = IF a \in sound /\ Fits(a, n) THEN sound \cup {s} ELSE sound
     /\ UNCHANGED <<ndebug, blocks, died>>
  \/ ~Fits(a, n) /\ ~ndebug /\ Fail

\* Mutant of Scratch: the parent advances by the size asked for.
ScratchUnrounded(a, s, size) == Carve(a, s, RoundUp(size, Page), size)

\* arena_scratch.
Scratch(a, s, size) == LET n == RoundUp(size, Page) IN Carve(a, s, n, n)

\* The arenas taken from a, or from an arena taken from a, and so on.
Above(a) ==
  LET level[n \in 0 .. Cardinality(InUse)] ==
        IF n = 0 THEN {}
        ELSE {x \in DOMAIN parent : parent[x] \in level[n - 1] \cup {a}}
  IN level[Cardinality(InUse)]

\* arena_reset.  The callers' side of it: blocks of the arena, and arenas
\* taken from it, are not used any more.
Reset(a) ==
  /\ arena' = [Restrict(arena, InUse \ Above(a)) EXCEPT ![a].offset = 0]
  /\ parent' = Restrict(parent, DOMAIN parent \ Above(a))
  /\ sound' = sound \ Above(a)
  /\ blocks' = {b \in blocks : b.of \notin Above(a) \cup {a}}
  /\ UNCHANGED <<ndebug, died>>

\* arena_destroy unmaps everything.
Destroy ==
  /\ arena' = Restrict(arena, {})
  /\ parent' = Restrict(parent, {})
  /\ sound' = {} /\ blocks' = {}
  /\ UNCHANGED <<ndebug, died>>

ArenaNext ==
  /\ ~died
  /\ \/ \E a \in InUse, size \in Sizes :
          Cardinality(blocks) < MaxBlocks /\ Alloc(a, size)
     \/ \E a \in InUse, s \in Scratches \ InUse, size \in Sizes : Scratch(a, s, size)
     \/ \E a \in InUse : Reset(a)
     \/ Root \in InUse /\ Destroy

ArenaSpec == ArenaInit /\ [][ArenaNext]_arenaVars

-----------------------------------------------------------------------------

Bytes(b) == b.at .. (b.at + b.size - 1)

\* Where an arena ends, and what it may hand out, now or later.
End(a) == arena[a].base + Word * arena[a].capacity
Stretch(a) == arena[a].base .. (End(a) - 1)

\* The block was handed out when its arena was full, or by an arena that had
\* itself been taken from a full one: an assert would have failed before.
Stray(b) == ~b.fits \/ b.of \notin sound

\* With asserts no byte belongs to two blocks in use, through whichever arenas
\* of the mapping they were handed out, as scratch arenas nest and are reset.
\* Without them an arena that runs full goes on into its neighbours, and a byte
\* belongs to two blocks only if one of them is stray: what a full arena hands
\* out costs no other two blocks anything (arena.h:40-71).
NoOverlap ==
  \A b, c \in blocks :
    b # c /\ Bytes(b) \cap Bytes(c) # {} => ndebug /\ (Stray(b) \/ Stray(c))

\* A scratch arena ends before its parent goes on.  With asserts it lies in its
\* parent, and arenas of which neither was taken from the other, directly or
\* not, share nothing; without them this is so of the arenas that were taken
\* while there was room (arena.h:54-67).
ScratchesApart ==
  /\ ndebug \/ sound = InUse
  /\ \A a \in DOMAIN parent :
       /\ End(a) <= Top(parent[a])
       /\ a \in sound => Stretch(a) \subseteq Stretch(parent[a])
  /\ \A a, b \in sound :
       Stretch(a) \cap Stretch(b) # {} => a = b \/ a \in Above(b) \/ b \in Above(a)

-----------------------------------------------------------------------------

\* "Out of memory in arena!" (arena.h:45-46): an allocation that passes the
\* assert lies in the mapping.
BlocksInMapping ==
  \A b \in blocks :
    ~Stray(b) /\ b.size > 0 => Bytes(b) \subseteq 0 .. (RoundUp(Capacity, Page) - 1)
=============================================================================
