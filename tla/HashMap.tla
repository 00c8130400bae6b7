-------------------------------- MODULE HashMap --------------------------------
(***************************************************************************)
(* The chained hash table of src/domain/hashmap.h.  Entries come from an   *)
(* arena and are never given back, so an entry is named by the order of    *)
(* its allocation and stays where it is when it is unlinked.               *)
(*                                                                         *)
(* The model ends where the arena is used up, with the assert that says    *)
(* so.  A build without asserts goes on there: its next entry lies beyond  *)
(* the arena, in whatever is there (module Arena).                         *)
(***************************************************************************)
EXTENDS Map, Sequences, FiniteSets, Naturals

CONSTANTS
  Keys, Values,
  Buckets,     \* the indices 0 .. bucket_count - 1
  Hash,        \* hash_func(key) % bucket_count
  MaxEntries   \* the entries there is room for in the arena

ASSUME HashMapAssumption ==
  /\ Hash \in [Keys -> Buckets] /\ IsFiniteSet(Keys)
  /\ MaxEntries \in Nat

Null == 0

VARIABLES
  buckets,  \* the first entry of each chain
  entry,    \* entry_t by order of allocation
  held,     \* the pointers hashmap_get returned that callers still use, by key
  found,    \* the last hashmap_get did not return NULL
  full      \* an entry was asked for that the arena has no room for

hashVars == <<buckets, entry, held, found, full>>

Pointers == 0 .. Len(entry)

HashInit ==
  /\ buckets = [b \in Buckets |-> Null]
  /\ entry = <<>>
  /\ held = EmptyMap
  /\ found = FALSE
  /\ full = FALSE

\* The entries of a chain, in the order the code walks them.
Chain(b) ==
  LET from[e \in Pointers] ==
        IF e = Null THEN <<>> ELSE <<e>> \o from[entry[e].next]
  IN from[buckets[b]]

\* The entry the loops of put, get and remove stop at: the first one of the
\* chain whose key is k.
Find(k) ==
  LET from[e \in Pointers] ==
        IF e = Null \/ entry[e].key = k THEN e ELSE from[entry[e].next]
  IN from[buckets[Hash[k]]]

\* prev of hashmap_remove: the entry of the chain that leads to e, if any.
Before(e, b) == {p \in {Chain(b)[i] : i \in DOMAIN Chain(b)} : entry[p].next = e}

-----------------------------------------------------------------------------

\* hashmap_put of a key that has an entry.
Update(k, v) ==
  /\ Find(k) # Null
  /\ entry' = [entry EXCEPT ![Find(k)].value = v]
  /\ UNCHANGED <<buckets, held, found, full>>

\* Mutant of Insert: the chain is not searched first.
InsertAlways(k, v) ==
  /\ Len(entry) < MaxEntries
  /\ entry' = Append(entry, [key |-> k, value |-> v, next |-> buckets[Hash[k]]])
  /\ buckets' = [buckets EXCEPT ![Hash[k]] = Len(entry) + 1]
  /\ UNCHANGED <<held, found, full>>

\* Mutant of Insert: the bucket is set before the next pointer.
InsertAfterItself(k, v) ==
  /\ Find(k) = Null /\ Len(entry) < MaxEntries
  /\ entry' = Append(entry, [key |-> k, value |-> v, next |-> Len(entry) + 1])
  /\ buckets' = [buckets EXCEPT ![Hash[k]] = Len(entry) + 1]
  /\ UNCHANGED <<held, found, full>>

\* hashmap_put of a new key: its entry becomes the first of its chain.
Insert(k, v) ==
  /\ Find(k) = Null /\ Len(entry) < MaxEntries
  /\ entry' = Append(entry, [key |-> k, value |-> v, next |-> buckets[Hash[k]]])
  /\ buckets' = [buckets EXCEPT ![Hash[k]] = Len(entry) + 1]
  /\ UNCHANGED <<held, found, full>>

\* hashmap_put of a new key when the arena is used up: arena_alloc's assert
\* fails or, compiled out, the entry is put where the arena has ended.
Overflow(k) ==
  /\ Find(k) = Null /\ Len(entry) >= MaxEntries
  /\ full' = TRUE
  /\ UNCHANGED <<buckets, entry, held, found>>

Get(k) ==
  /\ found' = (Find(k) # Null)
  /\ held' = IF Find(k) # Null THEN MapPut(held, k, Find(k)) ELSE held
  /\ UNCHANGED <<buckets, entry, full>>

\* Mutant of Unlink: the chain is cut off in front of the entry.
UnlinkAsHead(e, b) ==
  /\ buckets' = [buckets EXCEPT ![b] = entry[e].next]
  /\ UNCHANGED entry

\* The two ways out of a chain: through prev, or through the bucket.
Unlink(e, b) ==
  IF Before(e, b) = {}
    THEN /\ buckets' = [buckets EXCEPT ![b] = entry[e].next]
         /\ UNCHANGED entry
    ELSE /\ entry' = [p \in DOMAIN entry |->
                        IF p \in Before(e, b)
                          THEN [entry[p] EXCEPT !.next = entry[e].next]
                          ELSE entry[p]]
         /\ UNCHANGED buckets

\* hashmap_remove.  Callers are taken to be done with the pointers they hold for
\* k; the one that is not, remove_breakpoint_at_addr, removes another key than
\* the one it looked up (debugger.c:82-85; Debugger's RemovalKey).
Delete(k) ==
  /\ IF Find(k) = Null THEN UNCHANGED <<buckets, entry>>
                       ELSE Unlink(Find(k), Hash[k])
  /\ held' = MapRemove(held, k)
  /\ UNCHANGED <<found, full>>

Put(k, v) == Update(k, v) \/ Insert(k, v)

HashNext ==
  /\ ~full
  /\ \E k \in Keys :
       \/ Get(k) \/ Delete(k) \/ Overflow(k)
       \/ \E v \in Values : Put(k, v)

HashSpec == HashInit /\ [][HashNext]_hashVars

-----------------------------------------------------------------------------

Linked == UNION {{Chain(b)[i] : i \in DOMAIN Chain(b)} : b \in Buckets}

\* Pointers are in range, and next leads to an older entry: chains end.
HashTypeOK ==
  /\ buckets \in [Buckets -> Pointers]
  /\ \A e \in DOMAIN entry :
       /\ entry[e].key \in Keys /\ entry[e].value \in Values
       /\ entry[e].next \in 0 .. (e - 1)
  /\ DOMAIN held \subseteq Keys /\ held \in [DOMAIN held -> DOMAIN entry]
  /\ found \in BOOLEAN /\ full \in BOOLEAN

\* What the table stores.
Contents == [k \in {k \in Keys : Find(k) # Null} |-> entry[Find(k)].value]

Dict ==
  INSTANCE Dictionary WITH
    map <- Contents, view <- [k \in DOMAIN held |-> entry[held[k]].value], died <- full

\* The table is a dictionary, call by call: each hashmap_put, get and remove
\* does what Dictionary says the call with that key and value does, so that
\* Dict!Spec holds.  A pointer a caller holds over other calls (debugger.c:92
\* to 97 holds one over five system calls) keeps showing its key's current
\* value, whatever is put or removed beside it in its chain.
IsDictionary ==
  /\ Dict!Init
  /\ [][~full /\ hashVars' # hashVars =>
        \A k \in Keys :
          /\ Get(k) => Dict!Get(k)
          /\ Delete(k) => Dict!Remove(k)
          /\ Overflow(k) => Dict!Fail(k)
          /\ \A v \in Values : Put(k, v) => Dict!Put(k, v)]_hashVars

\* No two linked entries have one key: what put stores is what get finds and
\* what remove takes out, never an older value hidden behind it.
OneEntryPerKey ==
  \A d, e \in Linked : entry[d].key = entry[e].key => d = e

\* A table with room for every key runs out of its arena only through
\* removals: putting a key again takes no room and adds no second entry, putting
\* it back after its removal takes room (hashmap.h:48-66; hashmap_remove gives
\* nothing back).  A build without asserts leaves its arena then, and no sooner.
FullOnlyByRemovals ==
  /\ OneEntryPerKey
  /\ full /\ MaxEntries >= Cardinality(Keys) => Cardinality(Linked) < MaxEntries
=============================================================================
