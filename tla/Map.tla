--------------------------------- MODULE Map ---------------------------------
(***************************************************************************)
(* What src/domain/hashmap.h promises its callers: a finite map from keys  *)
(* to values, with put, get and remove.  The debugger is specified over    *)
(* this map; HashMap is the chained table that implements it.              *)
(***************************************************************************)
EXTENDS Functions

\* The map hashmap_create returns.
EmptyMap == [k \in {} |-> k]

\* hashmap_put: overwrite the value stored for k, or add an entry for it.
MapPut(m, k, v) == [x \in DOMAIN m \cup {k} |-> IF x = k THEN v ELSE m[x]]

\* hashmap_remove: k is no longer mapped; removing an absent key is a no-op.
MapRemove(m, k) == Restrict(m, DOMAIN m \ {k})
=============================================================================
