------------------------------ MODULE Dictionary ------------------------------
(***************************************************************************)
(* The contract of src/domain/hashmap.h as its callers rely on it: a       *)
(* finite map, and pointers to the values of keys looked up before.  Such  *)
(* a pointer is a live view: it shows what is stored for its key now, and  *)
(* is good until the key is removed.                                       *)
(***************************************************************************)
EXTENDS Map

CONSTANTS Keys, Values

VARIABLES
  map,    \* key -> value
  view,   \* what the pointers callers hold show, by key
  found,  \* the last lookup did not return NULL
  died    \* an assert has failed: the table's arena is used up

vars == <<map, view, found, died>>

Init == map = EmptyMap /\ view = EmptyMap /\ found = FALSE /\ died = FALSE

Put(k, v) ==
  /\ ~died
  /\ map' = MapPut(map, k, v)
  /\ view' = IF k \in DOMAIN view THEN MapPut(view, k, v) ELSE view
  /\ UNCHANGED <<found, died>>

\* There is no room for a key that is not in the map.
Fail(k) ==
  /\ ~died /\ k \notin DOMAIN map
  /\ died' = TRUE
  /\ UNCHANGED <<map, view, found>>

Get(k) ==
  /\ ~died
  /\ found' = (k \in DOMAIN map)
  /\ view' = IF k \in DOMAIN map THEN MapPut(view, k, map[k]) ELSE view
  /\ UNCHANGED <<map, died>>

Remove(k) ==
  /\ ~died
  /\ map' = MapRemove(map, k)
  /\ view' = MapRemove(view, k)
  /\ UNCHANGED <<found, died>>

Next ==
  \E k \in Keys :
    Fail(k) \/ Get(k) \/ Remove(k) \/ \E v \in Values : Put(k, v)

Spec == Init /\ [][Next]_vars
=============================================================================
