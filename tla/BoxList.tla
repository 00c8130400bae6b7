-------------------------------- MODULE BoxList --------------------------------
(***************************************************************************)
(* The singly linked lists of ocaml-eval/src/basic/basic_linkable.ml, a    *)
(* functor over nodes with a mutable next.  A list is whatever can be      *)
(* reached from a box: nothing says whether a box is in one already.       *)
(***************************************************************************)
EXTENDS Integers, Sequences, FiniteSets, SequencesExt

CONSTANTS
  Boxes,   \* the nodes
  NoBox    \* None

ASSUME BoxListAssumption == NoBox \notin Boxes /\ IsFiniteSet(Boxes)

VARIABLE link   \* next, by box

\* create_ui_box.
ListInit == link = [b \in Boxes |-> NoBox]

\* What a walk from a box finds after n steps.
Walk(next, box) ==
  LET at[n \in 0 .. Cardinality(Boxes)] ==
        IF n = 0 THEN box
        ELSE IF at[n - 1] = NoBox THEN NoBox ELSE next[at[n - 1]]
  IN at

\* A walk from the box comes to None.
Ends(next, box) == Walk(next, box)[Cardinality(Boxes)] = NoBox

\* The list from a box, if it ends.
ListOf(next, box) ==
  LET at == Walk(next, box)
  IN [i \in 1 .. Cardinality({n \in DOMAIN at : at[n] # NoBox}) |-> at[i - 1]]

\* Mutant of InsertAfter: the successor is read after the first assignment.
InsertAfterLate(next, box, new) == [next EXCEPT ![box] = new, ![new] = new]

\* insert_after: what new was linked to is dropped.
InsertAfter(next, box, new) == [next EXCEPT ![box] = new, ![new] = next[box]]

\* insert_front: the list from new is the one with new in front.
InsertFront(next, new, head) == [next EXCEPT ![new] = head]

\* insert_back of a list that ends and is not empty: what new is linked to
\* comes with it.  In a list that does not end the recursion goes on for ever;
\* of an empty list, new is the result and no link changes.
InsertBack(next, new, head) == [next EXCEPT ![Last(ListOf(next, head))] = new]

ListNext ==
  \E box, new \in Boxes :
    \/ link' = InsertAfter(link, box, new)
    \/ link' = InsertFront(link, new, box)
    \/ Ends(link, box) /\ link' = InsertBack(link, new, box)

ListSpec == ListInit /\ [][ListNext]_link

-----------------------------------------------------------------------------

AllEnd(next) == \A b \in Boxes : Ends(next, b)

\* The calls that can be made in a heap whose lists all end.
Splices(next) ==
  \A box, new \in Boxes :
    LET old == ListOf(next, box)
        own == ListOf(next, new)
        after == InsertAfter(next, box, new)
        front == InsertFront(next, new, box)
        back == InsertBack(next, new, box)
    IN /\ AllEnd(after) <=> new \notin ToSet(Tail(old))
       /\ AllEnd(front) <=> new \notin ToSet(old)
       /\ AllEnd(back) <=> Last(old) # Last(own)
       /\ new \notin ToSet(old) =>
            /\ ListOf(after, box) = <<box, new>> \o Tail(old)
            /\ ListOf(front, new) = <<new>> \o old
       /\ ToSet(old) \cap ToSet(own) = {} => ListOf(back, box) = old \o own

\* Whenever an insertion is made where lists end, it makes the list it says:
\* after a box it takes new without its successors, at the back with them.  It
\* closes a cycle, in which the next insert_back never returns, exactly if new
\* comes later in the list (after), is in it (front), or its own list has the
\* same last box (back): no call looks whether a box is in a list already
\* (basic_linkable.ml:12-32).
InsertionsSplice == [][link' # link /\ AllEnd(link) => Splices(link)]_link
=============================================================================
