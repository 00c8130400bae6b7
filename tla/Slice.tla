--------------------------------- MODULE Slice ---------------------------------
(***************************************************************************)
(* src/domain/slice.h as operators: a pointer into a buffer and a length   *)
(* of 32 bits.  Nothing checks how a slice is made; the accessors assert   *)
(* that the index is below the length.                                     *)
(***************************************************************************)
EXTENDS Integers

CONSTANT LengthMax   \* the largest uint32_t, UINT32_MAX

ASSUME SliceAssumption == LengthMax \in Nat \ {0}

Narrow(n) == n % (LengthMax + 1)

\* slice_new: the length is a size_t before it is stored.
SliceNew(offset, len) == [ptr |-> offset, length |-> Narrow(len)]

\* Mutant of Subslice: end is taken for a length.
SubsliceByLength(slice, start, end) ==
  [ptr |-> slice.ptr + start, length |-> Narrow(end)]

\* slice_subslice: end - start is unsigned.
Subslice(slice, start, end) ==
  [ptr |-> slice.ptr + start, length |-> Narrow(end - start)]

\* slice_value and slice_ref: the assert, and the element behind it.
Admits(slice, index) == index < slice.length
ElementAt(slice, index) == slice.ptr + index
=============================================================================
