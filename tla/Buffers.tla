------------------------------ MODULE Buffers ------------------------------
(***************************************************************************)
(* buffer/buffer.h has two implementations of BufferT: loops, for elements *)
(* that are not trivially copyable, and memcpy.  A program does the same   *)
(* to a buffer of each kind, and should see no difference.                 *)
(*                                                                         *)
(* Elements have two bytes of one bit each; an index is counted from 0.    *)
(***************************************************************************)
EXTENDS Integers, FiniteSets, FiniteSetsExt

CONSTANTS
  NumElements,     \* NUM_ELEMENTS
  OtherSizes,      \* the sizes of buffers to copy from and to
  SizeRange        \* the range of size_t

VARIABLES
  loop, copy,              \* elements_ of the two buffers
  loop_dest, copy_dest,    \* buffers that were read into, <<size, elements>>
  torn, torn_dest,         \* history: written by one of them before it failed
  agreed                   \* history: the two have given the same answers so far

vars == <<loop, copy, loop_dest, copy_dest, torn, torn_dest, agreed>>

Elements == {0, 1, 2}
Indices == 0..(NumElements - 1)
Junk == 9            \* memory that nothing was written to

(* Only the loop version initializes elements_. *)
Init ==
  /\ loop = [i \in Indices |-> 0] /\ copy = [i \in Indices |-> Junk]
  /\ \E size \in OtherSizes :
       /\ loop_dest = [i \in 0..(size - 1) |-> 0]
       /\ copy_dest = [i \in 0..(size - 1) |-> Junk]
  /\ torn = {} /\ torn_dest = {} /\ agreed = TRUE

-----------------------------------------------------------------------------
(* validate_index, and what the bulk operations do with it: the sum is a   *)
(* size_t.  A count that makes it wrap around is no legal call.            *)
validate_index(index) == index < NumElements
ValidRange(offset, count) ==
  validate_index(offset) /\ validate_index((offset + count - 1 + SizeRange) % SizeRange)

Segment(offset, count) == offset..(offset + count - 1)
Copied(to, offset, count, from(_)) ==
  [i \in DOMAIN to |-> IF i \in Segment(offset, count) THEN from(i - offset) ELSE to[i]]

(* operator[] for an element. *)
WriteElement(index, element) ==
  /\ loop' = Copied(loop, index, IF validate_index(index) THEN 1 ELSE 0, LAMBDA i : element)
  /\ copy' = Copied(copy, index, IF validate_index(index) THEN 1 ELSE 0, LAMBDA i : element)
  /\ torn' = torn \ {index}
  /\ UNCHANGED <<loop_dest, copy_dest, torn_dest, agreed>>

(* Only what was written in both may be asked for. *)
ReadElement(index) ==
  /\ index \in Indices => copy[index] # Junk /\ index \notin torn
  /\ agreed' = (agreed /\ (validate_index(index) => loop[index] = copy[index]))
  /\ UNCHANGED <<loop, copy, loop_dest, copy_dest, torn, torn_dest>>

Clear ==
  /\ loop' = [i \in Indices |-> 0] /\ copy' = [i \in Indices |-> 0]
  /\ torn' = {}
  /\ UNCHANGED <<loop_dest, copy_dest, torn_dest, agreed>>

(* write and write_array, from size equal elements; an array is as large   *)
(* as need be.  The loop notices only at the end of src that it is short.  *)
LoopWrites(offset, count, size) ==
  IF ValidRange(offset, count) THEN IF size < count THEN size ELSE count ELSE 0
(* Fault: the size of src is not looked at. *)
CopyWritesUnchecked(offset, count, size) ==
  IF ValidRange(offset, count) THEN count ELSE 0

CopyWrites(offset, count, size) ==
  IF ValidRange(offset, count) /\ size >= count THEN count ELSE 0

Write(offset, count, size, element) ==
  LET loops == LoopWrites(offset, count, size)
      copies == CopyWrites(offset, count, size)
  IN
  /\ loop' = Copied(loop, offset, loops, LAMBDA i : element)
  /\ copy' = Copied(copy, offset, copies, LAMBDA i : element)
  /\ torn' = IF loops = copies THEN torn \ Segment(offset, loops)
                               ELSE torn \union Segment(offset, loops)
  /\ agreed' = (agreed /\ (ValidRange(offset, count) => (loops = count <=> size >= count)))
  /\ UNCHANGED <<loop_dest, copy_dest, torn_dest>>

(* read: the same with the buffer that is read into. *)
Read(offset, count) ==
  LET size == Cardinality(DOMAIN loop_dest)
      loops == LoopWrites(offset, count, size)
      copies == CopyWrites(offset, count, size)
      unsure == {i - offset : i \in torn \intersect Segment(offset, copies)}
  IN
  /\ loop_dest' = Copied(loop_dest, 0, loops, LAMBDA i : loop[offset + i])
  /\ copy_dest' = Copied(copy_dest, 0, copies, LAMBDA i : copy[offset + i])
  /\ torn_dest' = IF loops = copies THEN (torn_dest \ Segment(0, loops)) \union unsure
                                    ELSE torn_dest \union Segment(0, loops)
  /\ agreed' = (agreed /\ (ValidRange(offset, count) => (loops = count <=> size >= count)))
  /\ UNCHANGED <<loop, copy, torn>>

(* compare, with another buffer and up to count elements: the loop has the *)
(* order of elements, memcmp that of their bytes.                          *)
Common(a, b, count) == {i \in DOMAIN a \intersect DOMAIN b : i < count}
Different(a, b, count) == {i \in Common(a, b, count) : a[i] # b[i]}
Order(x, y) == IF x = y THEN 0 ELSE IF x < y THEN -1 ELSE 1

LoopCompare(a, b, count) ==
  LET different == Different(a, b, count) IN
  IF different = {} THEN 0 ELSE Order(a[Min(different)], b[Min(different)])

Byte(element, k) == IF k = 0 THEN element % 2 ELSE element \div 2
CopyCompare(a, b, count) ==
  LET different == {2 * i + k : i \in Different(a, b, count), k \in {0, 1}}
      at == Min({d \in different : Byte(a[d \div 2], d % 2) # Byte(b[d \div 2], d % 2)})
  IN  IF different = {} THEN 0 ELSE Order(Byte(a[at \div 2], at % 2), Byte(b[at \div 2], at % 2))

Settled(buffer, doubtful, count) ==
  \A i \in DOMAIN buffer : i < count => buffer[i] # Junk /\ i \notin doubtful

(* is_equal; == and != are without a count. *)
IsEqual(count) ==
  /\ Settled(copy, torn, count) /\ Settled(copy_dest, torn_dest, count)
  /\ agreed' = (agreed /\ (LoopCompare(loop, loop_dest, count) = 0
                             <=> CopyCompare(copy, copy_dest, count) = 0))
  /\ UNCHANGED <<loop, copy, loop_dest, copy_dest, torn, torn_dest>>

(* as_string_view looks at the last index only. *)
AsStringView(offset, count) ==
  /\ offset + count - 1 \in Indices => Settled(copy, torn, NumElements)
  /\ agreed' = (agreed /\ (validate_index((offset + count - 1 + SizeRange) % SizeRange) =>
                             \A i \in Segment(offset, count) : loop[i] = copy[i]))
  /\ UNCHANGED <<loop, copy, loop_dest, copy_dest, torn, torn_dest>>

Next ==
  \/ Clear
  \/ \E index \in 0..NumElements :
       ReadElement(index) \/ \E element \in Elements : WriteElement(index, element)
  \/ \E offset \in 0..NumElements, count \in 0..(NumElements + 1) :
       \/ \E size \in OtherSizes : Write(offset, count, size, 1)
       \/ Read(offset, count)
       \/ AsStringView(offset, count)
  \/ \E count \in {1, SizeRange - 1} : IsEqual(count)

Spec == Init /\ [][Next]_vars

-----------------------------------------------------------------------------
(* The kind of its elements makes no difference to what a buffer holds or  *)
(* answers, but where nothing was written yet, and behind an operation     *)
(* that failed for want of space, before which the loop has copied a part. *)
BuffersAgree ==
  /\ agreed
  /\ \A i \in Indices : i \in torn \/ copy[i] \in {Junk, loop[i]}
  /\ \A i \in DOMAIN loop_dest : i \in torn_dest \/ copy_dest[i] \in {Junk, loop_dest[i]}

=============================================================================
