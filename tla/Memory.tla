------------------------------- MODULE Memory -------------------------------
(***************************************************************************)
(* Growable arrays: the memory discipline shared by every buffer of the    *)
(* library (bytecode, constant pool, debug lines and columns).  An array   *)
(* is what its C struct holds: the number of used cells, the capacity the  *)
(* struct believes it owns, and the block the allocator really handed out. *)
(* "memory" records whether an allocation of the array was refused, which  *)
(* the program answers by exiting: such an array is never looked at again. *)
(***************************************************************************)
EXTENDS Integers, Sequences

CONSTANTS
  Word,         \* size_t arithmetic is modulo Word (2^64)
  MaxAlloc,     \* no request above this many bytes succeeds (PTRDIFF_MAX)
  MinCapacity,  \* the 8 of SKARD_GROW_CAPACITY
  Garbage       \* content of a cell that was allocated and not yet written

(***************************************************************************)
(* PTRDIFF_MAX is below half of the address space; the smallest buffer of  *)
(* the widest cell (a 16-byte Value) can be asked for.                     *)
(***************************************************************************)
ASSUME MemoryAssumption ==
  /\ Word \in Nat
  /\ MaxAlloc \in Nat
  /\ 2 * MaxAlloc < Word
  /\ MinCapacity \in Nat
  /\ MinCapacity >= 2
  /\ 16 * MinCapacity < Word
  /\ Garbage \notin Nat

\* sizeof(uint8_t), sizeof(size_t) and sizeof(Value) on an LP64 target.
ByteWidth == 1
SizeWidth == 8
ValueWidth == 16

EmptyArray == [count |-> 0, capacity |-> 0, data |-> << >>, memory |-> "granted"]

GrowCapacity(capacity) ==
  IF capacity < MinCapacity THEN MinCapacity ELSE (2 * capacity) % Word

\* new_size as it is computed before reallocate() is called.
RequestSize(width, capacity) == (width * capacity) % Word

\* Mutant: a new block without the old content.
Reallocate_Fresh(data, size, width) ==
  [i \in 1 .. (size \div width) |-> Garbage]

(***************************************************************************)
(* reallocate(): the new block has room for as many cells as the requested *)
(* size really holds and keeps the old content; a size of 0 frees the      *)
(* block and returns NULL, which is no error.                              *)
(***************************************************************************)
Reallocate(data, size, width) ==
  [i \in 1 .. (size \div width) |->
     IF i \in 1 .. Len(data) THEN data[i] ELSE Garbage]

Grown(array, width) ==
  LET capacity == GrowCapacity(array.capacity)
      size     == RequestSize(width, capacity)
  IN  [count    |-> array.count,
       capacity |-> capacity,
       data     |-> Reallocate(array.data, size, width),
       memory   |-> IF size > MaxAlloc THEN "refused" ELSE array.memory]

\* Mutant: full only when one cell too late.
IsFull_TooLate(array) == array.capacity < array.count

\* Mutant: a capacity that is compared with itself.
IsFull_Always(array) == array.capacity < array.capacity + 1

IsFull(array) == array.capacity < array.count + 1

\* The array after cells were written and the number of used cells changed.
Stored(array, count, data) ==
  [count |-> count, capacity |-> array.capacity,
   data |-> data, memory |-> array.memory]

\* The append shared by value_array_add, debug_info_add_column and
\* chunk_write_byte: grow when full, store, count.
Push(array, width, x) ==
  LET room == IF IsFull(array) THEN Grown(array, width) ELSE array
  IN  Stored(room, array.count + 1, [room.data EXCEPT ![array.count + 1] = x])

\* The used part of an array.
Content(array) == SubSeq(array.data, 1, array.count)
=============================================================================
