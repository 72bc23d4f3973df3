--------------------------- MODULE AlignedMemory ---------------------------
(***************************************************************************)
(* Where CellPool and AllocAlign put objects that need an alignment in a   *)
(* block of memory that has none, and how they find the block again: its   *)
(* address is kept in a header, just before the first object.  AllocAlign  *)
(* is in its platform-independent branch, the one of the GNU builds for    *)
(* Windows.  A block does not reach the end of the address space.          *)
(***************************************************************************)
EXTENDS Integers

Positive == Nat \ {0}

\* x & -align, for an alignment that is a power of two.
AlignDown(x, align) == x - (x % align)

is_ptr_aligned(ptr, align) == ptr % align = 0

Bytes(ptr, n) == ptr .. ptr + n - 1

\* AllocAlign::allocate, from the block at alloc_ptr, and its size.
allocate(alloc_ptr, ptr_size, alig) ==
  AlignDown(alloc_ptr + ptr_size + alig - 1, alig)
alloc_bytes(n, ptr_size, alig) == ptr_size + alig - 1 + n

\* CellPool::alloc_cells, from the block at raw_ptr, and its size.
alloc_cells(raw_ptr, info, cell, align) ==
  AlignDown(raw_ptr + info + cell, align)
nbr_bytes(n, info, cell) == info + (n + 1) * cell

\* What deallocate and dealloc_cells read: the bytes before the objects.
Header(zone, size) == Bytes(zone - size, size)

=============================================================================
