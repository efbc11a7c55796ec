------------------------------- MODULE Mempool -------------------------------
(***************************************************************************)
(* libtxvc/mempool.c: a linear arena.  A pool is its head, an offset from  *)
(* the start, which malloc() aligned for any object.  An allocation is the *)
(* head it leaves: the block is the sz bytes below.  If that is beyond the *)
(* end of the pool, the program ends with FATAL.                           *)
(***************************************************************************)
EXTENDS Integers

NULL == -1

adjustedHead(head, align) == head + (IF head % align # 0 THEN align - (head % align) ELSE 0)

alloc_unaligned(head, sz) == head + sz

alloc_aligned(head, sz, align) == adjustedHead(head, align) + sz

reclaim_all == 0

(* Objects are as large, and aligned, as on a machine of 64 bits. *)
Align == 8
alloc_object(head, sz) == alloc_aligned(head, sz, Align)
=============================================================================
