----------------------------- MODULE EarlyAlloc -----------------------------
(***************************************************************************)
(* The bump allocator of early boot (early_alloc.cpp): a pool, and how much *)
(* of it is used. Addresses and sizes wrap at SizeWord.                     *)
(***************************************************************************)
EXTENDS Integers

CONSTANTS
    SizeWord,               \* the values of size_t and uintptr_t
    PoolBase,               \* the address of g_early_alloc_pool
    EARLY_ALLOC_POOL_SIZE,
    EARLY_ALLOC_ALIGNMENT

IsPowerOf2(n) == n > 0 /\ \A d \in 2 .. n : n % d = 0 => d % 2 = 0

ASSUME EarlyAllocAssumption ==
    /\ {SizeWord, PoolBase, EARLY_ALLOC_POOL_SIZE, EARLY_ALLOC_ALIGNMENT} \subseteq Nat \ {0}
    /\ IsPowerOf2(SizeWord) /\ IsPowerOf2(EARLY_ALLOC_ALIGNMENT)
    /\ PoolBase + EARLY_ALLOC_POOL_SIZE < SizeWord

NULL == 0

PoolAtReset == [base |-> NULL, size |-> 0, used |-> 0, initialized |-> FALSE]

early_alloc_init(pool, base, size) ==
    IF base = NULL \/ size = 0
    THEN pool
    ELSE [base |-> base, size |-> size, used |-> 0, initialized |-> TRUE]

early_alloc_init_default(pool) == early_alloc_init(pool, PoolBase, EARLY_ALLOC_POOL_SIZE)

-----------------------------------------------------------------------------
UsableSize(size) == IF size = 0 THEN 1 ELSE size
UsableAlignment(alignment) == IF IsPowerOf2(alignment) THEN alignment ELSE EARLY_ALLOC_ALIGNMENT

(* The next multiple of alignment, in the arithmetic of uintptr_t.          *)
Aligned(address, alignment) ==
    LET sum == (address + alignment - 1) % SizeWord IN sum - (sum % alignment)

Current(pool) == (pool.base + pool.used) % SizeWord
Padding(pool, alignment) == (Aligned(Current(pool), alignment) - Current(pool)) % SizeWord

(* What early_alloc_align finds wrong: without an overflow, as the second   *)
(* sum is only formed if the first one fits.                                *)
TooLarge(pool, size) == size > pool.size

(* Mutant: the padding is left out of the check.                            *)
OutOfMemoryBlind(pool, size, alignment) == size > pool.size - pool.used

OutOfMemory(pool, size, alignment) ==
    \/ Padding(pool, alignment) > pool.size - pool.used
    \/ size > pool.size - pool.used - Padding(pool, alignment)

(* Mutant: the next block is kept aligned, too, at the end of the pool's    *)
(* used part, where no block ends.                                          *)
early_alloc_alignRounded(pool, requested, wanted) ==
    LET size == UsableSize(requested)
        alignment == UsableAlignment(wanted)
        failed == \/ ~pool.initialized
                  \/ TooLarge(pool, size)
                  \/ OutOfMemory(pool, size, alignment)
        used == pool.used + Padding(pool, alignment) + size
        rounded == Aligned(pool.base + used, EARLY_ALLOC_ALIGNMENT) - pool.base
    IN  IF failed
        THEN [ptr |-> NULL, pool |-> pool]
        ELSE [ptr |-> Aligned(Current(pool), alignment),
              pool |-> [pool EXCEPT !.used = IF rounded <= pool.size THEN rounded ELSE used]]

(* The block's address, or NULL, and the pool afterwards.                   *)
early_alloc_align(pool, requested, wanted) ==
    LET size == UsableSize(requested)
        alignment == UsableAlignment(wanted)
        failed == \/ ~pool.initialized
                  \/ TooLarge(pool, size)
                  \/ OutOfMemory(pool, size, alignment)
    IN  IF failed
        THEN [ptr |-> NULL, pool |-> pool]
        ELSE [ptr |-> Aligned(Current(pool), alignment),
              pool |-> [pool EXCEPT !.used = @ + Padding(pool, alignment) + size]]
=============================================================================
