----------------------------- MODULE BitmapEntry -----------------------------
(***************************************************************************)
(* The bit arithmetic of hal/memory/allocator.rs.  A bitmap is the set of  *)
(* the page indices whose bit is 1; bit i of 32-bit word e is the page     *)
(* e * W + i.  The code's W is 32 (KERNEL_ALLOCATED_PAGES_PER_BITMAP_ENTRY)*)
(* and it reaches a range of bits through three masks: the rest of the     *)
(* first word, the whole words after it, and the head of the last word.    *)
(***************************************************************************)
EXTENDS Integers

CONSTANT W     \* pages per bitmap word

ASSUME WAssumption == W \in Nat \ {0}

(* The pages p, p+1, ..., p+n-1: what a MemoryBlock of n pages covers. *)
Block(p, n) == p .. (p + n - 1)

(* A mask of n pages from page p holds no 1 bit. *)
IsFree(used, p, n) == Block(p, n) \cap used = {}

(***************************************************************************)
(* BitmapEntry: the three masks of a range that starts at page p.          *)
(***************************************************************************)
FirstWidth(p, n) == IF W - (p % W) >= n THEN n ELSE W - (p % W)

FullEntries(p, n) == (n - FirstWidth(p, n)) \div W

Remainder(p, n) == (n - FirstWidth(p, n)) % W

NextEntryBase(p) == (p \div W + 1) * W

FirstMask(p, n) == Block(p, FirstWidth(p, n))

FullMask(p, n) == Block(NextEntryBase(p), FullEntries(p, n) * W)

EndMask(p, n) ==
    Block(NextEntryBase(p) + FullEntries(p, n) * W, Remainder(p, n))

MaskBits(p, n) == FirstMask(p, n) \cup FullMask(p, n) \cup EndMask(p, n)

(* Mutants: the head of the last word is forgotten. *)
SetZeroNoEnd(used, p, n) == used \ (FirstMask(p, n) \cup FullMask(p, n))

SetOneNoEnd(used, p, n) == used \cup FirstMask(p, n) \cup FullMask(p, n)

SetZero(used, p, n) == used \ MaskBits(p, n)

SetOne(used, p, n) == used \cup MaskBits(p, n)

(* is_occupied compares the first and the last mask with the mask itself,  *)
(* but a whole word in between only with 0.                                *)
IsOccupied(used, p, n) ==
    /\ FirstMask(p, n) \subseteq used
    /\ \A i \in 0 .. (FullEntries(p, n) - 1) :
          Block(NextEntryBase(p) + i * W, W) \cap used # {}
    /\ EndMask(p, n) \subseteq used

(***************************************************************************)
(* The searches of alloc.  is_entry_valid: a hole of n <= W pages inside   *)
(* word e, the lowest one.                                                 *)
(***************************************************************************)
EntryFits(used, e, n) == \E i \in 0 .. (W - n) : IsFree(used, e * W + i, n)

IsLowestFit(used, e, i, n) ==
    /\ i \in 0 .. (W - n)
    /\ IsFree(used, e * W + i, n)
    /\ \A j \in 0 .. (i - 1) : ~IsFree(used, e * W + j, n)

(* next_free_entry_ex: word e ends in k > 0 zero bits (k as large as it can *)
(* be), and the n - k pages after the word are zero as well.                *)
EndsInZeros(used, e, k) ==
    /\ k \in 1 .. W
    /\ IsFree(used, (e + 1) * W - k, k)
    /\ k = W \/ ((e + 1) * W - k - 1) \in used

EntryFitsEx(used, e, n) ==
    \E k \in 1 .. W : /\ EndsInZeros(used, e, k)
                      /\ IsFree(used, (e + 1) * W, n - k)
=============================================================================
