------------------------------ MODULE Allocator ------------------------------
(***************************************************************************)
(* The kernel's page allocator (struct Allocator of                        *)
(* hal/memory/allocator.rs): a bitmap over a range of pages, first fit,    *)
(* with the word of the last small allocation remembered in current_entry. *)
(*                                                                         *)
(* Both search loops run while ptr <= bitmap + bitmap_entries, so they     *)
(* also look at the word after the bitmap.  The model keeps what lies in   *)
(* memory behind the bitmap: `used` may hold page indices of               *)
(* bitmap_entries * W and above.                                           *)
(***************************************************************************)
EXTENDS BitmapEntry, FiniteSets

CONSTANTS
  MaxPage,         \* KERNEL_MAXIMUM_ALLOCATABLE_ADDRESS in pages
  BitmapPages,     \* BITMAP_SIZE_IN_PAGES
  BootstrapBase,   \* the page of address 0x8000
  BootstrapPages,  \* the 4 pages kept for the bootstrap of the other cores
  MemoryMaps,      \* the EFI memory maps (sequences of descriptors) tried
  Images,          \* the sets of blocks the boot loader put the kernel in
  Sizes,           \* page counts the callers ask for
  MaxLive,         \* bound: blocks that callers hold at a time
  SlackBits        \* pages after the bitmap's range that are looked at

ASSUME AllocatorAssumption ==
    /\ MaxPage \in Nat
    /\ BitmapPages \in Nat
    /\ BootstrapBase \in Nat
    /\ BootstrapPages \in Nat
    /\ Sizes \subseteq Nat
    /\ SlackBits \subseteq Nat
    /\ \A s \in SlackBits : s >= MaxPage

(* The firmware's memory map lists each page once, and the boot loader's   *)
(* list of images has addresses and sizes.                                 *)
ASSUME MemoryMapAssumption ==
    /\ \A m \in MemoryMaps :
         /\ DOMAIN m \subseteq Nat
         /\ \A i \in DOMAIN m :
              m[i] \in [base : Nat, pages : Nat, conventional : BOOLEAN]
         /\ \A i, j \in DOMAIN m : i # j =>
              Block(m[i].base, m[i].pages) \cap Block(m[j].base, m[j].pages) = {}
    /\ \A imgs \in Images : \A b \in imgs : b \in [base : Nat, pages : Nat]

VARIABLES
  used,           \* the bitmap and what lies behind it
  current_entry,  \* the word the next small allocation looks at first
  live,           \* blocks handed out and not yet given back
  boot            \* what the machine looked like: bitmap, memory and images

vars == <<used, current_entry, live, boot>>

bitmap_entries == MaxPage \div W

InRange == 0 .. (MaxPage - 1)

Pages(b) == Block(b.base, b.pages)

CoveredBy(bs) == UNION {Pages(b) : b \in bs}
-----------------------------------------------------------------------------
(***************************************************************************)
(* Allocator::new.  The first conventional descriptor with room for it     *)
(* gives its first pages to the bitmap; every page starts as allocated and *)
(* the conventional descriptors are then cleared, up to the first one that *)
(* reaches above the highest allocatable address (the loop breaks there).  *)
(***************************************************************************)
HasRoom(m, i) == m[i].conventional /\ m[i].pages >= BitmapPages

TakesBitmap(m, i) == HasRoom(m, i) /\ \A j \in 1 .. (i - 1) : ~HasRoom(m, j)

(* Mutant: the descriptor keeps the pages of the bitmap. *)
WithBitmap(m, i) == m

WithoutBitmap(m, i) ==
    [m EXCEPT ![i].base = @ + BitmapPages,
              ![i].pages = @ - BitmapPages,
              ![i].conventional = (m[i].pages # BitmapPages)]

TooHigh(d) == d.conventional /\ d.base + d.pages > MaxPage

Cleared(m) ==
    {i \in DOMAIN m : /\ m[i].conventional
                      /\ \A j \in 1 .. i : ~TooHigh(m[j])}

(* The bits Allocator::new clears, and the memory firmware calls free. *)
ClearedPages(m) == UNION {MaskBits(m[i].base, m[i].pages) : i \in Cleared(m)}

Conventional(m) ==
    UNION {Block(m[i].base, m[i].pages) : i \in {j \in DOMAIN m : m[j].conventional}}

ImagePages(imgs) == UNION {MaskBits(b.base, b.pages) : b \in imgs}

InitialBitmap(m, imgs) ==
    (InRange \ ClearedPages(m))
        \cup ImagePages(imgs) \cup MaskBits(BootstrapBase, BootstrapPages)

Init ==
    \E m \in MemoryMaps, imgs \in Images, slack \in SUBSET SlackBits :
      \E i \in DOMAIN m :
        /\ TakesBitmap(m, i) /\ m[i].base # 0    \* else Err(ENOBUFS)
        /\ LET left == WithoutBitmap(m, i) IN
             /\ boot = [bitmap |-> Block(m[i].base, BitmapPages),
                        memory |-> Conventional(m),
                        images |-> ImagePages(imgs),
                        initial |-> InitialBitmap(left, imgs) \cap InRange]
             /\ used = InitialBitmap(left, imgs) \cup slack
        /\ current_entry = 0
        /\ live = {}
-----------------------------------------------------------------------------
(***************************************************************************)
(* alloc(n) with 1 <= n <= W on a bitmap u of `entries` words: the word    *)
(* cur first, else next_free_entry, which scans the words 0 .. entries.    *)
(* The block starts at page p and c is the new current_entry.              *)
(***************************************************************************)
NextFreeEntry(u, entries, e, n) ==
    /\ e \in 0 .. entries
    /\ EntryFits(u, e, n)
    /\ \A d \in 0 .. (e - 1) : ~EntryFits(u, d, n)

AllocatesSmall(u, entries, cur, n, p, c) ==
    /\ n \in 1 .. W
    /\ IF EntryFits(u, cur, n) THEN c = cur ELSE NextFreeEntry(u, entries, c, n)
    /\ IsLowestFit(u, c, p - c * W, n)

(* alloc_ex(n) with n > W: the tail of a word, whole words, the head of    *)
(* the word after.  current_entry stays.                                   *)
NextFreeEntryEx(u, entries, e, n) ==
    /\ e \in 0 .. entries
    /\ EntryFitsEx(u, e, n)
    /\ \A d \in 0 .. (e - 1) : ~EntryFitsEx(u, d, n)

AllocatesLarge(u, entries, n, p) ==
    /\ n > W
    /\ \E e \in 0 .. entries : \E k \in 1 .. W :
         /\ NextFreeEntryEx(u, entries, e, n)
         /\ EndsInZeros(u, e, k)
         /\ p = (e + 1) * W - k

(* alloc fails: 0 pages (AllocationError), or no word fits (Nospace). *)
AllocatesNothing(u, entries, cur, n) ==
    \/ n = 0
    \/ /\ n \in 1 .. W
       /\ ~EntryFits(u, cur, n)
       /\ \A e \in 0 .. entries : ~EntryFits(u, e, n)
    \/ /\ n > W
       /\ \A e \in 0 .. entries : ~EntryFitsEx(u, e, n)

(* The pages a search over the bitmap can return. *)
Candidates(entries) == 0 .. ((entries + 1) * W - 1)

(* Mutant: current_entry moves to the word after the one that was found. *)
AllocSmallMovesOn(n) ==
    /\ \E c \in 0 .. bitmap_entries, p \in Candidates(bitmap_entries) :
         /\ AllocatesSmall(used, bitmap_entries, current_entry, n, p, c)
         /\ used' = used \cup Block(p, n)
         /\ current_entry' = c + 1
         /\ live' = live \cup {[base |-> p, pages |-> n]}
    /\ UNCHANGED boot

AllocSmall(n) ==
    /\ \E c \in 0 .. bitmap_entries, p \in Candidates(bitmap_entries) :
         /\ AllocatesSmall(used, bitmap_entries, current_entry, n, p, c)
         /\ used' = used \cup Block(p, n)
         /\ current_entry' = c
         /\ live' = live \cup {[base |-> p, pages |-> n]}
    /\ UNCHANGED boot

AllocLarge(n) ==
    /\ \E p \in Candidates(bitmap_entries) :
         /\ AllocatesLarge(used, bitmap_entries, n, p)
         /\ used' = SetOne(used, p, n)
         /\ live' = live \cup {[base |-> p, pages |-> n]}
    /\ UNCHANGED <<current_entry, boot>>

(* A failed search leaves current_entry where it was. *)
AllocFails(n) ==
    /\ AllocatesNothing(used, bitmap_entries, current_entry, n)
    /\ UNCHANGED vars

(***************************************************************************)
(* free(memblock): the owner of b gives back n pages of it from page p on. *)
(* The rest of b stays with the owner.                                     *)
(***************************************************************************)
Rest(b, p, n) ==
    {r \in {[base |-> b.base, pages |-> p - b.base],
            [base |-> p + n, pages |-> b.base + b.pages - (p + n)]} : r.pages > 0}

FreeAccepts(p, n) == p + n <= MaxPage /\ IsOccupied(used, p, n)

Free(b, p, n) ==
    /\ n >= 1 /\ p >= b.base /\ p + n <= b.base + b.pages
    /\ FreeAccepts(p, n)
    /\ used' = SetZero(used, p, n)
    /\ live' = (live \ {b}) \cup Rest(b, p, n)
    /\ UNCHANGED <<current_entry, boot>>

FreeRefused(b) ==
    /\ ~FreeAccepts(b.base, b.pages)
    /\ UNCHANGED vars

(***************************************************************************)
(* The page behind the bitmap is ordinary free memory: whoever owns it may *)
(* write anything there, and the search loops read it.                     *)
(***************************************************************************)
SlackWrite(s) ==
    /\ used' = (used \cap InRange) \cup s
    /\ UNCHANGED <<current_entry, live, boot>>

Next ==
    \/ \E n \in Sizes : /\ Cardinality(live) < MaxLive
                        /\ AllocSmall(n) \/ AllocLarge(n) \/ AllocFails(n)
    \/ \E b \in live :
         \/ \E p \in Pages(b) : \E n \in 1 .. b.pages : Free(b, p, n)
         \/ FreeRefused(b)
    \/ \E s \in SUBSET SlackBits : SlackWrite(s)

Spec == Init /\ [][Next]_vars
-----------------------------------------------------------------------------
(* Types of the allocator's fields. *)
TypeOK ==
    /\ used \subseteq Nat
    /\ current_entry \in 0 .. bitmap_entries
    /\ \A b \in live : b.base \in Nat /\ b.pages \in Nat \ {0}
    /\ live \subseteq [base : Nat, pages : Nat]

(* No page of the range the bitmap manages is in two blocks that callers   *)
(* hold at the same time, whatever mix of small and large alloc calls and  *)
(* of whole and partial free calls led here.                               *)
NoDoubleAllocation ==
    \A b, c \in live : b # c => Pages(b) \cap Pages(c) \cap InRange = {}

(* Within its range the bitmap says exactly what is true: a bit is 1 iff   *)
(* the page was never free or a caller holds it.  A bit lost by free would *)
(* hand the page out twice, a bit left over would leak it.                 *)
BitmapExact ==
    used \cap InRange = boot.initial \cup (CoveredBy(live) \cap InRange)

(* Callers are never given the bitmap's own pages, the kernel image, the   *)
(* bootstrap pages at 0x8000, or pages that firmware did not call free.    *)
OnlyFreeMemory ==
    CoveredBy(live) \cap InRange
       \subseteq boot.memory \ (boot.bitmap \cup boot.images
                                   \cup Block(BootstrapBase, BootstrapPages))
=============================================================================
