------------------------------ MODULE Subdivide ------------------------------
(***************************************************************************)
(* Allocators made from an allocator (hal/memory/allocator.rs): subdivide  *)
(* takes a bitmap and a run of pages from the parent and returns a child   *)
(* that manages the run; new_fake takes only a bitmap, and its child hands *)
(* out virtual addresses.  Each USB controller, each NVMe controller and   *)
(* the kernel's virtual memory has such a child.                           *)
(*                                                                         *)
(* The child's bitmap fills only the head of its zeroed pages, so what the *)
(* search loops find behind it are zeros (and bits they set themselves):   *)
(* a page of bitmap describes 32768 pages, and no caller asks for more     *)
(* than 8192.                                                              *)
(***************************************************************************)
EXTENDS Allocator

CONSTANTS
  SubSizes,      \* num_pages the drivers ask for
  WordsPerPage,  \* bitmap words in one page (1024)
  FakeBase       \* virtual page a fake child starts at

ASSUME SubdivideAssumption ==
    /\ SubSizes \subseteq Nat \ {0}
    /\ WordsPerPage \in Nat \ {0}
    /\ FakeBase \in Nat

VARIABLES
  child,         \* the child allocator: addend, size, kind
  child_used,    \* its bitmap, from page 0 of the child
  child_entry,   \* its current_entry
  child_live     \* blocks it handed out, in pages of the child

childVars == <<child, child_used, child_entry, child_live>>

allVars == <<used, current_entry, live, boot, childVars>>

NoChild == [kind |-> "none", addend |-> 0, pages |-> 0, bitmap |-> 0]

InitTree ==
    /\ Init
    /\ child = NoChild
    /\ child_used = {}
    /\ child_entry = 0
    /\ child_live = {}
-----------------------------------------------------------------------------
EntriesNeeded(n) == IF n % W # 0 THEN n \div W + 1 ELSE n \div W

BitmapPagesNeeded(n) ==
    IF EntriesNeeded(n) % WordsPerPage # 0
      THEN EntriesNeeded(n) \div WordsPerPage + 1
      ELSE EntriesNeeded(n) \div WordsPerPage

(* alloc in either of its two ranges of sizes. *)
Allocates(u, entries, cur, n, p, c) ==
    \/ AllocatesSmall(u, entries, cur, n, p, c)
    \/ AllocatesLarge(u, entries, n, p) /\ c = cur

NewChild(kind, addend, n, bitmap) ==
    /\ child' = [kind |-> kind, addend |-> addend, pages |-> n, bitmap |-> bitmap]
    /\ child_used' = {}
    /\ child_entry' = 0
    /\ child_live' = {}

(* Mutant: the child manages the pages behind the bitmap without taking    *)
(* them from the parent.                                                   *)
SubdivideUnreserved(n) ==
    /\ child = NoChild
    /\ \E p \in Candidates(bitmap_entries), c \in 0 .. bitmap_entries :
         LET b == BitmapPagesNeeded(n) IN
         /\ Allocates(used, bitmap_entries, current_entry, b, p, c)
         /\ used' = SetOne(used, p, b)
         /\ current_entry' = c
         /\ live' = live \cup {[base |-> p, pages |-> b]}
         /\ NewChild("real", p + b, n, p)
    /\ UNCHANGED boot

(* subdivide(n): the bitmap first, then the pages the child manages. *)
SubdivideAlloc(n) ==
    /\ child = NoChild
    /\ \E p \in Candidates(bitmap_entries), c \in 0 .. bitmap_entries :
         LET b == BitmapPagesNeeded(n) IN
         /\ Allocates(used, bitmap_entries, current_entry, b, p, c)
         /\ \E q \in Candidates(bitmap_entries), d \in 0 .. bitmap_entries :
              /\ Allocates(SetOne(used, p, b), bitmap_entries, c, n, q, d)
              /\ used' = SetOne(SetOne(used, p, b), q, n)
              /\ current_entry' = d
              /\ live' = live \cup {[base |-> p, pages |-> b],
                                    [base |-> q, pages |-> n]}
              /\ NewChild("real", q, n, p)
    /\ UNCHANGED boot

(* new_fake(n, FakeBase): the bitmap only. *)
NewFake(n) ==
    /\ child = NoChild
    /\ \E p \in Candidates(bitmap_entries), c \in 0 .. bitmap_entries :
         LET b == BitmapPagesNeeded(n) IN
         /\ Allocates(used, bitmap_entries, current_entry, b, p, c)
         /\ used' = SetOne(used, p, b)
         /\ current_entry' = c
         /\ live' = live \cup {[base |-> p, pages |-> b]}
         /\ NewChild("fake", FakeBase, n, p)
    /\ UNCHANGED boot

(* Either allocation of subdivide failing is a kernel panic: nothing runs  *)
(* after it.  A failed second one leaves the bitmap's pages allocated.     *)
SubdividePanics(n) ==
    /\ child = NoChild
    /\ LET b == BitmapPagesNeeded(n) IN
       \/ /\ AllocatesNothing(used, bitmap_entries, current_entry, b)
          /\ UNCHANGED <<used, current_entry, live>>
       \/ \E p \in Candidates(bitmap_entries), c \in 0 .. bitmap_entries :
            /\ Allocates(used, bitmap_entries, current_entry, b, p, c)
            /\ AllocatesNothing(SetOne(used, p, b), bitmap_entries, c, n)
            /\ used' = SetOne(used, p, b)
            /\ current_entry' = c
            /\ live' = live \cup {[base |-> p, pages |-> b]}
    /\ child' = [NoChild EXCEPT !.kind = "panic"]
    /\ UNCHANGED <<boot, child_used, child_entry, child_live>>
-----------------------------------------------------------------------------
HasChild == child.kind \in {"real", "fake"}

ChildEntries == EntriesNeeded(child.pages)

(* alloc on the child: base = addend + the page found. *)
ChildAlloc(n) ==
    /\ HasChild
    /\ \E p \in Candidates(ChildEntries), c \in 0 .. ChildEntries :
         /\ Allocates(child_used, ChildEntries, child_entry, n, p, c)
         /\ child_used' = SetOne(child_used, p, n)
         /\ child_entry' = c
         /\ child_live' = child_live \cup {[base |-> p, pages |-> n]}
    /\ UNCHANGED <<vars, child>>

ChildAllocFails(n) ==
    /\ HasChild
    /\ AllocatesNothing(child_used, ChildEntries, child_entry, n)
    /\ UNCHANGED allVars

(* Mutant: the bit is looked up without subtracting addend. *)
ChildFreeAbsolute(b) ==
    /\ child.addend + b.base + b.pages <= MaxPage
    /\ child_used' = SetZero(child_used, child.addend + b.base, b.pages)
    /\ child_live' = child_live \ {b}
    /\ UNCHANGED <<vars, child, child_entry>>

(* free on the child: only the end of the block is compared with a limit,  *)
(* and the limit is the kernel's, not the child's.                         *)
ChildFree(b) ==
    /\ child.addend + b.base + b.pages <= MaxPage
    /\ IsOccupied(child_used, b.base, b.pages)
    /\ child_used' = SetZero(child_used, b.base, b.pages)
    /\ child_live' = child_live \ {b}
    /\ UNCHANGED <<vars, child, child_entry>>

(* The blocks the parent must get back from nobody but the child itself. *)
OwnedByChild(b) == b.base \in {child.addend, child.bitmap}

NextTree ==
    \/ /\ child.kind # "panic"
       /\ \E n \in Sizes : /\ Cardinality(live) < MaxLive
                           /\ AllocSmall(n) \/ AllocLarge(n) \/ AllocFails(n)
       /\ UNCHANGED childVars
    \/ /\ child.kind # "panic"
       /\ \E b \in live : ~OwnedByChild(b) /\ Free(b, b.base, b.pages)
       /\ UNCHANGED childVars
    \/ \E n \in SubSizes : SubdivideAlloc(n) \/ NewFake(n) \/ SubdividePanics(n)
    \/ \E n \in Sizes : /\ Cardinality(child_live) < MaxLive
                        /\ ChildAlloc(n) \/ ChildAllocFails(n)
    \/ \E b \in child_live : ChildFree(b)

SpecTree == InitTree /\ [][NextTree]_allVars
-----------------------------------------------------------------------------
(* The pages of memory (for a fake child: virtual pages) of a child block. *)
ChildPages(b) == Block(child.addend + b.base, b.pages)

(* subdivide takes the child's pages from the parent "so &self won't       *)
(* allocate memory which the subdivided allocator can allocate": no block  *)
(* of a real child shares a page with a block of anybody else.             *)
ChildrenApart ==
    child.kind = "real" =>
      \A c \in child_live, b \in live :
        b.base # child.addend => ChildPages(c) \cap Pages(b) = {}

(* The part of that promise the code keeps: a block of a real child that   *)
(* ends inside the pages it was given shares no page with any other block, *)
(* and two blocks of a child, real or fake, never share one, while parent  *)
(* and child allocate and free in any order.                               *)
ChildBlocksDisjoint ==
    /\ \A c, d \in child_live : c # d => ChildPages(c) \cap ChildPages(d) = {}
    /\ child.kind = "real" =>
         \A c \in child_live, b \in live :
           (c.base + c.pages <= child.pages /\ b.base # child.addend)
              => ChildPages(c) \cap Pages(b) \cap InRange = {}

(* The child's bitmap is its live blocks: alloc_zero cleared the bitmap's  *)
(* pages, and no page is leaked or left marked by child frees.             *)
ChildBitmapExact == child_used = CoveredBy(child_live)
=============================================================================
