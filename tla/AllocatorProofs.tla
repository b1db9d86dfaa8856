--------------------------- MODULE AllocatorProofs ---------------------------
(***************************************************************************)
(* Proofs about the page allocator, for every word width, memory size and  *)
(* mix of calls, and about an allocator made from an allocator, for every  *)
(* size of the child.                                                      *)
(***************************************************************************)
EXTENDS Subdivide, TLAPS

(* What TLA+ integer division gives for a positive divisor. *)
LEMMA DivMod ==
    ASSUME NEW a \in Nat
    PROVE  /\ a \div W \in Nat
           /\ a % W \in 0 .. (W - 1)
           /\ a = (a \div W) * W + (a % W)
  BY WAssumption

(* The three masks of BitmapEntry cover the range they are made for. *)
LEMMA MaskBitsIsBlock ==
    ASSUME NEW p \in Nat, NEW n \in Nat
    PROVE  MaskBits(p, n) = Block(p, n)
<1> DEFINE r == p % W
           A == NextEntryBase(p)
           m == n - (W - r)
           F == (m \div W) * W
<1>1. p \div W \in Nat /\ r \in 0 .. (W - 1) /\ p = (p \div W) * W + r
  BY DivMod
<1>2. A = p + (W - r)
  BY <1>1, WAssumption DEF NextEntryBase
<1>3. CASE W - r >= n
  <2>1. /\ FirstWidth(p, n) = n
        /\ FullEntries(p, n) = 0
        /\ Remainder(p, n) = 0
    BY <1>1, <1>3, WAssumption DEF FirstWidth, FullEntries, Remainder
  <2>2. FirstMask(p, n) = Block(p, n)
    BY <2>1 DEF FirstMask
  <2>3. FullMask(p, n) = {} /\ EndMask(p, n) = {}
    <3>1. A \in Nat
      BY <1>1, <1>2, WAssumption
    <3>2. 0 * W = 0
      BY WAssumption
    <3> QED
      BY <2>1, <3>1, <3>2 DEF FullMask, EndMask, Block
  <2> QED
    BY <2>2, <2>3 DEF MaskBits
<1>4. CASE ~(W - r >= n)
  <2>1. m \in Nat /\ W - r \in Nat
    BY <1>1, <1>4, WAssumption
  <2>2. FirstWidth(p, n) = W - r
    BY <1>4 DEF FirstWidth
  <2>3. FullEntries(p, n) = m \div W /\ Remainder(p, n) = m % W
    BY <2>2 DEF FullEntries, Remainder
  <2>4. m \div W \in Nat /\ m % W \in 0 .. (W - 1) /\ m = F + (m % W)
    BY <2>1, DivMod
  <2>5. F \in Nat
    BY <2>4, WAssumption
  <2> HIDE DEF F, m, r, A
  <2>6. /\ FirstMask(p, n) = Block(p, W - r)
        /\ FullMask(p, n) = Block(A, F)
        /\ EndMask(p, n) = Block(A + F, m % W)
    BY <2>2, <2>3 DEF FirstMask, FullMask, EndMask, A, F
  <2>7. n = (W - r) + F + (m % W)
    BY <2>4, <2>1, <2>5, <1>1, WAssumption DEF m
  <2>8. Block(p, n) = Block(p, W - r) \cup Block(A, F) \cup Block(A + F, m % W)
    BY <1>2, <2>1, <2>4, <2>5, <2>7, WAssumption DEF Block
  <2> QED
    BY <2>6, <2>8 DEF MaskBits
<1> QED
  BY <1>3, <1>4

(* A small allocation returns free pages. *)
LEMMA SmallIsFree ==
    ASSUME NEW u, NEW entries \in Nat, NEW cur \in 0 .. entries,
           NEW n, NEW p \in Nat, NEW c,
           AllocatesSmall(u, entries, cur, n, p, c)
    PROVE  n \in Nat \ {0} /\ c \in 0 .. entries /\ IsFree(u, p, n)
<1>1. n \in 1 .. W /\ n \in Nat \ {0}
  BY WAssumption DEF AllocatesSmall
<1>2. c \in 0 .. entries
  BY DEF AllocatesSmall, NextFreeEntry
<1>3. c * W + (p - c * W) = p
  <2>1. c * W \in Nat
    BY <1>2, WAssumption
  <2> QED
    BY <2>1
<1>4. IsFree(u, p, n)
  BY <1>3 DEF AllocatesSmall, IsLowestFit
<1> QED
  BY <1>1, <1>2, <1>4

(* A large allocation returns free pages: the number k of zero bits at the *)
(* end of the word is unique, so the block found is the block marked.      *)
LEMMA LargeIsFree ==
    ASSUME NEW u, NEW entries \in Nat, NEW n \in Nat, NEW p \in Nat,
           AllocatesLarge(u, entries, n, p)
    PROVE  n \in Nat \ {0} /\ IsFree(u, p, n)
<1>1. PICK e \in 0 .. entries, k \in 1 .. W :
         EntryFitsEx(u, e, n) /\ EndsInZeros(u, e, k) /\ p = (e + 1) * W - k
  BY DEF AllocatesLarge, NextFreeEntryEx
<1>2. PICK j \in 1 .. W : EndsInZeros(u, e, j) /\ IsFree(u, (e + 1) * W, n - j)
  BY <1>1 DEF EntryFitsEx
<1> DEFINE a == (e + 1) * W
<1>3. a \in Nat /\ n > W /\ n \in Nat \ {0}
  BY WAssumption DEF AllocatesLarge
<1>4. a >= W
  <2>1. a = e * W + W /\ e * W \in Nat
    BY WAssumption
  <2> QED
    BY <2>1, WAssumption
<1> HIDE DEF a
<1>5. /\ IsFree(u, a - k, k) /\ (k = W \/ a - k - 1 \in u)
      /\ IsFree(u, a - j, j) /\ (j = W \/ a - j - 1 \in u)
      /\ IsFree(u, a, n - j)
      /\ p = a - k
  BY <1>1, <1>2 DEF EndsInZeros, a
<1>6. j = k
  BY <1>3, <1>4, <1>5, WAssumption DEF IsFree, Block
<1>7. Block(p, n) = Block(a - k, k) \cup Block(a, n - k)
  BY <1>3, <1>4, <1>5, WAssumption DEF Block
<1> QED
  BY <1>3, <1>5, <1>6, <1>7 DEF IsFree
-----------------------------------------------------------------------------
(***************************************************************************)
(* The inductive invariant: TypeOK, the bitmap exact within its range, no  *)
(* page in two blocks, and no held page among those that were never free   *)
(* (without that last part free could clear the bit of a reserved page).   *)
(***************************************************************************)
HeldWasFree == CoveredBy(live) \cap boot.initial = {}

InitialInRange == boot.initial \subseteq InRange

(* What Allocator::new leaves free is free memory nobody else uses. *)
BootSound ==
    InRange \ boot.initial
       \subseteq boot.memory \ (boot.bitmap \cup boot.images
                                   \cup Block(BootstrapBase, BootstrapPages))

IInv ==
    /\ TypeOK
    /\ InitialInRange
    /\ BootSound
    /\ BitmapExact
    /\ NoDoubleAllocation
    /\ HeldWasFree

(* The bitmap has a number of words. *)
LEMMA EntriesType == bitmap_entries \in Nat
  BY DivMod, AllocatorAssumption DEF bitmap_entries

(* Allocator::new: what it leaves free is memory the firmware called free, *)
(* without the pages of the bitmap, the images and the bootstrap code.     *)
LEMMA InitBootSound == Init => BootSound
<1> SUFFICES ASSUME Init PROVE BootSound
  OBVIOUS
<1>1. PICK m \in MemoryMaps, imgs \in Images : \E i \in DOMAIN m :
          /\ TakesBitmap(m, i)
          /\ boot = [bitmap |-> Block(m[i].base, BitmapPages),
                     memory |-> Conventional(m),
                     images |-> ImagePages(imgs),
                     initial |-> InitialBitmap(WithoutBitmap(m, i), imgs) \cap InRange]
  BY DEF Init
<1>2. PICK i \in DOMAIN m :
          /\ TakesBitmap(m, i)
          /\ boot = [bitmap |-> Block(m[i].base, BitmapPages),
                     memory |-> Conventional(m),
                     images |-> ImagePages(imgs),
                     initial |-> InitialBitmap(WithoutBitmap(m, i), imgs) \cap InRange]
  BY <1>1
<1> DEFINE left == WithoutBitmap(m, i)
<1>3. /\ m[i] \in [base : Nat, pages : Nat, conventional : BOOLEAN]
      /\ m[i].conventional /\ m[i].pages >= BitmapPages
      /\ \A j \in DOMAIN m : m[j] \in [base : Nat, pages : Nat, conventional : BOOLEAN]
      /\ \A j \in DOMAIN m : j # i =>
           Block(m[i].base, m[i].pages) \cap Block(m[j].base, m[j].pages) = {}
  BY <1>2, MemoryMapAssumption DEF TakesBitmap, HasRoom
<1>4. /\ DOMAIN left = DOMAIN m
      /\ \A j \in DOMAIN m : j # i => left[j] = m[j]
      /\ left[i].base = m[i].base + BitmapPages
      /\ left[i].pages = m[i].pages - BitmapPages
  BY <1>3 DEF WithoutBitmap
<1> HIDE DEF left
<1> SUFFICES ASSUME NEW x \in InRange \ boot.initial
             PROVE  /\ x \in Conventional(m)
                    /\ x \notin Block(m[i].base, BitmapPages)
                    /\ x \notin ImagePages(imgs)
                    /\ x \notin Block(BootstrapBase, BootstrapPages)
  BY <1>2 DEF BootSound
<1>5. /\ x \in ClearedPages(left)
      /\ x \notin ImagePages(imgs)
      /\ x \notin MaskBits(BootstrapBase, BootstrapPages)
  BY <1>2 DEF InitialBitmap, left
<1>6. x \notin Block(BootstrapBase, BootstrapPages)
  BY <1>5, MaskBitsIsBlock, AllocatorAssumption
<1>7. PICK j \in DOMAIN m : left[j].conventional
                          /\ x \in MaskBits(left[j].base, left[j].pages)
  BY <1>4, <1>5 DEF ClearedPages, Cleared
<1>8. Block(m[i].base, BitmapPages) \subseteq Block(m[i].base, m[i].pages)
  BY <1>3, AllocatorAssumption DEF Block
<1>9. CASE j # i
  <2>1. left[j] = m[j] /\ m[j].conventional
    BY <1>4, <1>7, <1>9
  <2>2. x \in Block(m[j].base, m[j].pages)
    <3>1. m[j].base \in Nat /\ m[j].pages \in Nat
      BY <1>3
    <3> QED
      BY <3>1, <2>1, <1>7, MaskBitsIsBlock
  <2>3. x \in Conventional(m)
    BY <2>1, <2>2 DEF Conventional
  <2> QED
    BY <2>2, <2>3, <1>3, <1>5, <1>6, <1>8, <1>9
<1>10. CASE j = i
  <2>1. x \in Block(m[i].base + BitmapPages, m[i].pages - BitmapPages)
    <3>1. m[i].base + BitmapPages \in Nat /\ m[i].pages - BitmapPages \in Nat
      BY <1>3, AllocatorAssumption
    <3> QED
      BY <3>1, <1>4, <1>7, <1>10, MaskBitsIsBlock
  <2>2. x \in Block(m[i].base, m[i].pages) /\ x \notin Block(m[i].base, BitmapPages)
    BY <2>1, <1>3, AllocatorAssumption DEF Block
  <2>3. x \in Conventional(m)
    BY <2>2, <1>3 DEF Conventional
  <2> QED
    BY <2>2, <2>3, <1>5, <1>6
<1> QED
  BY <1>9, <1>10

(* The inductive invariant holds when Allocator::new returns. *)
LEMMA InitEstablishes == Init => IInv
<1> SUFFICES ASSUME Init PROVE IInv
  OBVIOUS
<1>1. PICK m \in MemoryMaps, imgs \in Images, slack \in SUBSET SlackBits :
        \E i \in DOMAIN m :
          /\ boot.initial = InitialBitmap(WithoutBitmap(m, i), imgs) \cap InRange
          /\ used = InitialBitmap(WithoutBitmap(m, i), imgs) \cup slack
          /\ current_entry = 0
          /\ live = {}
  BY DEF Init
<1>2. PICK i \in DOMAIN m :
          /\ boot.initial = InitialBitmap(WithoutBitmap(m, i), imgs) \cap InRange
          /\ used = InitialBitmap(WithoutBitmap(m, i), imgs) \cup slack
          /\ current_entry = 0
          /\ live = {}
  BY <1>1
<1>3. slack \subseteq Nat /\ slack \cap InRange = {}
  BY AllocatorAssumption DEF InRange
<1>4. MaskBits(BootstrapBase, BootstrapPages) \subseteq Nat
  BY MaskBitsIsBlock, AllocatorAssumption DEF Block
<1>5. ImagePages(imgs) \subseteq Nat
  <2>1. \A b \in imgs : MaskBits(b.base, b.pages) \subseteq Nat
    <3> SUFFICES ASSUME NEW b \in imgs PROVE MaskBits(b.base, b.pages) \subseteq Nat
      OBVIOUS
    <3>1. b.base \in Nat /\ b.pages \in Nat
      BY MemoryMapAssumption
    <3>2. MaskBits(b.base, b.pages) = Block(b.base, b.pages)
      BY <3>1, MaskBitsIsBlock
    <3> QED
      BY <3>1, <3>2 DEF Block
  <2> QED
    BY <2>1 DEF ImagePages
<1>6. InRange \subseteq Nat
  BY AllocatorAssumption DEF InRange
<1>7. InitialBitmap(WithoutBitmap(m, i), imgs) \subseteq Nat
  BY <1>4, <1>5, <1>6 DEF InitialBitmap
<1>8. TypeOK
  <2>1. used \subseteq Nat
    BY <1>2, <1>3, <1>7
  <2>2. current_entry \in 0 .. bitmap_entries
    BY <1>2, EntriesType
  <2> QED
    BY <1>2, <2>1, <2>2 DEF TypeOK
<1>9. BitmapExact
  BY <1>2, <1>3 DEF BitmapExact, CoveredBy
<1>10. BootSound
  BY InitBootSound
<1> QED
  BY <1>2, <1>8, <1>9, <1>10
     DEF IInv, InitialInRange, NoDoubleAllocation, HeldWasFree, CoveredBy

(* Membership in CoveredBy, the form the steps below use. *)
LEMMA CoveredMember ==
    \A L, x : x \in CoveredBy(L) <=> \E b \in L : x \in Pages(b)
  BY DEF CoveredBy

(* Handing out pages whose bits are 0 and setting them keeps the invariant. *)
LEMMA GrantKeeps ==
    ASSUME IInv, NEW p \in Nat, NEW n \in Nat \ {0},
           IsFree(used, p, n),
           used' = used \cup Block(p, n),
           current_entry' \in 0 .. bitmap_entries,
           live' = live \cup {[base |-> p, pages |-> n]},
           boot' = boot
    PROVE  IInv'
<1> DEFINE new == [base |-> p, pages |-> n]
<1>1. Pages(new) = Block(p, n)
  BY DEF Pages
<1>2. Block(p, n) \subseteq Nat
  BY DEF Block
<1>3. CoveredBy(live') = CoveredBy(live) \cup Block(p, n)
  BY <1>1, CoveredMember
<1>4. TypeOK'
  <2>1. new \in [base : Nat, pages : Nat] /\ new.base = p /\ new.pages = n
    OBVIOUS
  <2>2. used' \subseteq Nat
    BY <1>2 DEF IInv, TypeOK
  <2>3. current_entry' \in 0 .. bitmap_entries'
    BY DEF bitmap_entries
  <2>4. /\ live' \subseteq [base : Nat, pages : Nat]
        /\ \A b \in live' : b.base \in Nat /\ b.pages \in Nat \ {0}
    BY <2>1 DEF IInv, TypeOK
  <2> QED
    BY <2>2, <2>3, <2>4 DEF TypeOK
<1>5. BitmapExact'
  BY <1>3 DEF IInv, BitmapExact, InRange
<1>6. HeldWasFree'
  <2>1. Block(p, n) \cap boot.initial = {}
    BY DEF IInv, IsFree, BitmapExact
  <2> QED
    BY <1>3, <2>1 DEF IInv, HeldWasFree
<1>7. NoDoubleAllocation'
  <2>1. \A b \in live : Pages(b) \cap Pages(new) \cap InRange = {}
    BY <1>1, CoveredMember DEF IInv, IsFree, BitmapExact
  <2> QED
    BY <2>1 DEF IInv, NoDoubleAllocation, InRange, Pages
<1> QED
  BY <1>4, <1>5, <1>6, <1>7 DEF IInv, InitialInRange, BootSound, InRange

(* The owner keeps what it does not give back, and nothing else. *)
LEMMA RestPages ==
    ASSUME NEW b \in [base : Nat, pages : Nat], NEW p \in Nat, NEW n \in Nat \ {0},
           p >= b.base, p + n <= b.base + b.pages
    PROVE  /\ CoveredBy(Rest(b, p, n)) = Pages(b) \ Block(p, n)
           /\ \A r \in Rest(b, p, n) : r.base \in Nat /\ r.pages \in Nat \ {0}
           /\ Rest(b, p, n) \subseteq [base : Nat, pages : Nat]
           /\ \A r, s \in Rest(b, p, n) : r # s => Pages(r) \cap Pages(s) = {}
<1> DEFINE lo == [base |-> b.base, pages |-> p - b.base]
           hi == [base |-> p + n, pages |-> b.base + b.pages - (p + n)]
<1>1. \A r \in Rest(b, p, n) : (r = lo \/ r = hi) /\ r.pages > 0
  BY DEF Rest
<1>2. (lo.pages > 0 => lo \in Rest(b, p, n)) /\ (hi.pages > 0 => hi \in Rest(b, p, n))
  BY DEF Rest
<1>3. /\ Pages(lo) = b.base .. (p - 1)
      /\ Pages(hi) = (p + n) .. (b.base + b.pages - 1)
  BY DEF Pages, Block
<1>4. lo \in [base : Nat, pages : Nat] /\ hi \in [base : Nat, pages : Nat]
  OBVIOUS
<1>5. Pages(b) \ Block(p, n) = Pages(lo) \cup Pages(hi)
  BY <1>3 DEF Pages, Block
<1>6. (lo.pages = 0 => Pages(lo) = {}) /\ (hi.pages = 0 => Pages(hi) = {})
  BY <1>3
<1>7. Pages(lo) \cap Pages(hi) = {}
  BY <1>3
<1> HIDE DEF lo, hi
<1>8. CoveredBy(Rest(b, p, n)) = Pages(lo) \cup Pages(hi)
  <2>1. (lo.pages > 0 \/ lo.pages = 0) /\ (hi.pages > 0 \/ hi.pages = 0)
    BY <1>4
  <2> QED
    BY <1>1, <1>2, <1>6, <2>1, CoveredMember
<1> QED
  BY <1>1, <1>4, <1>5, <1>7, <1>8

(* free: clearing the bits of a block that its owner gives back, in whole  *)
(* or in part, keeps the invariant.                                        *)
LEMMA FreeKeeps ==
    ASSUME IInv, NEW b \in live, NEW p \in Pages(b), NEW n \in 1 .. b.pages,
           Free(b, p, n)
    PROVE  IInv'
<1>1. b \in [base : Nat, pages : Nat]
  BY DEF IInv, TypeOK
<1>2. p \in Nat /\ n \in Nat \ {0} /\ p >= b.base /\ p + n <= b.base + b.pages
  BY <1>1 DEF Free, Pages, Block
<1>3. p + n <= MaxPage
  BY DEF Free, FreeAccepts
<1>4. /\ used' = used \ Block(p, n)
      /\ live' = (live \ {b}) \cup Rest(b, p, n)
      /\ current_entry' = current_entry /\ boot' = boot
  BY <1>2, MaskBitsIsBlock DEF Free, SetZero
<1>5. Block(p, n) \subseteq Pages(b) /\ Block(p, n) \subseteq InRange
  BY <1>1, <1>2, <1>3, AllocatorAssumption DEF Pages, Block, InRange
<1>6. /\ CoveredBy(Rest(b, p, n)) = Pages(b) \ Block(p, n)
      /\ \A r \in Rest(b, p, n) : r.base \in Nat /\ r.pages \in Nat \ {0}
      /\ Rest(b, p, n) \subseteq [base : Nat, pages : Nat]
      /\ \A r, s \in Rest(b, p, n) : r # s => Pages(r) \cap Pages(s) = {}
  BY <1>1, <1>2, RestPages
<1>7. \A c \in live \ {b} : Pages(c) \cap Pages(b) \cap InRange = {}
  BY DEF IInv, NoDoubleAllocation
<1>8. \A r \in Rest(b, p, n) : Pages(r) \subseteq Pages(b)
  BY <1>6, CoveredMember
<1>9. CoveredBy(live') = CoveredBy(live) \ Block(p, n)
  <2>1. \A c \in live \ {b} : Pages(c) \cap Block(p, n) = {}
    BY <1>5, <1>7
  <2> QED
    BY <1>4, <1>6, <2>1, CoveredMember
<1>10. TypeOK'
  BY <1>4, <1>6 DEF IInv, TypeOK, bitmap_entries
<1>11. BitmapExact'
  <2>1. Block(p, n) \cap boot.initial = {}
    BY <1>5, CoveredMember DEF IInv, HeldWasFree
  <2> QED
    BY <1>4, <1>9, <2>1 DEF IInv, BitmapExact, InRange
<1>12. NoDoubleAllocation'
  BY <1>4, <1>6, <1>7, <1>8 DEF IInv, NoDoubleAllocation, InRange, Pages
<1>13. HeldWasFree' /\ InitialInRange' /\ BootSound'
  BY <1>4, <1>9 DEF IInv, HeldWasFree, InitialInRange, BootSound, InRange
<1> QED
  BY <1>10, <1>11, <1>12, <1>13 DEF IInv

(* One step per operation of the allocator. *)
LEMMA NextKeeps == IInv /\ [Next]_vars => IInv'
<1> SUFFICES ASSUME IInv, [Next]_vars PROVE IInv'
  OBVIOUS
<1>1. ASSUME UNCHANGED vars PROVE IInv'
  BY <1>1 DEF vars, IInv, TypeOK, InitialInRange, BootSound, BitmapExact,
     NoDoubleAllocation, HeldWasFree, bitmap_entries, InRange, CoveredBy, Pages
<1>2. ASSUME NEW n \in Sizes, AllocSmall(n) PROVE IInv'
  <2>1. PICK c \in 0 .. bitmap_entries, p \in Candidates(bitmap_entries) :
           /\ AllocatesSmall(used, bitmap_entries, current_entry, n, p, c)
           /\ used' = used \cup Block(p, n)
           /\ current_entry' = c
           /\ live' = live \cup {[base |-> p, pages |-> n]}
           /\ boot' = boot
    BY <1>2 DEF AllocSmall
  <2>2. p \in Nat
    BY DEF Candidates
  <2>3. n \in Nat \ {0} /\ IsFree(used, p, n)
    BY <2>1, <2>2, SmallIsFree, EntriesType DEF IInv, TypeOK
  <2> QED
    BY <2>1, <2>2, <2>3, GrantKeeps
<1>3. ASSUME NEW n \in Sizes, AllocLarge(n) PROVE IInv'
  <2>1. PICK p \in Candidates(bitmap_entries) :
           /\ AllocatesLarge(used, bitmap_entries, n, p)
           /\ used' = SetOne(used, p, n)
           /\ live' = live \cup {[base |-> p, pages |-> n]}
           /\ UNCHANGED <<current_entry, boot>>
    BY <1>3 DEF AllocLarge
  <2>2. p \in Nat /\ n \in Nat
    BY AllocatorAssumption DEF Candidates
  <2>3. n \in Nat \ {0} /\ IsFree(used, p, n)
    BY <2>1, <2>2, LargeIsFree, EntriesType
  <2>4. used' = used \cup Block(p, n)
    BY <2>1, <2>2, MaskBitsIsBlock DEF SetOne
  <2> QED
    BY <2>1, <2>2, <2>3, <2>4, GrantKeeps DEF IInv, TypeOK
<1>4. ASSUME NEW n \in Sizes, AllocFails(n) PROVE IInv'
  BY <1>4, <1>1 DEF AllocFails
<1>5. ASSUME NEW b \in live, NEW p \in Pages(b), NEW n \in 1 .. b.pages,
             Free(b, p, n)
      PROVE  IInv'
  BY <1>5, FreeKeeps
<1>6. ASSUME NEW b \in live, FreeRefused(b) PROVE IInv'
  BY <1>6, <1>1 DEF FreeRefused
<1>7. ASSUME NEW s \in SUBSET SlackBits, SlackWrite(s) PROVE IInv'
  <2>1. s \subseteq Nat /\ s \cap InRange = {}
    BY AllocatorAssumption DEF InRange
  <2>2. /\ used' = (used \cap InRange) \cup s
        /\ UNCHANGED <<current_entry, live, boot>>
    BY <1>7 DEF SlackWrite
  <2>3. TypeOK'
    BY <2>1, <2>2 DEF IInv, TypeOK, bitmap_entries
  <2>4. BitmapExact'
    BY <2>1, <2>2 DEF IInv, BitmapExact, InRange, CoveredBy, Pages
  <2> QED
    BY <2>2, <2>3, <2>4 DEF IInv, InitialInRange, BootSound, NoDoubleAllocation,
       HeldWasFree, InRange, CoveredBy, Pages
<1> QED
  BY <1>1, <1>2, <1>3, <1>4, <1>5, <1>6, <1>7 DEF Next

(* The inductive invariant holds in every reachable state. *)
LEMMA Invariance == Spec => []IInv
<1>1. Init => IInv
  BY InitEstablishes
<1>2. IInv /\ [Next]_vars => IInv'
  BY NextKeeps
<1> QED
  BY <1>1, <1>2, PTL DEF Spec

(* The fields of the allocator keep their types through every mix of alloc *)
(* and free: current_entry stays a word of the bitmap or the one after it. *)
THEOREM TypeCorrect == Spec => []TypeOK
<1>1. IInv => TypeOK
  BY DEF IInv
<1> QED
  BY <1>1, Invariance, PTL

(* alloc never gives a page of the managed range to two callers. *)
THEOREM NoPageTwice == Spec => []NoDoubleAllocation
<1>1. IInv => NoDoubleAllocation
  BY DEF IInv
<1> QED
  BY <1>1, Invariance, PTL

(* set_one and set_zero keep the bitmap equal to what callers hold. *)
THEOREM BitmapIsExact == Spec => []BitmapExact
<1>1. IInv => BitmapExact
  BY DEF IInv
<1> QED
  BY <1>1, Invariance, PTL

(* Callers only get memory that was free when Allocator::new ran. *)
THEOREM GrantsFreeMemory == Spec => []OnlyFreeMemory
<1>1. IInv => OnlyFreeMemory
  BY DEF IInv, OnlyFreeMemory, HeldWasFree, BootSound
<1> QED
  BY <1>1, Invariance, PTL

-----------------------------------------------------------------------------
(* An allocator made from an allocator.                                    *)

MemBlock == [base : Nat, pages : Nat \ {0}]

(* The block of the parent that a real child manages. *)
Managed == [base |-> child.addend, pages |-> child.pages]

ChildShape ==
    /\ child \in [kind : {"none", "real", "fake", "panic"}, addend : Nat, pages : Nat,
                  bitmap : Nat]
    /\ HasChild => child_entry \in 0 .. ChildEntries
    /\ child_live \subseteq MemBlock

ChildDisjoint == \A c, d \in child_live : c # d => Pages(c) \cap Pages(d) = {}

(* The parent still counts the child's pages as handed out. *)
Reserved == child.kind = "real" => Managed \in live

(* The inductive invariant of parent and child. *)
TreeInv == IInv /\ ChildShape /\ ChildDisjoint /\ ChildBitmapExact /\ Reserved

-----------------------------------------------------------------------------
(* The bitmap of a child has a number of words, and of pages. *)
LEMMA SizesNeeded ==
    ASSUME NEW n \in Nat
    PROVE  EntriesNeeded(n) \in Nat /\ BitmapPagesNeeded(n) \in Nat
<1>1. EntriesNeeded(n) \in Nat
  BY DivMod DEF EntriesNeeded
<1>2. ASSUME NEW a \in Nat PROVE a \div WordsPerPage \in Nat
  BY SubdivideAssumption
<1> HIDE DEF EntriesNeeded
<1> QED
  BY <1>1, <1>2 DEF BitmapPagesNeeded

(* Either search returns pages whose bits are 0. *)
LEMMA AllocatesFree ==
    ASSUME NEW u, NEW entries \in Nat, NEW cur \in 0 .. entries, NEW n \in Nat,
           NEW p \in Candidates(entries), NEW c, Allocates(u, entries, cur, n, p, c)
    PROVE  /\ p \in Nat /\ n \in Nat \ {0} /\ c \in 0 .. entries
           /\ IsFree(u, p, n) /\ SetOne(u, p, n) = u \cup Block(p, n)
<1>1. p \in Nat
  BY DEF Candidates
<1>2. n \in Nat \ {0} /\ c \in 0 .. entries /\ IsFree(u, p, n)
  BY <1>1, SmallIsFree, LargeIsFree DEF Allocates
<1> QED
  BY <1>1, <1>2, MaskBitsIsBlock DEF SetOne

(* Handing out several disjoint free blocks in one step keeps the parent's *)
(* invariant.                                                              *)
LEMMA GrantsKeep ==
    ASSUME IInv, NEW G \in SUBSET MemBlock,
           \A g \in G : Pages(g) \cap used = {},
           \A g, h \in G : g # h => Pages(g) \cap Pages(h) = {},
           used' = used \cup CoveredBy(G),
           current_entry' \in 0 .. bitmap_entries,
           live' = live \cup G,
           boot' = boot
    PROVE  IInv'
<1>1. CoveredBy(live') = CoveredBy(live) \cup CoveredBy(G)
  BY CoveredMember
<1>2. CoveredBy(G) \subseteq Nat
  <2>1. \A g \in G : Pages(g) \subseteq Nat
    BY DEF MemBlock, Pages, Block
  <2> QED
    BY <2>1, CoveredMember
<1>3. TypeOK'
  BY <1>2 DEF IInv, TypeOK, bitmap_entries, MemBlock
<1>4. BitmapExact'
  BY <1>1 DEF IInv, BitmapExact, InRange
<1>5. HeldWasFree'
  <2>1. CoveredBy(G) \cap boot.initial = {}
    BY CoveredMember DEF IInv, BitmapExact
  <2> QED
    BY <1>1, <2>1 DEF IInv, HeldWasFree
<1>6. NoDoubleAllocation'
  <2>1. \A b \in live, g \in G : Pages(b) \cap Pages(g) \cap InRange = {}
    BY CoveredMember DEF IInv, BitmapExact
  <2> QED
    BY <2>1 DEF IInv, NoDoubleAllocation, InRange, Pages
<1> QED
  BY <1>3, <1>4, <1>5, <1>6 DEF IInv, InitialInRange, BootSound, InRange

(* A child starts without blocks. *)
LEMMA NewChildShape ==
    ASSUME NEW kind \in {"real", "fake"}, NEW addend \in Nat, NEW n \in Nat, NEW b \in Nat,
           NewChild(kind, addend, n, b)
    PROVE  ChildShape' /\ ChildDisjoint' /\ ChildBitmapExact'
<1>1. EntriesNeeded(n) \in Nat
  BY SizesNeeded
<1>2. child' = [kind |-> kind, addend |-> addend, pages |-> n, bitmap |-> b]
      /\ child_used' = {} /\ child_entry' = 0 /\ child_live' = {}
  BY DEF NewChild
<1>3. ChildEntries' = EntriesNeeded(n)
  BY <1>2 DEF ChildEntries, EntriesNeeded
<1> QED
  BY <1>1, <1>2, <1>3
     DEF ChildShape, ChildDisjoint, ChildBitmapExact, CoveredBy

-----------------------------------------------------------------------------
(* subdivide: the bitmap's pages and the child's pages become blocks of    *)
(* the parent that overlap nothing, each other included.                   *)
LEMMA SubdivideKeeps ==
    ASSUME TreeInv, NEW n \in SubSizes, SubdivideAlloc(n)
    PROVE  TreeInv'
<1> DEFINE b == BitmapPagesNeeded(n)
<1>1. PICK p \in Candidates(bitmap_entries), c \in 0 .. bitmap_entries,
           q \in Candidates(bitmap_entries), d \in 0 .. bitmap_entries :
         /\ Allocates(used, bitmap_entries, current_entry, b, p, c)
         /\ Allocates(SetOne(used, p, b), bitmap_entries, c, n, q, d)
         /\ used' = SetOne(SetOne(used, p, b), q, n)
         /\ current_entry' = d
         /\ live' = live \cup {[base |-> p, pages |-> b], [base |-> q, pages |-> n]}
         /\ NewChild("real", q, n, p)
         /\ boot' = boot
  BY DEF SubdivideAlloc
<1>2. n \in Nat /\ b \in Nat /\ bitmap_entries \in Nat /\ current_entry \in 0 .. bitmap_entries
  BY SizesNeeded, EntriesType, SubdivideAssumption DEF TreeInv, IInv, TypeOK
<1> HIDE DEF b
<1>3. /\ p \in Nat /\ b \in Nat \ {0} /\ IsFree(used, p, b)
      /\ SetOne(used, p, b) = used \cup Block(p, b)
  BY <1>1, <1>2, AllocatesFree
<1>4. /\ q \in Nat /\ n \in Nat \ {0} /\ IsFree(SetOne(used, p, b), q, n)
      /\ used' = SetOne(used, p, b) \cup Block(q, n)
  BY <1>1, <1>2, AllocatesFree
<1> DEFINE B == [base |-> p, pages |-> b]
           M == [base |-> q, pages |-> n]
<1>5. B \in MemBlock /\ M \in MemBlock /\ Pages(B) = Block(p, b) /\ Pages(M) = Block(q, n)
  BY <1>3, <1>4 DEF MemBlock, Pages
<1>6. live' = live \cup {B, M}
  BY <1>1
<1> HIDE DEF B, M
<1>7. CoveredBy({B, M}) = Pages(B) \cup Pages(M)
  BY CoveredMember
<1>8. /\ used' = used \cup CoveredBy({B, M})
      /\ \A g \in {B, M} : Pages(g) \cap used = {}
      /\ \A g, h \in {B, M} : g # h => Pages(g) \cap Pages(h) = {}
  BY <1>3, <1>4, <1>5, <1>7 DEF IsFree
<1>9. IInv'
  BY <1>1, <1>5, <1>6, <1>8, GrantsKeep DEF TreeInv
<1>10. ChildShape' /\ ChildDisjoint' /\ ChildBitmapExact'
  BY <1>1, <1>3, <1>4, NewChildShape
<1>11. Reserved'
  BY <1>1, <1>6 DEF Reserved, Managed, NewChild, M
<1> QED
  BY <1>9, <1>10, <1>11 DEF TreeInv

(* One block taken from the parent for the bitmap of a child. *)
LEMMA BitmapGrantKeeps ==
    ASSUME IInv, NEW n \in SubSizes,
           NEW p \in Candidates(bitmap_entries), NEW c \in 0 .. bitmap_entries,
           Allocates(used, bitmap_entries, current_entry, BitmapPagesNeeded(n), p, c),
           used' = SetOne(used, p, BitmapPagesNeeded(n)), current_entry' = c,
           live' = live \cup {[base |-> p, pages |-> BitmapPagesNeeded(n)]}, boot' = boot
    PROVE  IInv' /\ p \in Nat
<1>1. /\ BitmapPagesNeeded(n) \in Nat /\ bitmap_entries \in Nat
      /\ current_entry \in 0 .. bitmap_entries
  BY SizesNeeded, EntriesType, SubdivideAssumption DEF IInv, TypeOK
<1>2. /\ p \in Nat /\ BitmapPagesNeeded(n) \in Nat \ {0}
      /\ IsFree(used, p, BitmapPagesNeeded(n))
      /\ used' = used \cup Block(p, BitmapPagesNeeded(n))
  BY <1>1, AllocatesFree
<1> QED
  BY <1>2, GrantKeeps

LEMMA NewFakeKeeps ==
    ASSUME TreeInv, NEW n \in SubSizes, NewFake(n)
    PROVE  TreeInv'
<1>1. PICK p \in Candidates(bitmap_entries), c \in 0 .. bitmap_entries :
         /\ Allocates(used, bitmap_entries, current_entry, BitmapPagesNeeded(n), p, c)
         /\ used' = SetOne(used, p, BitmapPagesNeeded(n)) /\ current_entry' = c
         /\ live' = live \cup {[base |-> p, pages |-> BitmapPagesNeeded(n)]}
         /\ NewChild("fake", FakeBase, n, p) /\ boot' = boot
  BY DEF NewFake
<1>2. IInv' /\ p \in Nat
  BY <1>1, BitmapGrantKeeps DEF TreeInv
<1>3. ChildShape' /\ ChildDisjoint' /\ ChildBitmapExact'
  BY <1>1, <1>2, NewChildShape, SubdivideAssumption
<1>4. Reserved'
  BY <1>1 DEF Reserved, NewChild
<1> QED
  BY <1>2, <1>3, <1>4 DEF TreeInv

LEMMA PanicKeeps ==
    ASSUME TreeInv, NEW n \in SubSizes, SubdividePanics(n)
    PROVE  TreeInv'
<1>1. /\ boot' = boot /\ child' = [NoChild EXCEPT !.kind = "panic"] /\ child = NoChild
      /\ UNCHANGED <<child_used, child_entry, child_live>>
  BY DEF SubdividePanics
<1>2. ASSUME UNCHANGED <<used, current_entry, live>> PROVE IInv'
  BY <1>1, <1>2, NextKeeps DEF vars, TreeInv
<1>3. ASSUME ~UNCHANGED <<used, current_entry, live>> PROVE IInv'
  <2>1. PICK p \in Candidates(bitmap_entries), c \in 0 .. bitmap_entries :
           /\ Allocates(used, bitmap_entries, current_entry, BitmapPagesNeeded(n), p, c)
           /\ used' = SetOne(used, p, BitmapPagesNeeded(n)) /\ current_entry' = c
           /\ live' = live \cup {[base |-> p, pages |-> BitmapPagesNeeded(n)]}
    BY <1>3 DEF SubdividePanics
  <2> QED
    BY <1>1, <2>1, BitmapGrantKeeps DEF TreeInv
<1>4. IInv'
  BY <1>2, <1>3
<1>5. ChildShape' /\ ChildDisjoint' /\ ChildBitmapExact' /\ Reserved'
  BY <1>1 DEF TreeInv, ChildShape, HasChild, NoChild, ChildDisjoint, ChildBitmapExact, Reserved,
     CoveredBy, Pages
<1> QED
  BY <1>4, <1>5 DEF TreeInv

-----------------------------------------------------------------------------
(* alloc on the child. *)
LEMMA ChildAllocKeeps ==
    ASSUME TreeInv, NEW n \in Sizes, ChildAlloc(n)
    PROVE  TreeInv'
<1>1. PICK p \in Candidates(ChildEntries), c \in 0 .. ChildEntries :
         /\ Allocates(child_used, ChildEntries, child_entry, n, p, c)
         /\ child_used' = SetOne(child_used, p, n) /\ child_entry' = c
         /\ child_live' = child_live \cup {[base |-> p, pages |-> n]}
  BY DEF ChildAlloc
<1>2. HasChild /\ UNCHANGED <<vars, child>> /\ n \in Nat
  BY AllocatorAssumption DEF ChildAlloc
<1>3. ChildEntries \in Nat /\ child_entry \in 0 .. ChildEntries
  BY <1>2, SizesNeeded DEF TreeInv, ChildShape, ChildEntries
<1>4. /\ p \in Nat /\ n \in Nat \ {0} /\ c \in 0 .. ChildEntries
      /\ IsFree(child_used, p, n) /\ child_used' = child_used \cup Block(p, n)
  BY <1>1, <1>2, <1>3, AllocatesFree
<1> DEFINE new == [base |-> p, pages |-> n]
<1>5. new \in MemBlock /\ Pages(new) = Block(p, n) /\ child_live' = child_live \cup {new}
  BY <1>1, <1>4 DEF MemBlock, Pages
<1> HIDE DEF new
<1>6. ChildShape'
  BY <1>1, <1>2, <1>4, <1>5 DEF TreeInv, ChildShape, HasChild, ChildEntries
<1>7. ChildBitmapExact'
  <2>1. CoveredBy(child_live') = CoveredBy(child_live) \cup Pages(new)
    BY <1>5, CoveredMember
  <2> QED
    BY <1>4, <1>5, <2>1 DEF TreeInv, ChildBitmapExact
<1>8. ChildDisjoint'
  <2>1. \A d \in child_live : Pages(d) \cap Pages(new) = {}
    BY <1>4, <1>5, CoveredMember DEF TreeInv, ChildBitmapExact, IsFree
  <2> QED
    BY <1>5, <2>1 DEF TreeInv, ChildDisjoint, Pages
<1>9. IInv' /\ Reserved'
  BY <1>2, NextKeeps DEF TreeInv, vars, Reserved, Managed
<1> QED
  BY <1>6, <1>7, <1>8, <1>9 DEF TreeInv

(* free on the child clears the bits of that block and of no other. *)
LEMMA ChildFreeKeeps ==
    ASSUME TreeInv, NEW b \in child_live, ChildFree(b)
    PROVE  TreeInv'
<1>1. b \in MemBlock /\ UNCHANGED <<vars, child, child_entry>>
      /\ child_live' = child_live \ {b}
  BY DEF TreeInv, ChildShape, ChildFree
<1>2. child_used' = child_used \ Pages(b)
  BY <1>1, MaskBitsIsBlock DEF ChildFree, SetZero, Pages, MemBlock
<1>3. ChildShape' /\ ChildDisjoint'
  BY <1>1 DEF TreeInv, ChildShape, ChildDisjoint, HasChild, ChildEntries, Pages
<1>4. ChildBitmapExact'
  <2>1. CoveredBy(child_live \ {b}) = CoveredBy(child_live) \ Pages(b)
    BY CoveredMember DEF TreeInv, ChildDisjoint
  <2> QED
    BY <1>1, <1>2, <2>1 DEF TreeInv, ChildBitmapExact
<1>5. IInv' /\ Reserved'
  BY <1>1, NextKeeps DEF TreeInv, vars, Reserved, Managed
<1> QED
  BY <1>3, <1>4, <1>5 DEF TreeInv

(* The parent goes on with its own blocks. *)
LEMMA ParentKeeps ==
    ASSUME TreeInv, Next, Managed \in live => Managed \in live', UNCHANGED childVars
    PROVE  TreeInv'
<1>1. IInv'
  BY NextKeeps DEF TreeInv
<1>2. ChildShape' /\ ChildDisjoint' /\ ChildBitmapExact' /\ Reserved'
  BY DEF childVars, TreeInv, ChildShape, HasChild, ChildEntries, EntriesNeeded, ChildDisjoint,
     ChildBitmapExact, Reserved, Managed, CoveredBy, Pages
<1> QED
  BY <1>1, <1>2 DEF TreeInv

LEMMA TreeNextKeeps == TreeInv /\ [NextTree]_allVars => TreeInv'
<1> SUFFICES ASSUME TreeInv, [NextTree]_allVars PROVE TreeInv'
  OBVIOUS
<1>1. ASSUME NEW n \in Sizes, Cardinality(live) < MaxLive,
             AllocSmall(n) \/ AllocLarge(n) \/ AllocFails(n), UNCHANGED childVars
      PROVE  TreeInv'
  <2>1. Next
    BY <1>1 DEF Next
  <2>2. Managed \in live => Managed \in live'
    BY <1>1 DEF AllocSmall, AllocLarge, AllocFails, vars
  <2> QED
    BY <1>1, <2>1, <2>2, ParentKeeps
<1>2. ASSUME NEW b \in live, ~OwnedByChild(b), Free(b, b.base, b.pages), UNCHANGED childVars
      PROVE  TreeInv'
  <2>1. b.base \in Nat /\ b.pages \in Nat \ {0}
    BY DEF TreeInv, IInv, TypeOK
  <2>2. b.base \in Pages(b) /\ b.pages \in 1 .. b.pages
    BY <2>1 DEF Pages, Block
  <2>3. Next
    BY <1>2, <2>2 DEF Next
  <2>4. b # Managed
    BY <1>2 DEF OwnedByChild, Managed
  <2>5. Managed \in live => Managed \in live'
    BY <1>2, <2>4 DEF Free
  <2> QED
    BY <1>2, <2>3, <2>5, ParentKeeps
<1>3. ASSUME UNCHANGED allVars PROVE TreeInv'
  <2>1. UNCHANGED vars /\ UNCHANGED childVars
    BY <1>3 DEF allVars, vars
  <2>2. IInv'
    BY <2>1, NextKeeps DEF TreeInv
  <2>3. ChildShape' /\ ChildDisjoint' /\ ChildBitmapExact' /\ Reserved'
    BY <2>1 DEF childVars, vars, TreeInv, ChildShape, HasChild, ChildEntries, EntriesNeeded,
       ChildDisjoint, ChildBitmapExact, Reserved, Managed, CoveredBy, Pages
  <2> QED
    BY <2>2, <2>3 DEF TreeInv
<1>4. ASSUME NEW n \in SubSizes, SubdivideAlloc(n) \/ NewFake(n) \/ SubdividePanics(n)
      PROVE  TreeInv'
  BY <1>4, SubdivideKeeps, NewFakeKeeps, PanicKeeps
<1>5. ASSUME NEW n \in Sizes, ChildAlloc(n) \/ ChildAllocFails(n) PROVE TreeInv'
  BY <1>5, <1>3, ChildAllocKeeps DEF ChildAllocFails
<1>6. ASSUME NEW b \in child_live, ChildFree(b) PROVE TreeInv'
  BY <1>6, ChildFreeKeeps
<1> QED
  BY <1>1, <1>2, <1>3, <1>4, <1>5, <1>6 DEF NextTree

LEMMA TreeInvariance == SpecTree => []TreeInv
<1>1. InitTree => TreeInv
  BY InitEstablishes DEF InitTree, NoChild, TreeInv, ChildShape, HasChild, ChildDisjoint,
     ChildBitmapExact, Reserved, CoveredBy
<1>2. TreeInv /\ [NextTree]_allVars => TreeInv'
  BY TreeNextKeeps
<1> QED
  BY <1>1, <1>2, PTL DEF SpecTree

-----------------------------------------------------------------------------
(* subdivide: two blocks of a child never share a page, and one that ends  *)
(* in the pages the child was given shares none with another's block.      *)
THEOREM ChildrenDisjoint == SpecTree => []ChildBlocksDisjoint
<1>1. ASSUME TreeInv PROVE ChildBlocksDisjoint
  <2>1. child.addend \in Nat /\ child.pages \in Nat /\ child_live \subseteq MemBlock
    BY <1>1 DEF TreeInv, ChildShape
  <2>2. ASSUME NEW c \in child_live, NEW d \in child_live, c # d
        PROVE  ChildPages(c) \cap ChildPages(d) = {}
    <3>1. Pages(c) \cap Pages(d) = {}
      BY <1>1, <2>2 DEF TreeInv, ChildDisjoint
    <3>2. /\ c.base \in Nat /\ c.pages \in Nat /\ d.base \in Nat /\ d.pages \in Nat
      BY <2>1 DEF MemBlock
    <3>3. ASSUME NEW x \in ChildPages(c), x \in ChildPages(d)
          PROVE  FALSE
      <4>1. x - child.addend \in Pages(c) /\ x - child.addend \in Pages(d)
        BY <2>1, <3>2, <3>3 DEF ChildPages, Pages, Block
      <4> QED
        BY <3>1, <4>1
    <3> QED
      BY <3>3
  <2>3. ASSUME child.kind = "real", NEW c \in child_live, NEW b \in live,
               c.base + c.pages <= child.pages, b.base # child.addend
        PROVE  ChildPages(c) \cap Pages(b) \cap InRange = {}
    <3>1. ChildPages(c) \subseteq Pages(Managed)
      BY <2>1, <2>3 DEF MemBlock, ChildPages, Pages, Block, Managed
    <3>2. Managed \in live /\ Managed # b
      BY <1>1, <2>3 DEF TreeInv, Reserved, Managed
    <3> QED
      BY <1>1, <3>1, <3>2 DEF TreeInv, IInv, NoDoubleAllocation
  <2> QED
    BY <2>2, <2>3 DEF ChildBlocksDisjoint
<1> QED
  BY <1>1, TreeInvariance, PTL

(* The child's bitmap stays exactly its live blocks. *)
THEOREM ChildBitmapIsExact == SpecTree => []ChildBitmapExact
<1>1. TreeInv => ChildBitmapExact
  BY DEF TreeInv
<1> QED
  BY <1>1, TreeInvariance, PTL
=============================================================================
