----------------------------- MODULE AddressSpace -----------------------------
(***************************************************************************)
(* What the pager promises, without tables: every pager maps each virtual  *)
(* page to at most one physical page, and a call changes only the pages it *)
(* names.  Pager.tla shows that the page tables of hal/memory/pager.rs     *)
(* implement this.                                                         *)
(***************************************************************************)
EXTENDS Integers

CONSTANTS
  Pagers,    \* address spaces
  Pages,     \* virtual pages
  Physical,  \* physical pages
  Large      \* virtual pages covered by one large page

Unmapped == -1

VARIABLE map    \* the physical page of each virtual page

Init == map = [x \in Pagers |-> [v \in Pages |-> Unmapped]]

(***************************************************************************)
(* The calls, as relations between an address space before and after.      *)
(***************************************************************************)
SameOutside(old, new, S) == \A v \in Pages \ S : new[v] = old[v]

Map(old, new, v) == new[v] \in Physical /\ SameOutside(old, new, {v})

Unmap(old, new, v) == new[v] = Unmapped /\ SameOutside(old, new, {v})

(* A large page: the pages of one slot become consecutive physical pages. *)
MapLarge(old, new, v) ==
    LET slot == {w \in Pages : w \div Large = v \div Large}
    IN /\ \E p \in Physical : \A w \in slot : new[w] = p + (w % Large)
       /\ SameOutside(old, new, slot)

(* Pages of another space appear, shifted; none that was there is replaced. *)
Join(old, new, other, base) ==
    \A v \in Pages :
      \/ new[v] = old[v]
      \/ /\ old[v] = Unmapped
         /\ v - base \in Pages /\ new[v] = other[v - base]

Drop(new) == \A v \in Pages : new[v] = Unmapped

(* Binding both values keeps a refinement mapping from being evaluated anew *)
(* wherever they occur.                                                     *)
Next ==
    \E before \in {map}, after \in {map'} : \E x \in Pagers :
      /\ \A y \in Pagers \ {x} : after[y] = before[y]
      /\ \/ Drop(after[x])
         \/ \E v \in Pages : \/ Map(before[x], after[x], v)
                             \/ Unmap(before[x], after[x], v)
                             \/ MapLarge(before[x], after[x], v)
         \/ \E y \in Pagers, base \in Pages : Join(before[x], after[x], before[y], base)

Spec == Init /\ [][Next]_map
=============================================================================
