------------------------------ MODULE MCMemory -------------------------------
(***************************************************************************)
(* Memory for TLC: an allocator with a child (Subdivide), the pager of a   *)
(* core (Pager), and the directories of the file system in the spans of    *)
(* their node allocators (DirectoryHashmap).  A behaviour is one of the    *)
(* part that is chosen first; the others do not move.                      *)
(***************************************************************************)
EXTENDS MCSubdivide

CONSTANTS
  Fan, Top, Hosts, Guests, Frames, DataFrames, Mapped, Flags, BigSections,
  NBuckets, NEntries, Start, MaximumEntries, MapSizes, MaxMaps, Names, Links,
  StringSlots

VARIABLES
  which,                    \* of the three
  mem, taken, cr3,          \* of Pager
  bucketNodes, entryNodes, buckets, entries, maps, strings, running, inserted
                            \* of DirectoryHashmap

\* With two buckets, three names of one byte go to each; the other name has more
\* than 32 bytes.
MCNames == {<<b>> : b \in 1..6} \cup {[i \in 1..33 |-> 1]}

P == INSTANCE Pager
D == INSTANCE DirectoryHashmap

ASSUME MemoryAssumption == D!DirectoryAssumption

ASSUME PagersAssumption == P!PagerAssumption!:

pagerVars == <<mem, taken, cr3>>
directoryVars == <<bucketNodes, entryNodes, buckets, entries, maps, strings, running, inserted>>

InitMemory ==
  /\ which \in {"tree", "pager", "directories"}
  /\ InitTree /\ P!Init /\ D!Init
  /\ which /= "tree" => used = boot.initial    \* no garbage behind the bitmap

NextMemory ==
  /\ UNCHANGED which
  /\ \/ which = "tree" /\ NextTree /\ UNCHANGED <<pagerVars, directoryVars>>
     \/ which = "pager" /\ P!Next /\ UNCHANGED <<allVars, directoryVars>>
     \/ which = "directories" /\ D!Next /\ UNCHANGED <<allVars, pagerVars>>

SpecMemory == InitMemory /\ [][NextMemory]_<<which, allVars, pagerVars, directoryVars>>

(* The pages the allocator has given away are the data pages, the roots and the
   tables a pager reaches: page_4_kb, page_2_mb and bind_other leak no table,
   even when they fail half way. *)
PagerTablesExact == which = "pager" => P!TablesExact

(* The page tables behave like a function from addresses to frames and flags
   (AddressSpace), whatever tables the pager adds on the way. *)
PagerImplementsAddressSpace == P!ImplementsAddressSpace

(* lookup finds every name that was entered, with the link it was entered with,
   and for_each lists it once and no other, whatever buckets of this and of other
   directories have grown since. *)
DirectoryNamesKept == which = "directories" => D!LookupFinds /\ D!ListedOnce

(* num_entries_used, which a rehash takes for the size of the entries, is the
   number of slots the buckets have. *)
DirectorySlotsCounted == which = "directories" => D!SlotsCounted

(* What free_offset is given lies behind a free node: the assertions
   "assert_ne!(reserving_node_index, 0)" and "assert_eq!(prev_node.is_freeing(),
   true)" of utils/allocators.rs. *)
DirectoryAssertionsHold == which = "directories" => D!AssertionsHold
=============================================================================
