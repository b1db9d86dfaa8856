------------------------------ MODULE FileRead ------------------------------
(***************************************************************************)
(* Reading a file: GfsFile::read walks the block pointers of an ext2 inode *)
(* (src/emkk/src/pfs/linux.rs) and reads every run of blocks that lie side *)
(* by side at once; NVMeDisk::read_into_buffer (drivers/disk/nvme.rs) cuts *)
(* a run into transfers, each with its list of pages (PRPs).               *)
(*                                                                         *)
(* Everything is counted in blocks of the file system: the buffer's blocks *)
(* from 1, on the disk the partition's from 0.  The buffer begins a page.  *)
(* A command's dispatch is that of Nvme; here it is one step.              *)
(***************************************************************************)
EXTENDS Integers, Sequences

CONSTANTS
  Direct,      \* direct pointers of an inode (12)
  Indirect,    \* pointers in an indirect block (block size / 4)
  PerPage,     \* blocks of a page
  PerList,     \* entries of a page of PRPs (512)
  DiskBlocks,  \* the disk's size
  Bulks,       \* maximum transfer sizes a controller may have
  Files        \* files, each the sequence of its blocks on the disk

\* Block 0 of the disk belongs to no file; a page of PRPs has more than one entry
\* besides the link.
FileAssumption ==
  /\ Direct \in Nat \ {0} /\ Indirect \in Nat \ {0}
  /\ PerPage \in Nat \ {0} /\ PerList \in Nat /\ PerList > 2
  /\ DiskBlocks \in Nat /\ Bulks \subseteq Nat \ {0}
  /\ Files \subseteq Seq(Nat \ {0}) \ {<<>>}

VARIABLES
  file,     \* the one that is read
  bulk,     \* bulk_size
  walk,     \* where the walk over the pointers is:
            \* [list, index, from (first block of the sub-buffer), base, series, offset]
  transfer, \* what is left of read_into_buffer: [lba, address, left]
  command,  \* the last command for the controller: [lba, address, length, prps]
  contents, \* the buffer: the block of the disk each of its blocks holds
  doing     \* "walk", "transfer", "dispatch", "complete", or how it stopped

vars == <<file, bulk, walk, transfer, command, contents, doing>>

Unread == -1

-----------------------------------------------------------------------------
(* construct_prp: the pages of n blocks from the address on.  p pages follow *)
(* the first one; more than fill a page of PRPs make a chain of pages, each  *)
(* with the address of the next as its last entry.                           *)
Page(a) == (a - 1) \div PerPage
Took(a) == PerPage - ((a - 1) % PerPage)

FollowingDown(n, a) == (n - Took(a)) \div PerPage  \* mutant: not rounded up
Following(n, a) == (n - Took(a) + PerPage - 1) \div PerPage

\* An entry points at a page of the buffer or at another table, or is 0.
Zero == <<"zero", 0>>
PagesFrom(n, p) == [i \in 1..PerList |-> IF i <= p THEN <<"page", n + i>> ELSE Zero]
Chained(n, k) ==
  [PagesFrom(n + (k - 1) * (PerList - 1), PerList) EXCEPT ![PerList] = <<"table", k + 1>>]

\* What is left of a chain is not written entry by entry but to one entry of
\* the page behind the tables.
ConstructPrp(n, a) ==
  IF n <= Took(a) THEN [second |-> Zero, tables |-> <<>>]
  ELSE IF n - Took(a) <= PerPage THEN [second |-> <<"page", Page(a) + 1>>, tables |-> <<>>]
  ELSE LET p == Following(n, a) IN
    [second |-> <<"table", 1>>,
     tables |->
       IF p <= PerList THEN <<PagesFrom(Page(a), p)>>
       ELSE [k \in 1..(p \div (PerList - 1)) |-> Chained(Page(a), k)]]

\* The lists that say what they should: those of one page, and chains in which
\* nothing is left.
Listed(n, a) == \/ n <= Took(a)
                \/ Following(n, a) <= PerList
                \/ Following(n, a) % (PerList - 1) = 0

\* The controller takes p pages from the lists: the last entry of a page is an
\* address of the next one if there is more than one page still to come.
Described(prps, p) ==
  IF prps.tables = <<>> THEN [i \in 1..p |-> prps.second]
  ELSE LET last == IF p <= PerList THEN 0 ELSE (p - PerList + PerList - 2) \div (PerList - 1)
           Before(i) == IF (i - 1) \div (PerList - 1) < last
                        THEN (i - 1) \div (PerList - 1) ELSE last
       IN  [i \in 1..p |-> prps.tables[Before(i) + 1][i - Before(i) * (PerList - 1)]]

-----------------------------------------------------------------------------
(* The pointers: unused ones are 0.                                          *)
Pointers(list) ==
  IF list = "direct" THEN [i \in 1..Direct |-> IF i <= Len(file) THEN file[i] ELSE 0]
  ELSE [i \in 1..Indirect |-> IF Direct + i <= Len(file) THEN file[Direct + i] ELSE 0]

Pointer == Pointers(walk.list)[walk.index]
AtEnd == walk.index > Len(Pointers(walk.list))

Start(list, from, first) ==
  [list |-> list, index |-> 1, from |-> from, base |-> first, series |-> 0, offset |-> 0]

Init ==
  /\ file \in Files /\ bulk \in Bulks
  /\ walk = Start("direct", 1, file[1])
  /\ transfer = [lba |-> 0, address |-> 1, left |-> 0]
  /\ command = [lba |-> 0, address |-> 1, length |-> 0,
                 prps |-> [second |-> Zero, tables |-> <<>>]]
  /\ contents = [i \in 1..Len(file) |-> Unread]
  /\ doing = "walk"

\* A run ends at a pointer that does not continue it, and at the last one.
RunEnds ==
  \/ walk.base + walk.series /= Pointer
  \/ walk.index = Len(Pointers(walk.list)) /\ walk.series /= 0

RunGoesOn ==
  /\ doing = "walk" /\ ~AtEnd /\ ~RunEnds
  /\ walk' = [walk EXCEPT !.index = @ + 1, !.series = @ + 1]
  /\ UNCHANGED <<file, bulk, transfer, command, contents, doing>>

\* sub_buffer and read_into_buffer: blocks that the disk does not have are an
\* error, which read unwraps.
Invalid == \/ walk.base + walk.series > DiskBlocks
           \/ walk.from + walk.offset > Len(file) + 1

ReadRun ==
  /\ doing = "walk" /\ ~AtEnd /\ RunEnds
  /\ IF Invalid THEN doing' = "panic" /\ UNCHANGED transfer
     ELSE /\ transfer' = [lba |-> walk.base, address |-> walk.from + walk.offset,
                          left |-> walk.series]
          /\ doing' = "transfer"
  /\ UNCHANGED <<file, bulk, walk, command, contents>>

FetchedWhole == bulk  \* mutant: the last transfer is as long as the others
Fetched == IF transfer.left > bulk THEN bulk ELSE transfer.left

\* One turn of the loop of read_into_buffer.
Issue ==
  /\ doing = "transfer" /\ transfer.left > 0
  /\ command' = [lba |-> transfer.lba, address |-> transfer.address, length |-> Fetched,
                 prps |-> ConstructPrp(Fetched, transfer.address)]
     \* The controller would take pages from entries nobody wrote.
  /\ doing' = IF Listed(Fetched, transfer.address) THEN "dispatch" ELSE "stray"
  /\ UNCHANGED <<file, bulk, walk, transfer, contents>>

NextLba == transfer.lba + command.length

Dispatched ==
  /\ doing = "dispatch"
  /\ contents' = [i \in DOMAIN contents |->
                    IF i \in command.address..(command.address + command.length - 1)
                    THEN command.lba + i - command.address ELSE contents[i]]
  /\ transfer' = [lba |-> NextLba, address |-> transfer.address + command.length,
                  left |-> transfer.left - command.length]
  /\ doing' = "transfer"
  /\ UNCHANGED <<file, bulk, walk, command>>

\* After a run: the next base is the sum of the old one and the pointer for
\* direct pointers.  Neither list counts the pointer as part of the next run.
NextBase == IF walk.list = "direct" THEN walk.base + Pointer ELSE Pointer

RunRead ==
  /\ doing = "transfer" /\ transfer.left = 0
  /\ doing' = "walk"
  /\ walk' = [walk EXCEPT !.base = NextBase, !.offset = @ + walk.series, !.series = 0,
                          !.index = IF Pointer = 0 THEN Len(Pointers(walk.list)) + 1
                                    ELSE @ + 1]
  /\ UNCHANGED <<file, bulk, transfer, command, contents>>

\* The indirect block continues behind what the direct pointers have read.
DirectEnds ==
  /\ doing = "walk" /\ AtEnd /\ walk.list = "direct"
  /\ IF Direct >= Len(file) THEN doing' = "complete" /\ UNCHANGED walk
     ELSE /\ walk' = Start("indirect", walk.from + walk.offset, file[Direct + 1])
          /\ UNCHANGED doing
  /\ UNCHANGED <<file, bulk, transfer, command, contents>>

\* A file that fills the indirect block is taken for a longer one.
IndirectEnds ==
  /\ doing = "walk" /\ AtEnd /\ walk.list = "indirect"
  /\ doing' = IF Indirect > Len(file) - Direct THEN "complete" ELSE "todo"
  /\ UNCHANGED <<file, bulk, walk, transfer, command, contents>>

Next == \/ RunGoesOn \/ ReadRun \/ Issue \/ Dispatched \/ RunRead
        \/ DirectEnds \/ IndirectEnds

Spec == Init /\ [][Next]_vars

-----------------------------------------------------------------------------
\* The length of the first run of blocks side by side.
FirstRun == CHOOSE n \in 1..Len(file) :
              /\ \A i \in 1..n : file[i] = file[1] + i - 1
              /\ n < Len(file) => file[n + 1] /= file[1] + n

\* What was read of the first run stands where it belongs, whatever transfers it
\* was cut into.  Not the last direct pointer, which no run includes, and not
\* the blocks behind the first gap.
FirstRunExact ==
  doing = "complete" =>
    \A i \in 1..FirstRun : i < Direct => contents[i] = file[i]

\* The controller is never told to write behind the buffer.
TransfersInside ==
  doing \in {"dispatch", "stray"} => command.address + command.length - 1 <= Len(file)

\* The pages the controller takes from a command are those of the blocks it is
\* asked for, in their order.
PrpExact ==
  doing = "dispatch" =>
    LET p == Page(command.address + command.length - 1) - Page(command.address)
    IN  p > 0 => Described(command.prps, p) = [i \in 1..p |-> <<"page", Page(command.address) + i>>]
=============================================================================
