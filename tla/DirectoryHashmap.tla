-------------------------- MODULE DirectoryHashmap --------------------------
(***************************************************************************)
(* The directories of the general file system                              *)
(* (src/emkk/src/vfs/gfs/directory_hashmap.rs): each one is a hash map     *)
(* whose buckets and entries come from two NodeAllocators that all maps    *)
(* share (utils/allocators.rs), and whose names come from the string       *)
(* allocator (string_allocator.rs).                                        *)
(*                                                                         *)
(* A NodeAllocator is [nodes, current]: its list of alternating reserved   *)
(* and free spans, and the index of the free one it takes from.  Offsets   *)
(* are in elements; indices of nodes are one higher than in the code.      *)
(***************************************************************************)
EXTENDS Integers, Sequences, FiniteSets, SequencesExt

CONSTANTS
  NBuckets,         \* INIT_BUCKET_COUNT
  NEntries,         \* INIT_ENTRY_COUNT
  Start,            \* entries of a fresh bucket (4)
  MaximumEntries,   \* entries a bucket may grow to (16)
  MapSizes,         \* the bucket counts directories ask for (16, 32)
  MaxMaps,          \* directories that are created
  Names,            \* names that are entered, sequences of bytes
  Links,            \* what they are linked to
  StringSlots       \* slots of each length class of the string allocator

\* Stated as an assumption by the module that instantiates this one.
DirectoryAssumption ==
  /\ NBuckets \in Nat /\ NEntries \in Nat /\ Start \in Nat \ {0}
  /\ MapSizes \subseteq Nat \ {0}
  /\ Names \subseteq Seq(Nat)

VARIABLES
  bucketNodes, entryNodes,  \* the two NodeAllocators
  buckets,      \* the bucket array: [start, len, used]
  entries,      \* the entry array: [string, link]
  maps,         \* the GfsDirectoryHashmaps: [offset, count, capacity]
  strings,      \* the names stored, by length class
  running,      \* "yes", or why the kernel has stopped
  inserted      \* history: the names that were entered, with their links, by map

vars == <<bucketNodes, entryNodes, buckets, entries, maps, strings, running, inserted>>

Fill(n) == [i \in 1..n |-> 0]
NoEntry == [string |-> <<1, 1>>, link |-> 0]   \* zeroed memory
ZeroNode == [len |-> 0, base |-> 0, reserving |-> FALSE]

-----------------------------------------------------------------------------
(***************************************************************************)
(* NodeAllocator.  A result is [how, a, offset].                           *)
(***************************************************************************)
NewNodes(n) ==
  [nodes |-> <<[len |-> 0, base |-> 0, reserving |-> TRUE],
               [len |-> n, base |-> 0, reserving |-> FALSE]>>,
   current |-> 2]

\* find_new_current: the first node that is long enough, reserved or not.
Fit(a, size) ==
  IF size <= a.nodes[a.current].len THEN {a.current}
  ELSE {i \in DOMAIN a.nodes : /\ a.nodes[i].len >= size
                               /\ \A j \in 1..(i - 1) : a.nodes[j].len < size}

\* Elements go from the front of a node to the end of the one before it.
Shift(nodes, c, size) ==
  [nodes EXCEPT ![c - 1].len = @ + size, ![c].base = @ + size, ![c].len = @ - size]

\* A node that is used up is removed together with the next one by a memcpy
\* of too few bytes, and the index of the node before node 0 is taken.
AllocateAsOffset(a, size) ==
  IF Fit(a, size) = {} THEN [how |-> "none", a |-> a, offset |-> 0]
  ELSE LET c == CHOOSE i \in Fit(a, size) : TRUE IN
    IF c = 1 \/ a.nodes[c].len = size
    THEN [how |-> "underflow", a |-> a, offset |-> 0]
    ELSE [how |-> "some", offset |-> a.nodes[c].base,
          a |-> [current |-> c, nodes |-> Shift(a.nodes, c, size)]]

\* insert_node moves one node at the most; further ones are overwritten.
InsertNode(nodes, node, at) ==
  IF at = Len(nodes) THEN InsertAt(nodes, at, node)
  ELSE Append([nodes EXCEPT ![at] = node], ZeroNode)

\* The end of the node must lie behind the block: with that, a block is at
\* the front of its node or in the middle of it.
Holding(a, offset, size) ==
  {i \in DOMAIN a.nodes : /\ a.nodes[i].reserving
                          /\ offset >= a.nodes[i].base
                          /\ a.nodes[i].base + a.nodes[i].len > offset + size}

FreeOffset(a, offset, size) ==
  IF Holding(a, offset, size) = {} THEN [how |-> "none", a |-> a]
  ELSE
    LET h == CHOOSE i \in Holding(a, offset, size) :
                      \A j \in Holding(a, offset, size) : i <= j
        node == a.nodes[h]
        end == node.base + node.len IN
    IF node.base = offset
    THEN IF h = 1 \/ a.nodes[h - 1].reserving
         THEN [how |-> "assertion", a |-> a]
         ELSE [how |-> "some",
               a |-> [a EXCEPT !.nodes = Shift(@, h, size)]]
    ELSE [how |-> "some",
          a |-> [a EXCEPT !.nodes =
                   InsertNode(InsertNode([@ EXCEPT ![h].len = offset - node.base],
                                [len |-> size, base |-> offset, reserving |-> FALSE], h + 1),
                              [len |-> end - (offset + size), base |-> offset + size,
                               reserving |-> TRUE], h + 2)]]

-----------------------------------------------------------------------------
(***************************************************************************)
(* Names.                                                                  *)
(***************************************************************************)
Class(name) == IF Len(name) <= 8 THEN 1 ELSE IF Len(name) <= 16 THEN 2
               ELSE IF Len(name) <= 32 THEN 3 ELSE 4

AsString(string) ==
  IF string[2] <= Len(strings[string[1]]) THEN strings[string[1]][string[2]] ELSE <<>>

\* hash_str; its second argument, the number of buckets to hash for, is not used.
HashStr(name, count) ==
  LET hash[n \in 0..Len(name)] ==
        IF n = 0 THEN 0 ELSE ((hash[n - 1] + name[n] * 577) * 11) % count
  IN hash[Len(name)]

BucketOf(map, name) == map.offset + HashStr(name, map.count) + 1

Slice(b) == b.start..(b.start + b.len - 1)

-----------------------------------------------------------------------------
Init ==
  /\ bucketNodes = NewNodes(NBuckets) /\ entryNodes = NewNodes(NEntries)
  /\ buckets = [i \in 1..NBuckets |-> [start |-> 0, len |-> 0, used |-> 0]]
  /\ entries = [i \in 0..(NEntries - 1) |-> NoEntry]
  /\ maps = <<>> /\ inserted = <<>>
  /\ strings = [c \in 1..3 |-> <<>>]
  /\ running = "yes"

Live == UNION {(maps[m].offset + 1)..(maps[m].offset + maps[m].count) : m \in DOMAIN maps}

(* No two buckets lie in the same entries.  find_new_current also takes a
   reserved node, so a bucket can be given entries that others use; behaviours
   are followed up to there. *)
Sound == \A i, j \in Live : i /= j => Slice(buckets[i]) \cap Slice(buckets[j]) = {}

Runs == running = "yes" /\ Sound

\* allocate_hashmap: the counters it compares with the sizes stay 0, so the
\* arrays are never made larger.  An allocation that does not succeed stops the
\* kernel, in unwrap() or with the index that is too small.
AllocateHashmap(count) ==
  /\ Runs /\ Len(maps) < MaxMaps
  /\ LET b == AllocateAsOffset(bucketNodes, count)
         e == AllocateAsOffset(entryNodes, count * Start) IN
     IF b.how = "some" /\ e.how = "some"
     THEN /\ bucketNodes' = b.a /\ entryNodes' = e.a
          /\ buckets' = [i \in 1..NBuckets |->
                IF i \in (b.offset + 1)..(b.offset + count)
                THEN [start |-> e.offset + (i - b.offset - 1) * Start, len |-> Start, used |-> 0]
                ELSE buckets[i]]
          /\ maps' = Append(maps, [offset |-> b.offset, count |-> count,
                                   capacity |-> count * Start])
          /\ inserted' = Append(inserted, <<>>)
          /\ UNCHANGED running
     ELSE /\ running' = "exhausted"
          /\ UNCHANGED <<bucketNodes, entryNodes, buckets, maps, inserted>>
  /\ UNCHANGED <<entries, strings>>

(***************************************************************************)
(* Growing a bucket.  s is [how, nodes, buckets, entries].                 *)
(***************************************************************************)
CopyNothing(es, from, to, n) == es  \* mutant: the contents are not copied
CopyContents(es, from, to, n) ==
  [i \in DOMAIN es |-> IF i \in to..(to + n - 1) THEN es[from + (i - to)] ELSE es[i]]

Grow(s, index) ==
  LET b == s.buckets[index]
      e == AllocateAsOffset(s.nodes, 2 * b.len)
      copied == CopyContents(s.entries, b.start, e.offset, b.len)
      f == FreeOffset(e.a, b.start, b.len) IN
  IF e.how /= "some" THEN [s EXCEPT !.how = IF e.how = "none" THEN "full" ELSE e.how]
  ELSE [how |-> IF f.how = "assertion" THEN "assertion" ELSE "ok",
        nodes |-> f.a, entries |-> copied,
        buckets |-> [s.buckets EXCEPT ![index].start = e.offset, ![index].len = 2 * b.len]]

AppendTo(s, index, entry) ==
  [s EXCEPT !.entries[s.buckets[index].start + s.buckets[index].used] = entry,
            !.buckets[index].used = @ + 1]

Now == [how |-> "ok", nodes |-> entryNodes, buckets |-> buckets, entries |-> entries]

-----------------------------------------------------------------------------
HasName(s, index, name) ==
  \E i \in 1..s.buckets[index].used :
    AsString(s.entries[s.buckets[index].start + i - 1].string) = name

CountNothing(m, length) == UNCHANGED maps  \* mutant: num_entries_used stays
CountSlots(m, length) == maps' = [maps EXCEPT ![m].capacity = @ + length]

Full(m, name) == buckets[BucketOf(maps[m], name)].used = buckets[BucketOf(maps[m], name)].len
CanGrow(m, name) == buckets[BucketOf(maps[m], name)].len /= MaximumEntries

\* The end of insert: the bucket of the name is known, and has room.
Enter(m, name, link, s, index) ==
  IF HasName(s, index, name)
  THEN /\ entries' = s.entries /\ buckets' = s.buckets /\ UNCHANGED <<strings, inserted>>
  ELSE IF Len(strings[Class(name)]) = StringSlots
  THEN /\ entries' = s.entries /\ buckets' = s.buckets /\ UNCHANGED <<strings, inserted>>
  ELSE /\ strings' = [strings EXCEPT ![Class(name)] = Append(@, name)]
       /\ \E t \in {AppendTo(s, index,
                      [string |-> <<Class(name), Len(strings[Class(name)]) + 1>>, link |-> link])} :
            entries' = t.entries /\ buckets' = t.buckets
       /\ inserted' = [inserted EXCEPT ![m] = Append(@, <<name, link>>)]

\* A name above 32 bytes is copied into a slice one byte longer than itself.
InsertLong(m, name) ==
  /\ Runs /\ m \in DOMAIN maps /\ Class(name) = 4
  /\ ~Full(m, name)
  /\ running' = "copy"
  /\ UNCHANGED <<bucketNodes, entryNodes, buckets, entries, maps, strings, inserted>>

InsertThere(m, name, link) ==
  /\ Runs /\ m \in DOMAIN maps /\ Class(name) /= 4
  /\ ~Full(m, name)
  /\ Enter(m, name, link, Now, BucketOf(maps[m], name))
  /\ UNCHANGED <<bucketNodes, entryNodes, maps, running>>

InsertGrowing(m, name, link) ==
  /\ Runs /\ m \in DOMAIN maps /\ Class(name) /= 4
  /\ Full(m, name) /\ CanGrow(m, name)
  /\ \E s \in {Grow(Now, BucketOf(maps[m], name))} :
       /\ entryNodes' = s.nodes
       /\ running' = IF s.how \in {"ok", "full"} THEN "yes" ELSE s.how
       /\ IF s.how = "ok"
          THEN /\ Enter(m, name, link, s, BucketOf(maps[m], name))
               /\ CountSlots(m, buckets[BucketOf(maps[m], name)].len)
          ELSE /\ entries' = s.entries /\ buckets' = s.buckets
               /\ UNCHANGED <<strings, inserted, maps>>
  /\ UNCHANGED bucketNodes

Next ==
  \/ \E count \in MapSizes : AllocateHashmap(count)
  \/ \E m \in 1..MaxMaps, name \in Names :
       \/ InsertLong(m, name)
       \/ \E link \in Links : InsertThere(m, name, link) \/ InsertGrowing(m, name, link)

Spec == Init /\ [][Next]_vars

-----------------------------------------------------------------------------
Going == running = "yes" /\ Sound

EntriesOf(m, i) ==
  LET b == buckets[maps[m].offset + i] IN [j \in 1..b.used |-> entries[b.start + j - 1]]

Found(m, name) ==
  LET bucket == EntriesOf(m, BucketOf(maps[m], name) - maps[m].offset) IN
  {bucket[j].link : j \in {k \in DOMAIN bucket :
     /\ AsString(bucket[k].string) = name
     /\ \A l \in 1..(k - 1) : AsString(bucket[l].string) /= name}}

(* lookup finds every name that was entered with the link it was entered with,
   whatever buckets of this and of other maps have grown in between. *)
LookupFinds ==
  Going => \A m \in DOMAIN maps : \A i \in DOMAIN inserted[m] :
             Found(m, inserted[m][i][1]) = {inserted[m][i][2]}

\* What for_each goes through, one bucket after the other.
Listed(m) ==
  UNION {{<<i, j>> : j \in 1..buckets[maps[m].offset + i].used} : i \in 1..maps[m].count}
NameAt(m, p) == AsString(EntriesOf(m, p[1])[p[2]].string)

(* for_each lists every name that was entered once and no other. *)
ListedOnce ==
  Going => \A m \in DOMAIN maps :
    /\ \A p, q \in Listed(m) : NameAt(m, p) = NameAt(m, q) => p = q
    /\ {NameAt(m, p) : p \in Listed(m)} = {x[1] : x \in ToSet(inserted[m])}

Slots(m) ==
  LET slots[n \in 0..maps[m].count] ==
        IF n = 0 THEN 0 ELSE slots[n - 1] + buckets[maps[m].offset + n].len
  IN slots[maps[m].count]

(* num_entries_used, which rehash takes for the size of the entries, is the
   number of slots the buckets have. *)
SlotsCounted == Going => \A m \in DOMAIN maps : maps[m].capacity = Slots(m)

(* "assert_ne!(reserving_node_index, 0)" and "assert_eq!(prev_node.is_freeing(),
   true)": what free_offset is given lies behind a free node. *)
AssertionsHold == running /= "assertion"
=============================================================================
