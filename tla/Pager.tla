-------------------------------- MODULE Pager --------------------------------
(***************************************************************************)
(* The page tables (hal/memory/pager.rs).  A virtual address is split into *)
(* four indices; the code calls the entry it finds in the table at cr3     *)
(* pdpt, the one below it pd, then pt, then page.  A pt is either a table  *)
(* or a large page (2 MiB).  A table the pager allocated itself is marked  *)
(* in the entry that points to it (PAGER_STAB_ALLOCATED), and release      *)
(* frees what is marked.                                                   *)
(*                                                                         *)
(* Tables are memory: mem holds every physical page as if it were a table, *)
(* so an entry that points to the wrong page reads and writes that page.   *)
(* The operations are functions of the state st = [mem, taken, res], where *)
(* res is Ok or the error the code returns.                                *)
(***************************************************************************)
EXTENDS Integers, SequencesExt

CONSTANTS
  Fan,          \* entries of a table (512)
  Top,          \* bound: the virtual pages 0 .. Top-1 are looked at
  Hosts,        \* the cores' pagers: page_general, never released
  Guests,       \* the pagers of executables and DLLs
  Frames,       \* physical pages, 0 is the page at address 0
  DataFrames,   \* physical pages that hold data, not tables
  Mapped,       \* virtual pages the callers map
  Flags,        \* the flag sets the callers map them with
  BigSections   \* whether an executable has sections above 2 MiB

ASSUME PagerAssumption ==
    /\ Fan \in Nat /\ Fan > 1
    /\ Top \in 1 .. (Fan * Fan * Fan * Fan)
    /\ Hosts \cap Guests = {}
    /\ 0 \in Frames /\ Frames \subseteq Nat
    /\ DataFrames \subseteq Frames \ {0}
    /\ Mapped \subseteq 0 .. (Top - 1)
    /\ BigSections \in BOOLEAN

VARIABLES
  mem,     \* the contents of physical memory, seen as tables
  taken,   \* the pages the allocator has handed out
  cr3      \* the root table of each pager, 0 if there is none

vars == <<mem, taken, cr3>>

Pagers == Hosts \cup Guests

Idx == 0 .. (Fan - 1)

IdxSeq == [i \in 1 .. Fan |-> i - 1]

Zero == [addr |-> 0, flags |-> {}]

ZeroTable == [i \in Idx |-> Zero]

Virtual == 0 .. (Top - 1)

(* translate and into_address, on page numbers. *)
Indices ==
    [v \in Virtual |->
        [pdp |-> v \div (Fan * Fan * Fan), pd |-> (v \div (Fan * Fan)) % Fan,
         pt |-> (v \div Fan) % Fan, page |-> v % Fan]]
Translate(v) == Indices[v]
-----------------------------------------------------------------------------
(***************************************************************************)
(* PointerTable.  alloc_zero(1) takes the lowest free page.                *)
(***************************************************************************)

FreeFrames(st) == Frames \ (st.taken \cup {0})

LowestFree(st) == CHOOSE f \in FreeFrames(st) : \A g \in FreeFrames(st) : f <= g

Fail(st, e) == [st EXCEPT !.res = e]

(* A new page with the given contents, and the entry (t, i) pointing to it. *)
AllocateTable(st, t, i, contents, flags) ==
    IF FreeFrames(st) = {} THEN Fail(st, "Nospace")
    ELSE LET f == LowestFree(st) IN
         [st EXCEPT !.taken = @ \cup {f},
                    !.mem = [@ EXCEPT ![f] = contents,
                                      ![t][i] = [addr |-> f,
                                                 flags |-> flags \cup {"STAB"}]]]

(* Mutant: the entry is not looked at first. *)
AllocateAlways(st, t, i, flags) == AllocateTable(st, t, i, ZeroTable, flags)

AllocateIfNecessary(st, t, i, flags) ==
    IF st.mem[t][i] = Zero THEN AllocateTable(st, t, i, ZeroTable, flags) ELSE st

(* Mutant: every entry of the new table is the first page. *)
UnfoldFirstPage(st, t, i) ==
    LET e == st.mem[t][i]
        flags == e.flags \ {"PS"}
    IN AllocateTable(st, t, i, [j \in Idx |-> [addr |-> e.addr, flags |-> flags]], flags)

(* unfold: a large page becomes a table of the same pages. *)
Unfold(st, t, i) ==
    LET e == st.mem[t][i]
        flags == e.flags \ {"PS"}
    IN AllocateTable(st, t, i,
                     [j \in Idx |-> [addr |-> e.addr + j, flags |-> flags]], flags)

Toggle(flags, b) == IF b \in flags THEN flags \ {b} ELSE flags \cup {b}

(* deallocate: the page goes back and the mark of the entry is toggled. *)
Deallocate(st, t, i) ==
    IF st.mem[t][i].addr \notin st.taken THEN Fail(st, "FreeError")
    ELSE [st EXCEPT !.taken = @ \ {st.mem[t][i].addr},
                    !.mem[t][i].flags = Toggle(@, "STAB")]
-----------------------------------------------------------------------------
(***************************************************************************)
(* get_pd_allocated: the two upper levels.  Both get the RW flag if the    *)
(* page is to be written.  The flags of a level are those of the level     *)
(* above, so below a table that this call allocated they have its mark.    *)
(***************************************************************************)
Descend(st, t, i, flags) ==
    LET s == AllocateIfNecessary(st, t, i, flags)
    IN IF s.res # "Ok" \/ "RW" \notin flags THEN s
       ELSE [s EXCEPT !.mem[t][i].flags = @ \cup {"RW"}]

GetPdAllocated(st, root, a, flags) ==
    LET s == Descend(st, root, a.pdp, flags)
        pdpt == s.mem[root][a.pdp].addr
    IN IF s.res # "Ok" THEN s
       ELSE IF "PS" \in s.mem[pdpt][a.pd].flags THEN Fail(s, "InvalidActivateFlags")
       ELSE Descend(s, pdpt, a.pd, flags)

(* Where the pd of an address points, and whether a call creates it. *)
PdOf(m, root, a) == m[m[root][a.pdp].addr][a.pd].addr

CreatesPd(m, root, a) == m[root][a.pdp] = Zero \/ m[m[root][a.pdp].addr][a.pd] = Zero

(* In a table entry bit 7 is PAT, in a pt it is the page size. *)
LeafFlags(flags) ==
    IF "PAT" \in flags THEN (flags \ {"PAT"}) \cup {"PS"} ELSE flags

Page4K(st, root, v, p, flags) ==
    LET a == Translate(v)
        upper == flags \ {"PAT"}
        s == GetPdAllocated(st, root, a, upper)
        pd == PdOf(s.mem, root, a)
        u == IF "PS" \in s.mem[pd][a.pt].flags
               THEN Unfold(s, pd, a.pt)
               ELSE AllocateIfNecessary(s, pd, a.pt, upper)
    IN IF "PS" \in flags THEN Fail(st, "InvalidFlags")
       ELSE IF s.res # "Ok" THEN s
       ELSE IF u.res # "Ok" THEN u
       ELSE [u EXCEPT !.mem[u.mem[pd][a.pt].addr][a.page] =
                        [addr |-> p, flags |-> LeafFlags(flags)]]

(* The pt of a large page.  One that is a large page already only gets a   *)
(* new address; the flags of the call do not contain the page size.        *)
SetLarge(s, pd, i, p, flags) ==
    LET e == s.mem[pd][i]
        d == Deallocate(s, pd, i)
        Put(st, fs) == [st EXCEPT !.mem[pd][i] = [addr |-> p, flags |-> fs]]
    IN IF "PS" \in e.flags THEN Put(s, flags)
       ELSE IF "STAB" \notin e.flags THEN Put(s, flags \cup {"PS"})
       ELSE IF d.res # "Ok" THEN d
       ELSE Put(d, Toggle(flags, "STAB") \cup {"PS"})

(* Both addresses must be multiples of 1 MiB, half a large page. *)
Page2M(st, root, v, p, flags) ==
    LET a == Translate(v)
        s == GetPdAllocated(st, root, a, flags)
        marked == IF CreatesPd(st.mem, root, a) THEN flags \cup {"STAB"} ELSE flags
    IN IF v % (Fan \div 2) # 0 \/ p % (Fan \div 2) # 0 THEN Fail(st, "InvalidAddress")
       ELSE IF flags \cap {"PS", "PAT"} # {} THEN Fail(st, "InvalidFlags")
       ELSE IF s.res # "Ok" THEN s
       ELSE SetLarge(s, PdOf(s.mem, root, a), a.pt, p, marked)

Unpage4K(st, root, v) ==
    LET a == Translate(v)
        pdpt == st.mem[root][a.pdp]
        pd == st.mem[pdpt.addr][a.pd]
        pt == st.mem[pd.addr][a.pt]
    IN IF pdpt = Zero \/ pd = Zero THEN Fail(st, "PagingError")
       ELSE IF "PS" \in pd.flags \cup pt.flags THEN Fail(st, "InvalidActivateFlags")
       ELSE [st EXCEPT !.mem[pt.addr][a.page] = Zero]
-----------------------------------------------------------------------------
(***************************************************************************)
(* release: depth first through the marked entries, then the root.  It     *)
(* stops at the first page the allocator does not take back.               *)
(***************************************************************************)
IfMarked(st, t, i, Op(_)) ==
    IF st.res = "Ok" /\ "STAB" \in st.mem[t][i].flags THEN Op(st) ELSE st

ThenDeallocate(st, t, i) == IF st.res = "Ok" THEN Deallocate(st, t, i) ELSE st

ReleasePt(st, pd, i) == IfMarked(st, pd, i, LAMBDA s : Deallocate(s, pd, i))

ReleasePd(st, pdpt, i) ==
    IfMarked(st, pdpt, i, LAMBDA s : ThenDeallocate(
        FoldLeft(LAMBDA r, j : ReleasePt(r, s.mem[pdpt][i].addr, j), s, IdxSeq), pdpt, i))

ReleasePdpt(st, root, i) ==
    IfMarked(st, root, i, LAMBDA s : ThenDeallocate(
        FoldLeft(LAMBDA r, j : ReleasePd(r, s.mem[root][i].addr, j), s, IdxSeq), root, i))

(* Mutant: the tables go back, the root does not. *)
ReleaseKeepsRoot(st, root) ==
    FoldLeft(LAMBDA r, j : ReleasePdpt(r, root, j), st, IdxSeq)

Release(st, root) ==
    LET s == FoldLeft(LAMBDA r, j : ReleasePdpt(r, root, j), st, IdxSeq)
    IN IF s.res # "Ok" THEN s
       ELSE IF root \notin s.taken THEN Fail(s, "FreeError")
       ELSE [s EXCEPT !.taken = @ \ {root}]
-----------------------------------------------------------------------------
(* The entry that a walk finds for v where every level is present. *)
Present(m, root, v) ==
    LET a == Translate(v)
        pdpt == m[root][a.pdp]
        pd == m[pdpt.addr][a.pd]
        pt == m[pd.addr][a.pt]
    IN /\ "P" \in pdpt.flags \cap pd.flags \cap pt.flags
       /\ "PS" \in pt.flags \/ "P" \in m[pt.addr][a.page].flags

PtOf(m, root, v) == LET a == Translate(v) IN m[PdOf(m, root, a)][a.pt]

IsLarge(m, root, v) == "PS" \in PtOf(m, root, v).flags

LeafOf(m, root, v) ==
    IF IsLarge(m, root, v) THEN PtOf(m, root, v)
    ELSE m[PtOf(m, root, v).addr][Translate(v).page]

(* Mutant: only large pages are compared. *)
OccupationLargeOnly(m, self, other) ==
    \E v \in Virtual : Present(m, self, v) /\ Present(m, other, v) /\ IsLarge(m, self, v)

(* occupation_check takes other_pt from its own tables as well: below a pd *)
(* that is present in both it looks at one side only.                      *)
OccupationCheck(m, self, other) ==
    \E v \in Virtual :
      LET a == Translate(v) IN
      /\ "P" \in m[self][a.pdp].flags \cap m[other][a.pdp].flags
      /\ "P" \in m[m[self][a.pdp].addr][a.pd].flags
                    \cap m[m[other][a.pdp].addr][a.pd].flags
      /\ Present(m, self, v)

(* bind_other: page after page of the other pager.  A large page is handed *)
(* on with its page-size flag, which page_2_mb and page_4_kb refuse.       *)
BindPage(st, self, other, base, v) ==
    IF st.res # "Ok" \/ ~Present(st.mem, other, v) THEN st
    ELSE IF IsLarge(st.mem, other, v) THEN Fail(st, "InvalidFlags")
    ELSE LET e == LeafOf(st.mem, other, v)
         IN Page4K(st, self, base + v, e.addr, e.flags)

BindOther(st, self, other, base) ==
    FoldLeft(LAMBDA s, n : BindPage(s, self, other, base, n - 1), st,
             [n \in 1 .. Top |-> n])
-----------------------------------------------------------------------------
State == [mem |-> mem, taken |-> taken, res |-> "Ok"]

(* What is in a page nobody holds does not matter: alloc_zero clears it. *)
Apply(st) ==
    /\ mem' = [f \in Frames |-> IF f \in st.taken THEN st.mem[f] ELSE ZeroTable]
    /\ taken' = st.taken

Init ==
    /\ mem = [f \in Frames |-> ZeroTable]
    /\ taken = DataFrames
    /\ cr3 = [x \in Pagers |-> 0]

(* Pager::new on a root table from alloc_zero. *)
New(x) ==
    /\ cr3[x] = 0 /\ FreeFrames(State) # {}
    /\ LET f == LowestFree(State) IN
         /\ cr3' = [cr3 EXCEPT ![x] = f]
         /\ taken' = taken \cup {f}
         /\ mem' = [mem EXCEPT ![f] = ZeroTable]

DoPage4K(x, v, p, flags) ==
    /\ cr3[x] # 0
    /\ Apply(Page4K(State, cr3[x], v, p, flags))
    /\ UNCHANGED cr3

(* page_general maps large pages where nothing is mapped yet; an executable *)
(* maps them (map_efficient) wherever its sections lie, if they are large.  *)
MapLarge == IF BigSections THEN Pagers ELSE Hosts

DoPage2M(x, v, p, flags) ==
    /\ cr3[x] # 0
    /\ x \in Hosts => v % Fan = 0 /\ PtOf(mem, cr3[x], v) = Zero
    /\ Apply(Page2M(State, cr3[x], v, p, flags))
    /\ UNCHANGED cr3

DoUnpage4K(x, v) ==
    /\ cr3[x] # 0
    /\ Apply(Unpage4K(State, cr3[x], v))
    /\ UNCHANGED cr3

(* The loader binds a DLL at its own addresses if occupation_check says no *)
(* page is used twice, else above everything the executable has.           *)
MayBind(x, y, base) ==
    /\ x # y /\ cr3[x] # 0 /\ cr3[y] # 0
    /\ IF OccupationCheck(mem, cr3[x], cr3[y])
         THEN /\ base > 0 /\ base % Fan = 0
              /\ \A v, w \in Virtual :
                   Present(mem, cr3[x], v) /\ Present(mem, cr3[y], w) =>
                      base + w \in Virtual /\ base + w > v
         ELSE base = 0

DoBindOther(x, y, base) ==
    /\ MayBind(x, y, base)
    /\ Apply(BindOther(State, cr3[x], cr3[y], base))
    /\ UNCHANGED cr3

(* Mutant: the pager is used on after its release. *)
DoReleaseKeeps(x) ==
    /\ cr3[x] # 0
    /\ Apply(Release(State, cr3[x]))
    /\ UNCHANGED cr3

(* The owner drops the pager, whatever release returned. *)
DoRelease(x) ==
    /\ cr3[x] # 0
    /\ Apply(Release(State, cr3[x]))
    /\ cr3' = [cr3 EXCEPT ![x] = 0]

Next ==
    \/ \E x \in Pagers : New(x)
    \/ \E x \in Pagers, v \in Mapped, p \in DataFrames, flags \in Flags :
         DoPage4K(x, v, p, flags)
    \/ \E x \in MapLarge, v \in Mapped, p \in {f \in DataFrames : f % Fan = 0}, flags \in Flags :
         DoPage2M(x, v, p, flags)
    \/ \E x \in Hosts, v \in Mapped : DoUnpage4K(x, v)
    \/ \E x, y \in Guests, base \in Virtual : DoBindOther(x, y, base)
    \/ \E x \in Guests : DoRelease(x)

Spec == Init /\ [][Next]_vars
-----------------------------------------------------------------------------
(* Tables keep their shape and nobody takes a page twice. *)
TypeOK ==
    /\ DOMAIN mem = Frames
    /\ \A f \in Frames : \A i \in Idx : mem[f][i].addr \in Nat
    /\ taken \subseteq Frames \ {0}
    /\ \A x \in Pagers : cr3[x] \in Frames

(* The entries of pager x that point to tables. *)
TableEntries(x) ==
    LET pdpts == {e \in {<<cr3[x], i>> : i \in Idx} : mem[e[1]][e[2]] # Zero}
        pds == {e \in {<<mem[d[1]][d[2]].addr, i>> : d \in pdpts, i \in Idx} :
                   mem[e[1]][e[2]] # Zero}
        pts == {e \in {<<mem[d[1]][d[2]].addr, i>> : d \in pds, i \in Idx} :
                   mem[e[1]][e[2]] # Zero /\ "PS" \notin mem[e[1]][e[2]].flags}
    IN IF cr3[x] = 0 THEN {} ELSE pdpts \cup pds \cup pts

Roots == {cr3[x] : x \in Pagers} \ {0}

Tables(x) == {mem[e[1]][e[2]].addr : e \in TableEntries(x)}

(* The pages the allocator has given away are exactly the data pages, the  *)
(* roots and the tables that some pager can reach: page_4_kb, page_2_mb    *)
(* and bind_other leak no table even when they fail half way, and release  *)
(* frees every table and no page of data.                                  *)
TablesExact == taken = DataFrames \cup Roots \cup UNION {Tables(x) : x \in Pagers}

(* No table is reached by two entries or by two pagers, and no data page   *)
(* is used as a table: a store through one mapping changes no other.       *)
TablesApart ==
    /\ \A x, y \in Pagers : \A e \in TableEntries(x), f \in TableEntries(y) :
         mem[e[1]][e[2]].addr = mem[f[1]][f[2]].addr => x = y /\ e = f
    /\ \A x \in Pagers : Tables(x) \cap (DataFrames \cup Roots) = {}

(* "deallocates used memory": what release frees are tables, and the data  *)
(* the caller still holds stays allocated.                                 *)
DataKept == DataFrames \subseteq taken

(* Where a walk of the tables ends. *)
PhysicalOf(x, v) ==
    IF cr3[x] = 0 \/ ~Present(mem, cr3[x], v) THEN -1
    ELSE IF IsLarge(mem, cr3[x], v) THEN LeafOf(mem, cr3[x], v).addr + (v % Fan)
    ELSE LeafOf(mem, cr3[x], v).addr

AS == INSTANCE AddressSpace WITH
        Pages <- Virtual, Physical <- DataFrames, Large <- Fan,
        map <- [x \in Pagers |-> [v \in Virtual |-> PhysicalOf(x, v)]]

(* The pages a walk of the tables finds are the pages the callers asked    *)
(* for, whatever tables were split, replaced, shared between large and     *)
(* small pages or reused after a release.                                  *)
ImplementsAddressSpace == AS!Spec
=============================================================================
