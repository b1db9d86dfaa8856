----------------------------- MODULE PagerProofs -----------------------------
(***************************************************************************)
(* Proofs about the pagers of the cores (Pager with Guests = {}), for any  *)
(* number of cores, any size of a table and of memory, and any pages that  *)
(* are mapped with any flags.                                              *)
(*                                                                         *)
(* The inductive invariant IInv gives every page a level and every table   *)
(* the entry it belongs to: a tree, from which TablesExact and TablesApart *)
(* follow.  For ImplementsAddressSpace each operation is followed down its *)
(* levels: a new table, a split of a large page and a change of flags keep *)
(* what every walk finds (SameViews), and the last store changes the pages *)
(* of one entry only (ChangesAt, ChangesSlot).                             *)
(***************************************************************************)
EXTENDS Pager, WellFoundedInduction, TLAPS

-----------------------------------------------------------------------------
(* The tree of the tables, and what an allocation does to it.              *)
(* A set of numbers has a least one. *)
LEMMA LeastNumber ==
    ASSUME NEW S, S \subseteq Nat, S # {}
    PROVE  \E n \in S : \A m \in S : n <= m
<1>1. PICK n \in S : \A m \in S : <<m, n>> \notin OpToRel(<, Nat)
  BY WFMin, NatLessThanWellFounded, Zenon
<1>2. ASSUME NEW m \in S PROVE ~(m < n)
  BY <1>1, <1>2, Zenon DEF OpToRel
<1> QED
  BY <1>2

-----------------------------------------------------------------------------
AllFlags == (UNION Flags) \cup {"P", "RW", "PS", "STAB", "PAT"}

Entries == [addr : Nat, flags : SUBSET AllFlags]

Shape(m, tk) ==
    /\ m \in [Frames -> [Idx -> Entries]]
    /\ tk \subseteq Frames \ {0} /\ DataFrames \subseteq tk

(* Every frame has a level: 0 if it is free, 1 for a root, 2 to 4 for the  *)
(* tables below it, 5 for data.                                            *)
Levels(lev, m, tk) ==
    /\ lev \in [Frames -> 0 .. 5]
    /\ \A f \in Frames : /\ f \in tk <=> lev[f] # 0
                         /\ f \in DataFrames <=> lev[f] = 5
                         /\ f \in Roots <=> lev[f] = 1
                         /\ lev[f] = 0 => m[f] = ZeroTable

(* An entry that points to a table of the next level, which belongs to it. *)
Child(lev, up, at, m, t, i) ==
    /\ m[t][i].addr \in Frames /\ lev[m[t][i].addr] = lev[t] + 1
    /\ up[m[t][i].addr] = t /\ at[m[t][i].addr] = i
    /\ "PS" \notin m[t][i].flags

Down(lev, up, at, m) ==
    \A t \in Frames, i \in Idx :
      /\ lev[t] \in {1, 2} => m[t][i] = Zero \/ Child(lev, up, at, m, t, i)
      /\ lev[t] = 3 => \/ m[t][i] = Zero
                       \/ "PS" \in m[t][i].flags
                       \/ Child(lev, up, at, m, t, i)

(* The entry that a table belongs to points to it. *)
Up(lev, up, at, m) ==
    /\ up \in [Frames -> Frames] /\ at \in [Frames -> Idx]
    /\ \A f \in Frames : lev[f] \in {2, 3, 4} =>
         /\ lev[up[f]] = lev[f] - 1
         /\ m[up[f]][at[f]].addr = f /\ "PS" \notin m[up[f]][at[f]].flags

Tree(lev, up, at, m, tk) ==
    /\ Shape(m, tk) /\ Levels(lev, m, tk)
    /\ Down(lev, up, at, m) /\ Up(lev, up, at, m)

RootsApart ==
    /\ cr3 \in [Pagers -> Frames]
    /\ \A x, y \in Pagers : cr3[x] = cr3[y] /\ cr3[x] # 0 => x = y

IInv == RootsApart /\ \E lev, up, at : Tree(lev, up, at, mem, taken)

-----------------------------------------------------------------------------
(* A store to the entry (t, i); a new table f, and the entry that points to it. *)
SetEntry(m, t, i, e) == [m EXCEPT ![t][i] = e]

NewTable(m, f, t, i, contents, flags) ==
    [m EXCEPT ![f] = contents, ![t][i] = [addr |-> f, flags |-> flags]]

St(m, tk, res) == [mem |-> m, taken |-> tk, res |-> res]

(* The lowest free page is free. *)
LEMMA LowestIsFree ==
    ASSUME NEW st, FreeFrames(st) # {}
    PROVE  LowestFree(st) \in Frames \ {0} /\ LowestFree(st) \notin st.taken
<1>1. FreeFrames(st) \subseteq Nat
  BY PagerAssumption DEF FreeFrames
<1>2. \E f \in FreeFrames(st) : \A g \in FreeFrames(st) : f <= g
  BY <1>1, LeastNumber
<1>3. LowestFree(st) \in FreeFrames(st)
  BY <1>2 DEF LowestFree
<1> QED
  BY <1>3 DEF FreeFrames

(* A free page becomes the table of an entry that had none. *)
LEMMA AllocateKeeps ==
    ASSUME NEW lev, NEW up, NEW at, NEW m, NEW tk, Tree(lev, up, at, m, tk),
           NEW t \in Frames, NEW i \in Idx, lev[t] \in {1, 2, 3},
           NEW f \in Frames, lev[f] = 0, f # 0,
           m[t][i] = Zero \/ (lev[t] = 3 /\ "PS" \in m[t][i].flags),
           NEW contents \in [Idx -> Entries],
           lev[t] # 3 => contents = ZeroTable,
           NEW flags \in SUBSET AllFlags, "PS" \notin flags,
           NEW m2, m2 = NewTable(m, f, t, i, contents, flags)
    PROVE  Tree([lev EXCEPT ![f] = lev[t] + 1], [up EXCEPT ![f] = t], [at EXCEPT ![f] = i],
                m2, tk \cup {f})
<1> DEFINE lev2 == [lev EXCEPT ![f] = lev[t] + 1]
           up2 == [up EXCEPT ![f] = t]
           at2 == [at EXCEPT ![f] = i]
<1>1. /\ lev \in [Frames -> 0 .. 5] /\ up \in [Frames -> Frames] /\ at \in [Frames -> Idx]
      /\ m \in [Frames -> [Idx -> Entries]] /\ f # t
  BY DEF Tree, Levels, Up, Shape
<1>2. /\ lev2 \in [Frames -> 0 .. 5] /\ lev2[f] = lev[t] + 1
      /\ \A g \in Frames : g # f => lev2[g] = lev[g]
  BY <1>1
<1>3. /\ up2 \in [Frames -> Frames] /\ at2 \in [Frames -> Idx] /\ up2[f] = t /\ at2[f] = i
      /\ \A g \in Frames : g # f => up2[g] = up[g] /\ at2[g] = at[g]
  BY <1>1
<1>4. [addr |-> f, flags |-> flags] \in Entries
  BY PagerAssumption DEF Entries
<1>5. /\ m2 \in [Frames -> [Idx -> Entries]]
      /\ m2[f] = contents /\ m2[t][i] = [addr |-> f, flags |-> flags]
      /\ \A g \in Frames \ {f}, j \in Idx : g # t \/ j # i => m2[g][j] = m[g][j]
      /\ \A g \in Frames : g # f /\ g # t => m2[g] = m[g]
  BY <1>1, <1>4 DEF NewTable
<1> HIDE DEF lev2, up2, at2
<1>6. Shape(m2, tk \cup {f})
  BY <1>5 DEF Tree, Shape
<1>7. Levels(lev2, m2, tk \cup {f})
  <2> SUFFICES ASSUME NEW g \in Frames
               PROVE  /\ g \in tk \cup {f} <=> lev2[g] # 0
                      /\ g \in DataFrames <=> lev2[g] = 5
                      /\ g \in Roots <=> lev2[g] = 1
                      /\ lev2[g] = 0 => m2[g] = ZeroTable
    BY <1>2 DEF Levels
  <2>1. CASE g = f
    BY <1>2, <2>1 DEF Tree, Levels
  <2>2. CASE g # f
    BY <1>2, <1>5, <2>2 DEF Tree, Levels
  <2> QED
    BY <2>1, <2>2
<1>8. Down(lev2, up2, at2, m2)
  <2> SUFFICES ASSUME NEW g \in Frames, NEW j \in Idx
               PROVE  /\ lev2[g] \in {1, 2} => m2[g][j] = Zero \/ Child(lev2, up2, at2, m2, g, j)
                      /\ lev2[g] = 3 => \/ m2[g][j] = Zero
                                        \/ "PS" \in m2[g][j].flags
                                        \/ Child(lev2, up2, at2, m2, g, j)
    BY DEF Down
  <2>1. CASE g = f
    <3>1. m2[g][j] = contents[j] /\ lev2[g] = lev[t] + 1
      BY <1>2, <1>5, <2>1
    <3>2. lev[t] # 3 => m2[g][j] = Zero
      BY <3>1 DEF ZeroTable
    <3> QED
      BY <3>1, <3>2
  <2>2. CASE g = t /\ j = i
    BY <1>1, <1>2, <1>3, <1>5, <2>2 DEF Child
  <2>3. CASE g # f /\ (g # t \/ j # i)
    <3>1. m2[g][j] = m[g][j] /\ lev2[g] = lev[g]
      BY <1>2, <1>5, <2>3
    <3>2. Child(lev, up, at, m, g, j) /\ lev[g] \in {1, 2, 3} => Child(lev2, up2, at2, m2, g, j)
      BY <1>2, <1>3, <3>1 DEF Child
    <3> QED
      BY <3>1, <3>2 DEF Tree, Down
  <2> QED
    BY <2>1, <2>2, <2>3
<1>9. Up(lev2, up2, at2, m2)
  <2> SUFFICES ASSUME NEW g \in Frames, lev2[g] \in {2, 3, 4}
               PROVE  /\ lev2[up2[g]] = lev2[g] - 1
                      /\ m2[up2[g]][at2[g]].addr = g /\ "PS" \notin m2[up2[g]][at2[g]].flags
    BY <1>3 DEF Up
  <2>1. CASE g = f
    BY <1>1, <1>2, <1>3, <1>5, <2>1
  <2>2. CASE g # f
    <3>1. /\ lev[g] \in {2, 3, 4} /\ up2[g] = up[g] /\ at2[g] = at[g] /\ lev2[g] = lev[g]
          /\ up[g] \in Frames /\ at[g] \in Idx
      BY <1>1, <1>2, <1>3, <2>2
    <3>2. /\ lev[up[g]] = lev[g] - 1 /\ m[up[g]][at[g]].addr = g
          /\ "PS" \notin m[up[g]][at[g]].flags
      BY <3>1 DEF Tree, Up
    <3>3. up[g] # f
      BY <3>1, <3>2
    <3>4. lev[0] = 0
      BY PagerAssumption DEF Tree, Levels, Shape
    <3>5. ~(up[g] = t /\ at[g] = i)
      BY <3>1, <3>2, <3>4 DEF Zero
    <3> QED
      BY <1>2, <1>5, <3>1, <3>2, <3>3, <3>5
  <2> QED
    BY <2>1, <2>2
<1>10. Tree(lev2, up2, at2, m2, tk \cup {f})
  BY <1>6, <1>7, <1>8, <1>9 DEF Tree
<1> QED
  BY <1>10 DEF lev2, up2, at2

-----------------------------------------------------------------------------
(* Addresses and indices.                                                  *)
(* Integer division, for the split of an address into indices. *)
LEMMA DivMod ==
    ASSUME NEW x \in Nat, NEW d \in Nat \ {0}
    PROVE  /\ x \div d \in Nat /\ x % d \in Nat /\ x % d < d
           /\ x = (x \div d) * d + (x % d)
<1>1. d \in Nat /\ d > 0
  OBVIOUS
<1>2. x = (x \div d) * d + (x % d)
  BY <1>1
<1>3. x % d \in 0 .. (d - 1) /\ x \div d \in Nat
  BY <1>1
<1>4. x % d \in Nat /\ x % d < d
  BY <1>1, <1>3
<1> QED
  BY <1>2, <1>3, <1>4, Zenon

(* A quotient is determined by a remainder below the divisor. *)
LEMMA DivIs ==
    ASSUME NEW q \in Nat, NEW r \in Nat, NEW d \in Nat \ {0}, r < d
    PROVE  (q * d + r) \div d = q
<1> DEFINE x == q * d + r
<1>1. x \in Nat
  BY SMT
<1>2. /\ x \div d \in Nat /\ x % d \in Nat /\ x % d < d
      /\ x = (x \div d) * d + (x % d)
  BY <1>1, DivMod
<1> DEFINE p == x \div d
           s == x % d
<1>3. p \in Nat /\ s \in Nat /\ s < d /\ q * d + r = p * d + s
  BY <1>2
<1> HIDE DEF p, s
<1>4. CASE p > q
  <2>1. PICK k \in Nat : p = q + 1 + k
    BY <1>3, <1>4, p = q + 1 + (p - q - 1), p - q - 1 \in Nat
  <2>2. p * d = q * d + d + k * d /\ k * d \in Nat
    BY <1>3, <2>1, SMT
  <2> QED
    BY <1>3, <2>2, SMT
<1>5. CASE p < q
  <2>1. PICK k \in Nat : q = p + 1 + k
    BY <1>3, <1>5, q = p + 1 + (q - p - 1), q - p - 1 \in Nat
  <2>2. q * d = p * d + d + k * d /\ k * d \in Nat
    BY <1>3, <2>1, SMT
  <2> QED
    BY <1>3, <2>2, SMT
<1>6. p = q
  BY <1>3, <1>4, <1>5
<1> QED
  BY <1>6 DEF p

(* Dividing twice. *)
LEMMA DivDiv ==
    ASSUME NEW x \in Nat, NEW d \in Nat \ {0}, NEW e \in Nat \ {0}
    PROVE  x \div (e * d) = (x \div d) \div e
<1> DEFINE q == x \div d
           r == x % d
           p == q \div e
           s == q % e
<1>1. q \in Nat /\ r \in Nat /\ r < d /\ x = q * d + r
  BY DivMod
<1> HIDE DEF q, r
<1>2. p \in Nat /\ s \in Nat /\ s < e /\ q = p * e + s
  BY <1>1, DivMod
<1> HIDE DEF p, s
<1>3. PICK k \in Nat : e = s + 1 + k
  BY <1>2, e = s + 1 + (e - s - 1), e - s - 1 \in Nat
<1>4. s * d \in Nat /\ k * d \in Nat /\ e * d = s * d + d + k * d /\ e * d \in Nat \ {0}
  <2>1. s * d \in Nat /\ k * d \in Nat
    BY <1>2, <1>3, SMT
  <2>2. e * d = s * d + d + k * d
    BY <1>2, <1>3, SMT
  <2> QED
    BY <2>1, <2>2
<1>5. s * d + r \in Nat /\ s * d + r < e * d
  BY <1>1, <1>4
<1>6. x = p * (e * d) + (s * d + r)
  <2>1. q * d = p * (e * d) + s * d
    BY <1>2, SMT
  <2>2. p * (e * d) \in Nat
    BY <1>2, <1>4, SMT
  <2> QED
    BY <1>1, <1>4, <2>1, <2>2
<1>7. (p * (e * d) + (s * d + r)) \div (e * d) = p
  BY <1>2, <1>4, <1>5, DivIs, Zenon
<1> QED
  BY <1>6, <1>7 DEF p, q

(* The quotient of a number below n * d is below n. *)
LEMMA DivLess ==
    ASSUME NEW x \in Nat, NEW d \in Nat \ {0}, NEW n \in Nat, x < n * d
    PROVE  x \div d < n
<1> DEFINE q == x \div d
           r == x % d
<1>1. q \in Nat /\ r \in Nat /\ r < d /\ x = q * d + r
  BY DivMod
<1> HIDE DEF q, r
<1>2. CASE q >= n
  <2>1. PICK k \in Nat : q = n + k
    BY <1>1, <1>2, q = n + (q - n), q - n \in Nat
  <2>2. q * d = n * d + k * d /\ n * d \in Nat /\ k * d \in Nat
    BY <1>1, <2>1, SMT
  <2> QED
    BY <1>1, <2>2
<1> QED
  BY <1>1, <1>2 DEF q

(* translate, level by level, and that its indices fit a table. *)
LEMMA TranslateIs ==
    ASSUME NEW v \in Virtual
    PROVE  /\ v \in Nat /\ v \div Fan \in Nat
           /\ Translate(v).page = v % Fan
           /\ Translate(v).pt = (v \div Fan) % Fan
           /\ Translate(v).pd = ((v \div Fan) \div Fan) % Fan
           /\ Translate(v).pdp = ((v \div Fan) \div Fan) \div Fan
           /\ Translate(v).pdp \in Idx /\ Translate(v).pd \in Idx
           /\ Translate(v).pt \in Idx /\ Translate(v).page \in Idx
<1>1. Fan \in Nat \ {0} /\ v \in Nat /\ Top <= Fan * Fan * Fan * Fan /\ v < Top /\ Top \in Nat
  <2>1. Fan \in Nat \ {0} /\ Top \in 1 .. (Fan * Fan * Fan * Fan)
    BY PagerAssumption
  <2>2. Fan * Fan * Fan * Fan \in Nat
    BY <2>1, SMT
  <2> DEFINE N == Fan * Fan * Fan * Fan
  <2>3. N \in Nat /\ Top \in 1 .. N
    BY <2>1, <2>2
  <2> HIDE DEF N
  <2>4. Top \in Nat /\ Top <= N
    BY <2>3
  <2> QED
    BY <2>1, <2>4 DEF Virtual, N
<1>2. Fan * Fan \in Nat \ {0} /\ Fan * Fan * Fan \in Nat \ {0}
  <2>1. Fan * Fan \in Nat \ {0}
    BY <1>1, SMT
  <2> QED
    BY <1>1, <2>1, SMT
<1>3. v \div (Fan * Fan) = (v \div Fan) \div Fan
  BY <1>1, DivDiv
<1>4. v \div (Fan * Fan * Fan) = ((v \div Fan) \div Fan) \div Fan
  <2> DEFINE F2 == Fan * Fan
  <2>1. F2 \in Nat \ {0}
    BY <1>2
  <2>2. F2 * Fan = Fan * Fan * Fan
    OBVIOUS
  <2>3. v \div F2 = (v \div Fan) \div Fan
    BY <1>3
  <2>4. v \div Fan \in Nat
    BY <1>1, DivMod
  <2> HIDE DEF F2
  <2>5. v \div (F2 * Fan) = (v \div Fan) \div F2
    BY <1>1, <2>1, DivDiv
  <2>6. (v \div Fan) \div (Fan * Fan) = ((v \div Fan) \div Fan) \div Fan
    BY <1>1, <2>4, DivDiv
  <2> QED
    BY <2>2, <2>5, <2>6 DEF F2
<1>5. v \div (Fan * Fan * Fan) < Fan /\ v \div (Fan * Fan * Fan) \in Nat
  <2> DEFINE F3 == Fan * Fan * Fan
  <2>1. F3 \in Nat \ {0}
    BY <1>2
  <2>2. Fan * F3 = Fan * Fan * Fan * Fan
    BY <1>1, SMT
  <2> HIDE DEF F3
  <2>3. v < Fan * F3
    <3> DEFINE N == Fan * F3
    <3>1. Top <= N /\ N \in Nat
      BY <1>1, <2>1, <2>2
    <3> HIDE DEF N
    <3>2. v < N
      BY <1>1, <3>1
    <3> QED
      BY <3>2 DEF N
  <2>4. v \div F3 < Fan
    BY <1>1, <2>1, <2>3, DivLess
  <2>5. v \div F3 \in Nat
    BY <1>1, <2>1, DivMod
  <2> QED
    BY <2>4, <2>5 DEF F3
<1>6. v \div Fan \in Nat /\ (v \div Fan) \div Fan \in Nat
  BY <1>1, DivMod
<1>7. Translate(v) = [pdp |-> v \div (Fan * Fan * Fan), pd |-> (v \div (Fan * Fan)) % Fan,
                      pt |-> (v \div Fan) % Fan, page |-> v % Fan]
  BY DEF Translate, Indices
<1>8. \A n \in Nat : n % Fan \in Idx
  <2> TAKE n \in Nat
  <2>1. n % Fan \in Nat /\ n % Fan < Fan
    BY <1>1, DivMod
  <2> QED
    BY <1>1, <2>1 DEF Idx
<1>9. \A n \in Nat : n < Fan => n \in Idx
  BY <1>1 DEF Idx
<1>71. /\ Translate(v).page = v % Fan
       /\ Translate(v).pt = (v \div Fan) % Fan
       /\ Translate(v).pd = (v \div (Fan * Fan)) % Fan
       /\ Translate(v).pdp = v \div (Fan * Fan * Fan)
  <2> DEFINE A == v \div (Fan * Fan * Fan)
             B == (v \div (Fan * Fan)) % Fan
             C == (v \div Fan) % Fan
             D == v % Fan
  <2>1. Translate(v) = [pdp |-> A, pd |-> B, pt |-> C, page |-> D]
    BY <1>7
  <2> HIDE DEF A, B, C, D
  <2>2. Translate(v).page = D /\ Translate(v).pt = C /\ Translate(v).pd = B
        /\ Translate(v).pdp = A
    BY <2>1
  <2> QED
    BY <2>2 DEF A, B, C, D
<1>10. /\ Translate(v).page = v % Fan
       /\ Translate(v).pt = (v \div Fan) % Fan
       /\ Translate(v).pd = ((v \div Fan) \div Fan) % Fan
       /\ Translate(v).pdp = ((v \div Fan) \div Fan) \div Fan
  BY <1>3, <1>4, <1>71, Zenon
<1>11. Translate(v).pdp \in Idx
  BY <1>4, <1>5, <1>9, <1>10, Zenon
<1> QED
  BY <1>1, <1>6, <1>8, <1>10, <1>11, Zenon

(* Two addresses go through the same tables if they lie in the same large page. *)
LEMMA SameSlot ==
    ASSUME NEW v \in Virtual, NEW w \in Virtual
    PROVE  /\ v \div Fan = w \div Fan <=> /\ Translate(v).pdp = Translate(w).pdp
                                          /\ Translate(v).pd = Translate(w).pd
                                          /\ Translate(v).pt = Translate(w).pt
           /\ v \div Fan = w \div Fan /\ Translate(v).page = Translate(w).page => v = w
<1>1. Fan \in Nat \ {0}
  BY PagerAssumption
<1>2. ASSUME NEW x \in Nat, NEW y \in Nat, x \div Fan = y \div Fan, x % Fan = y % Fan
      PROVE  x = y
  <2>1. x = (x \div Fan) * Fan + (x % Fan) /\ y = (y \div Fan) * Fan + (y % Fan)
    BY <1>1, DivMod, Zenon
  <2> QED
    BY <1>2, <2>1, Zenon
<1>3. /\ v \in Nat /\ v \div Fan \in Nat /\ (v \div Fan) \div Fan \in Nat
      /\ w \in Nat /\ w \div Fan \in Nat /\ (w \div Fan) \div Fan \in Nat
  BY <1>1, TranslateIs, DivMod, Zenon
<1>31. /\ Translate(v).pt = (v \div Fan) % Fan /\ Translate(v).page = v % Fan
       /\ Translate(v).pd = ((v \div Fan) \div Fan) % Fan
       /\ Translate(v).pdp = ((v \div Fan) \div Fan) \div Fan
  BY TranslateIs, Zenon
<1>32. /\ Translate(w).pt = (w \div Fan) % Fan /\ Translate(w).page = w % Fan
       /\ Translate(w).pd = ((w \div Fan) \div Fan) % Fan
       /\ Translate(w).pdp = ((w \div Fan) \div Fan) \div Fan
  BY TranslateIs, Zenon
<1>4. ASSUME Translate(v).pdp = Translate(w).pdp, Translate(v).pd = Translate(w).pd,
             Translate(v).pt = Translate(w).pt
      PROVE  v \div Fan = w \div Fan
  <2> DEFINE x == v \div Fan
             y == w \div Fan
  <2>1. x \in Nat /\ y \in Nat /\ x \div Fan \in Nat /\ y \div Fan \in Nat
    BY <1>3
  <2>2. x % Fan = y % Fan /\ (x \div Fan) % Fan = (y \div Fan) % Fan
        /\ (x \div Fan) \div Fan = (y \div Fan) \div Fan
    BY <1>31, <1>32, <1>4, Zenon
  <2> HIDE DEF x, y
  <2>3. x \div Fan = y \div Fan
    BY <1>2, <2>1, <2>2, Zenon
  <2>4. x = y
    BY <1>2, <2>1, <2>2, <2>3, Zenon
  <2> QED
    BY <2>4 DEF x, y
<1>5. v \div Fan = w \div Fan => /\ Translate(v).pdp = Translate(w).pdp
                                 /\ Translate(v).pd = Translate(w).pd
                                 /\ Translate(v).pt = Translate(w).pt
  BY <1>31, <1>32, Zenon
<1>6. v \div Fan = w \div Fan /\ Translate(v).page = Translate(w).page => v = w
  BY <1>2, <1>3, <1>31, <1>32, Zenon
<1> QED
  BY <1>4, <1>5, <1>6, Zenon

-----------------------------------------------------------------------------
(* The walk of an address through the tables.                              *)
(* The entries of a walk from the root r to the page v. *)
E1(m, r, v) == m[r][Translate(v).pdp]
E2(m, r, v) == m[E1(m, r, v).addr][Translate(v).pd]
E3(m, r, v) == m[E2(m, r, v).addr][Translate(v).pt]
E4(m, r, v) == m[E3(m, r, v).addr][Translate(v).page]

(* Where it ends. *)
View(m, r, v) ==
    IF r = 0 \/ ~Present(m, r, v) THEN -1
    ELSE IF IsLarge(m, r, v) THEN LeafOf(m, r, v).addr + (v % Fan)
    ELSE LeafOf(m, r, v).addr

Seen(e1, e2, e3, e4, v) ==
    IF ~("P" \in e1.flags /\ "P" \in e2.flags /\ "P" \in e3.flags) THEN -1
    ELSE IF "PS" \in e3.flags THEN e3.addr + (v % Fan)
    ELSE IF "P" \in e4.flags THEN e4.addr
    ELSE -1

(* View depends on the four entries of the walk only. *)
LEMMA ViewIs ==
    ASSUME NEW m, NEW r, r # 0, NEW v
    PROVE  View(m, r, v) = Seen(E1(m, r, v), E2(m, r, v), E3(m, r, v), E4(m, r, v), v)
<1>1. Present(m, r, v) <=>
        /\ "P" \in E1(m, r, v).flags /\ "P" \in E2(m, r, v).flags /\ "P" \in E3(m, r, v).flags
        /\ "PS" \in E3(m, r, v).flags \/ "P" \in E4(m, r, v).flags
  BY DEF Present, E1, E2, E3, E4
<1>2. IsLarge(m, r, v) <=> "PS" \in E3(m, r, v).flags
  BY DEF IsLarge, PtOf, PdOf, E1, E2, E3
<1>3. LeafOf(m, r, v) = IF "PS" \in E3(m, r, v).flags THEN E3(m, r, v) ELSE E4(m, r, v)
  BY <1>2 DEF LeafOf, PtOf, PdOf, E1, E2, E3, E4
<1> QED
  BY <1>1, <1>2, <1>3 DEF View, Seen

Whole(e) == "PS" \in e.flags

(* What an entry that points to a table says. *)
LEMMA ChildIs ==
    ASSUME NEW lev, NEW up, NEW at, NEW m, NEW t, NEW i, Child(lev, up, at, m, t, i), NEW e,
           e = m[t][i]
    PROVE  /\ e.addr \in Frames /\ lev[e.addr] = lev[t] + 1
           /\ up[e.addr] = t /\ at[e.addr] = i /\ "PS" \notin e.flags
  BY DEF Child

(* The four tables of a walk, each at its level; 0 where there is none. *)
LEMMA WalkLevels ==
    ASSUME NEW lev, NEW up, NEW at, NEW m, NEW tk, Tree(lev, up, at, m, tk), RootsApart,
           NEW r \in Roots, NEW v \in Virtual
    PROVE  LET a == Translate(v)
               e1 == E1(m, r, v)
               e2 == E2(m, r, v)
               e3 == E3(m, r, v)
               e4 == E4(m, r, v)
           IN /\ r \in Frames /\ lev[r] = 1 /\ r # 0 /\ 0 \in Frames /\ lev[0] = 0
              /\ \/ e1 = Zero /\ e2 = Zero /\ e3 = Zero /\ e4 = Zero
                 \/ /\ e1 # Zero /\ Child(lev, up, at, m, r, a.pdp)
                    /\ e1.addr \in Frames /\ lev[e1.addr] = 2
                    /\ \/ e2 = Zero /\ e3 = Zero /\ e4 = Zero
                       \/ /\ e2 # Zero /\ Child(lev, up, at, m, e1.addr, a.pd)
                          /\ e2.addr \in Frames /\ lev[e2.addr] = 3
                          /\ \/ e3 = Zero /\ e4 = Zero
                             \/ Whole(e3)
                             \/ /\ e3 # Zero /\ ~Whole(e3)
                                /\ Child(lev, up, at, m, e2.addr, a.pt)
                                /\ e3.addr \in Frames /\ lev[e3.addr] = 4
<1> DEFINE a == Translate(v)
           e1 == E1(m, r, v)
           e2 == E2(m, r, v)
           e3 == E3(m, r, v)
           e4 == E4(m, r, v)
<1>1. /\ a.pdp \in Idx /\ a.pd \in Idx /\ a.pt \in Idx /\ a.page \in Idx
  BY TranslateIs
<1>2. r \in Frames /\ lev[r] = 1 /\ r # 0
  BY DEF Roots, RootsApart, Tree, Levels
<1>3. 0 \in Frames /\ lev[0] = 0 /\ m[0] = ZeroTable
  BY PagerAssumption DEF Tree, Levels, Shape
<1>4. \A i \in Idx : m[0][i] = Zero
  BY <1>3 DEF ZeroTable
<1>5. Zero.addr = 0
  BY DEF Zero
<1>6. e1 = m[r][a.pdp] /\ e2 = m[e1.addr][a.pd] /\ e3 = m[e2.addr][a.pt]
      /\ e4 = m[e3.addr][a.page]
  BY DEF E1, E2, E3, E4
<1> HIDE DEF a, e1, e2, e3, e4
<1>7. e1 = Zero \/ (Child(lev, up, at, m, r, a.pdp) /\ e1 # Zero)
  BY <1>1, <1>2, <1>6 DEF Tree, Down
<1>8. e1 = Zero => e2 = Zero
  BY <1>1, <1>4, <1>5, <1>6
<1>9. e2 = Zero => e3 = Zero
  BY <1>1, <1>4, <1>5, <1>6
<1>10. e3 = Zero => e4 = Zero
  BY <1>1, <1>4, <1>5, <1>6
<1>11. ASSUME e1 # Zero
       PROVE  /\ Child(lev, up, at, m, r, a.pdp) /\ e1.addr \in Frames /\ lev[e1.addr] = 2
              /\ e2 = Zero \/ Child(lev, up, at, m, e1.addr, a.pd)
  <2>1. Child(lev, up, at, m, r, a.pdp) /\ e1.addr \in Frames /\ lev[e1.addr] = 2
    <3>1. Child(lev, up, at, m, r, a.pdp) /\ e1 = m[r][a.pdp]
      BY <1>6, <1>7, <1>11
    <3>2. e1.addr \in Frames /\ lev[e1.addr] = lev[r] + 1
      BY <3>1, ChildIs
    <3> QED
      BY <1>2, <3>1, <3>2
  <2> QED
    BY <1>1, <1>6, <2>1 DEF Tree, Down
<1>12. ASSUME e1 # Zero, e2 # Zero
       PROVE  /\ e2.addr \in Frames /\ lev[e2.addr] = 3
              /\ e3 = Zero \/ Whole(e3) \/ Child(lev, up, at, m, e2.addr, a.pt)
  <2>1. e2.addr \in Frames /\ lev[e2.addr] = 3
    <3>1. Child(lev, up, at, m, e1.addr, a.pd) /\ e2 = m[e1.addr][a.pd]
      BY <1>6, <1>11, <1>12
    <3>2. e2.addr \in Frames /\ lev[e2.addr] = lev[e1.addr] + 1
      BY <3>1, ChildIs
    <3> QED
      BY <1>11, <1>12, <3>2
  <2> QED
    BY <1>1, <1>6, <2>1 DEF Tree, Down, Whole
<1>13. ASSUME e1 # Zero, e2 # Zero, e3 # Zero, ~Whole(e3)
       PROVE  /\ Child(lev, up, at, m, e2.addr, a.pt)
              /\ e3.addr \in Frames /\ lev[e3.addr] = 4
  <2>1. Child(lev, up, at, m, e2.addr, a.pt) /\ e3 = m[e2.addr][a.pt]
    BY <1>6, <1>12, <1>13
  <2>2. e3.addr \in Frames /\ lev[e3.addr] = lev[e2.addr] + 1
    BY <2>1, ChildIs
  <2> QED
    BY <1>12, <1>13, <2>1, <2>2
<1>14. \/ e1 = Zero /\ e2 = Zero /\ e3 = Zero /\ e4 = Zero
       \/ /\ e1 # Zero /\ Child(lev, up, at, m, r, a.pdp)
          /\ e1.addr \in Frames /\ lev[e1.addr] = 2
          /\ \/ e2 = Zero /\ e3 = Zero /\ e4 = Zero
             \/ /\ e2 # Zero /\ Child(lev, up, at, m, e1.addr, a.pd)
                /\ e2.addr \in Frames /\ lev[e2.addr] = 3
                /\ \/ e3 = Zero /\ e4 = Zero
                   \/ Whole(e3)
                   \/ /\ e3 # Zero /\ ~Whole(e3)
                      /\ Child(lev, up, at, m, e2.addr, a.pt)
                      /\ e3.addr \in Frames /\ lev[e3.addr] = 4
  BY <1>8, <1>9, <1>10, <1>11, <1>12, <1>13
<1> QED
  BY <1>2, <1>3, <1>14 DEF a, e1, e2, e3, e4

(* Whether a walk uses the entry i of the table t. *)
Uses(lev, m, r, v, t, i) ==
    \/ lev[t] = 1 /\ r = t /\ Translate(v).pdp = i
    \/ lev[t] = 2 /\ E1(m, r, v).addr = t /\ Translate(v).pd = i
    \/ lev[t] = 3 /\ E2(m, r, v).addr = t /\ Translate(v).pt = i
    \/ /\ lev[t] = 4 /\ ~Whole(E3(m, r, v))
       /\ E3(m, r, v).addr = t /\ Translate(v).page = i

(* A store to one entry of the tables. *)
Stored(lev, m, m2, t, i) ==
    \A g \in Frames, j \in Idx :
      (g = 0 \/ lev[g] \in {1, 2, 3, 4}) /\ (g # t \/ j # i) => m2[g][j] = m[g][j]

(* The entries above the one that is stored are what they were; so are those *)
(* of a walk that does not use it.                                           *)
LEMMA WalkKept ==
    ASSUME NEW lev, NEW up, NEW at, NEW m, NEW tk, Tree(lev, up, at, m, tk), RootsApart,
           NEW r \in Roots, NEW v \in Virtual,
           NEW m2, NEW t \in Frames, NEW i, lev[t] \in {1, 2, 3, 4},
           Stored(lev, m, m2, t, i)
    PROVE  /\ lev[t] > 1 \/ ~Uses(lev, m, r, v, t, i) => E1(m2, r, v) = E1(m, r, v)
           /\ lev[t] > 2 \/ ~Uses(lev, m, r, v, t, i) => E2(m2, r, v) = E2(m, r, v)
           /\ lev[t] > 3 \/ ~Uses(lev, m, r, v, t, i) => E3(m2, r, v) = E3(m, r, v)
           /\ ~Uses(lev, m, r, v, t, i) => \/ Whole(E3(m, r, v))
                                          \/ E4(m2, r, v) = E4(m, r, v)
<1> DEFINE a == Translate(v)
           u == Uses(lev, m, r, v, t, i)
<1>1. /\ a.pdp \in Idx /\ a.pd \in Idx /\ a.pt \in Idx /\ a.page \in Idx
  BY TranslateIs
<1>2. r \in Frames /\ lev[r] = 1 /\ 0 \in Frames /\ lev[0] = 0
  BY WalkLevels
<1>3. /\ E1(m, r, v) = m[r][a.pdp] /\ E2(m, r, v) = m[E1(m, r, v).addr][a.pd]
      /\ E3(m, r, v) = m[E2(m, r, v).addr][a.pt] /\ E4(m, r, v) = m[E3(m, r, v).addr][a.page]
  BY DEF E1, E2, E3, E4
<1>4. /\ E1(m2, r, v) = m2[r][a.pdp] /\ E2(m2, r, v) = m2[E1(m2, r, v).addr][a.pd]
      /\ E3(m2, r, v) = m2[E2(m2, r, v).addr][a.pt]
      /\ E4(m2, r, v) = m2[E3(m2, r, v).addr][a.page]
  BY DEF E1, E2, E3, E4
<1>5. Zero.addr = 0
  BY DEF Zero
<1>6. ASSUME lev[t] > 1 \/ ~u PROVE E1(m2, r, v) = E1(m, r, v)
  <2>1. r # t \/ a.pdp # i
    BY <1>2, <1>6 DEF Uses
  <2> QED
    BY <1>1, <1>2, <1>3, <1>4, <2>1 DEF Stored
<1>7. E1(m, r, v) = Zero \/ (E1(m, r, v).addr \in Frames /\ lev[E1(m, r, v).addr] = 2)
  BY WalkLevels
<1>8. ASSUME lev[t] > 2 \/ ~u PROVE E2(m2, r, v) = E2(m, r, v)
  <2>1. E1(m2, r, v) = E1(m, r, v)
    BY <1>6, <1>8
  <2>2. E1(m, r, v).addr # t \/ a.pd # i
    BY <1>2, <1>5, <1>7, <1>8 DEF Uses
  <2> QED
    <3> DEFINE T == E1(m, r, v).addr
    <3>1. T \in Frames /\ (T = 0 \/ lev[T] \in {1, 2, 3, 4})
      BY <1>2, <1>5, <1>7
    <3>2. m2[T][a.pd] = m[T][a.pd]
      BY <1>1, <2>2, <3>1 DEF Stored
    <3> QED
      BY <1>3, <1>4, <2>1, <3>2
<1>9. E2(m, r, v) = Zero \/ (E2(m, r, v).addr \in Frames /\ lev[E2(m, r, v).addr] = 3)
  BY WalkLevels
<1>10. ASSUME lev[t] > 3 \/ ~u PROVE E3(m2, r, v) = E3(m, r, v)
  <2>1. E2(m2, r, v) = E2(m, r, v)
    BY <1>8, <1>10
  <2>2. E2(m, r, v).addr # t \/ a.pt # i
    BY <1>2, <1>5, <1>9, <1>10 DEF Uses
  <2> QED
    <3> DEFINE T == E2(m, r, v).addr
    <3>1. T \in Frames /\ (T = 0 \/ lev[T] \in {1, 2, 3, 4})
      BY <1>2, <1>5, <1>9
    <3>2. m2[T][a.pt] = m[T][a.pt]
      BY <1>1, <2>2, <3>1 DEF Stored
    <3> QED
      BY <1>3, <1>4, <2>1, <3>2
<1>11. \/ Whole(E3(m, r, v)) \/ E3(m, r, v) = Zero
       \/ (E3(m, r, v).addr \in Frames /\ lev[E3(m, r, v).addr] = 4)
  BY WalkLevels
<1>12. ASSUME ~u, ~Whole(E3(m, r, v)) PROVE E4(m2, r, v) = E4(m, r, v)
  <2>1. E3(m2, r, v) = E3(m, r, v)
    BY <1>10, <1>12
  <2>2. E3(m, r, v).addr # t \/ a.page # i
    BY <1>2, <1>5, <1>11, <1>12 DEF Uses
  <2> QED
    <3> DEFINE T == E3(m, r, v).addr
    <3>1. T \in Frames /\ (T = 0 \/ lev[T] \in {1, 2, 3, 4})
      BY <1>2, <1>5, <1>11, <1>12
    <3>2. m2[T][a.page] = m[T][a.page]
      BY <1>1, <2>2, <3>1 DEF Stored
    <3> QED
      BY <1>3, <1>4, <2>1, <3>2
<1> QED
  BY <1>6, <1>8, <1>10, <1>12

(* A store elsewhere does not change where a walk ends. *)
LEMMA ViewKept ==
    ASSUME NEW lev, NEW up, NEW at, NEW m, NEW tk, Tree(lev, up, at, m, tk), RootsApart,
           NEW r \in Roots, NEW v \in Virtual,
           NEW m2, NEW t \in Frames, NEW i, lev[t] \in {1, 2, 3, 4},
           Stored(lev, m, m2, t, i), ~Uses(lev, m, r, v, t, i)
    PROVE  View(m2, r, v) = View(m, r, v)
<1>1. /\ E1(m2, r, v) = E1(m, r, v) /\ E2(m2, r, v) = E2(m, r, v)
      /\ E3(m2, r, v) = E3(m, r, v)
      /\ Whole(E3(m, r, v)) \/ E4(m2, r, v) = E4(m, r, v)
  BY WalkKept
<1>2. r # 0
  BY DEF Roots
<1>3. /\ View(m, r, v) = Seen(E1(m, r, v), E2(m, r, v), E3(m, r, v), E4(m, r, v), v)
      /\ View(m2, r, v) = Seen(E1(m2, r, v), E2(m2, r, v), E3(m2, r, v), E4(m2, r, v), v)
  BY <1>2, ViewIs
<1> QED
  BY <1>1, <1>3 DEF Seen, Whole

-----------------------------------------------------------------------------
(* What stores and new tables do to the walks.                             *)
SameViews(m, m2) == \A r \in Roots, v \in Virtual : View(m2, r, v) = View(m, r, v)

(* A store to an entry keeps the tree: a leaf, a large page where nothing was, *)
(* or other flags for a table.                                                 *)
LEMMA StoreKeeps ==
    ASSUME NEW lev, NEW up, NEW at, NEW m, NEW tk, Tree(lev, up, at, m, tk),
           NEW t \in Frames, NEW i \in Idx, NEW e \in Entries,
           \/ lev[t] = 4
           \/ lev[t] = 3 /\ m[t][i] = Zero /\ "PS" \in e.flags
           \/ /\ lev[t] \in {1, 2} /\ m[t][i] # Zero /\ e.addr = m[t][i].addr
              /\ "PS" \notin e.flags,
           NEW m2, m2 = SetEntry(m, t, i, e)
    PROVE  Tree(lev, up, at, m2, tk) /\ Stored(lev, m, m2, t, i) /\ m2[t][i] = e
<1>1. /\ lev \in [Frames -> 0 .. 5] /\ up \in [Frames -> Frames] /\ at \in [Frames -> Idx]
      /\ m \in [Frames -> [Idx -> Entries]] /\ 0 \in Frames /\ lev[0] = 0
  BY PagerAssumption DEF Tree, Levels, Up, Shape
<1>2. /\ m2 \in [Frames -> [Idx -> Entries]] /\ m2[t][i] = e
      /\ \A g \in Frames, j \in Idx : g # t \/ j # i => m2[g][j] = m[g][j]
      /\ \A g \in Frames : g # t => m2[g] = m[g]
  BY <1>1 DEF SetEntry
<1>3. Shape(m2, tk)
  BY <1>2 DEF Tree, Shape
<1>4. Levels(lev, m2, tk)
  BY <1>1, <1>2 DEF Tree, Levels
<1>5. Down(lev, up, at, m2)
  <2> SUFFICES ASSUME NEW g \in Frames, NEW j \in Idx
               PROVE  /\ lev[g] \in {1, 2} => m2[g][j] = Zero \/ Child(lev, up, at, m2, g, j)
                      /\ lev[g] = 3 => \/ m2[g][j] = Zero
                                       \/ "PS" \in m2[g][j].flags
                                       \/ Child(lev, up, at, m2, g, j)
    BY DEF Down
  <2>1. CASE g = t /\ j = i
    <3>1. CASE lev[t] \in {3, 4}
      BY <1>2, <2>1, <3>1
    <3>2. CASE lev[t] \in {1, 2}
      <4>1. Child(lev, up, at, m, t, i)
        BY <3>2 DEF Tree, Down
      <4>2. Child(lev, up, at, m2, t, i)
        BY <1>2, <3>2, <4>1 DEF Child
      <4> QED
        BY <2>1, <3>2, <4>2
    <3> QED
      BY <3>1, <3>2
  <2>2. CASE g # t \/ j # i
    <3>1. m2[g][j] = m[g][j]
      BY <1>2, <2>2
    <3>2. Child(lev, up, at, m, g, j) => Child(lev, up, at, m2, g, j)
      BY <3>1 DEF Child
    <3> QED
      BY <3>1, <3>2 DEF Tree, Down
  <2> QED
    BY <2>1, <2>2
<1>6. Up(lev, up, at, m2)
  <2> SUFFICES ASSUME NEW g \in Frames, lev[g] \in {2, 3, 4}
               PROVE  /\ lev[up[g]] = lev[g] - 1
                      /\ m2[up[g]][at[g]].addr = g /\ "PS" \notin m2[up[g]][at[g]].flags
    BY <1>1 DEF Up
  <2>1. /\ lev[up[g]] = lev[g] - 1 /\ up[g] \in Frames /\ at[g] \in Idx
        /\ m[up[g]][at[g]].addr = g /\ "PS" \notin m[up[g]][at[g]].flags
    BY <1>1 DEF Tree, Up
  <2>2. CASE up[g] = t /\ at[g] = i
    <3>1. m[t][i] # Zero
      BY <1>1, <2>1, <2>2 DEF Zero
    <3>2. lev[t] \in {1, 2}
      BY <2>1, <2>2, <3>1
    <3> QED
      BY <1>2, <2>1, <2>2, <3>2
  <2>3. CASE up[g] # t \/ at[g] # i
    BY <1>2, <2>1, <2>3
  <2> QED
    BY <2>2, <2>3
<1>7. Stored(lev, m, m2, t, i)
  BY <1>2 DEF Stored
<1> QED
  BY <1>2, <1>3, <1>4, <1>5, <1>6, <1>7 DEF Tree

(* A new table shows what its entry showed. *)
LEMMA AllocateViews ==
    ASSUME NEW lev, NEW up, NEW at, NEW m, NEW tk, Tree(lev, up, at, m, tk), RootsApart,
           NEW t \in Frames, NEW i \in Idx, lev[t] \in {1, 2, 3},
           NEW f \in Frames, lev[f] = 0, f # 0,
           NEW contents, NEW flags, "PS" \notin flags,
           \/ m[t][i] = Zero /\ contents = ZeroTable
           \/ /\ lev[t] = 3 /\ Whole(m[t][i])
              /\ contents = [j \in Idx |-> [addr |-> m[t][i].addr + j,
                                            flags |-> m[t][i].flags \ {"PS"}]]
              /\ flags = (m[t][i].flags \ {"PS"}) \cup {"STAB"},
           NEW m2, m2 = NewTable(m, f, t, i, contents, flags)
    PROVE  SameViews(m, m2)
<1> SUFFICES ASSUME NEW r \in Roots, NEW v \in Virtual
             PROVE  View(m2, r, v) = View(m, r, v)
  BY DEF SameViews
<1> DEFINE a == Translate(v)
           d == [addr |-> f, flags |-> flags]
<1>1. m \in [Frames -> [Idx -> Entries]] /\ f # t
  BY DEF Tree, Shape
<1>2. /\ m2[f] = contents /\ m2[t][i] = d
      /\ \A g \in Frames, j \in Idx : g # f /\ (g # t \/ j # i) => m2[g][j] = m[g][j]
  BY <1>1 DEF NewTable
<1>3. Stored(lev, m, m2, t, i)
  <2>1. \A g \in Frames : g = 0 \/ lev[g] \in {1, 2, 3, 4} => g # f
    OBVIOUS
  <2> QED
    BY <1>2, <2>1, Zenon DEF Stored
<1>4. CASE ~Uses(lev, m, r, v, t, i)
  BY <1>3, <1>4, ViewKept
<1>5. /\ a.pdp \in Idx /\ a.pd \in Idx /\ a.pt \in Idx /\ a.page \in Idx
      /\ a.page = v % Fan /\ r # 0
  BY TranslateIs DEF Roots
<1>6. /\ E1(m, r, v) = m[r][a.pdp] /\ E2(m, r, v) = m[E1(m, r, v).addr][a.pd]
      /\ E3(m, r, v) = m[E2(m, r, v).addr][a.pt]
  BY DEF E1, E2, E3
<1>7. /\ E1(m2, r, v) = m2[r][a.pdp] /\ E2(m2, r, v) = m2[E1(m2, r, v).addr][a.pd]
      /\ E3(m2, r, v) = m2[E2(m2, r, v).addr][a.pt]
      /\ E4(m2, r, v) = m2[E3(m2, r, v).addr][a.page]
  BY DEF E1, E2, E3, E4
<1>8. /\ View(m, r, v) = Seen(E1(m, r, v), E2(m, r, v), E3(m, r, v), E4(m, r, v), v)
      /\ View(m2, r, v) = Seen(E1(m2, r, v), E2(m2, r, v), E3(m2, r, v), E4(m2, r, v), v)
  BY <1>5, ViewIs
<1>9. d.addr = f /\ d.flags = flags /\ "P" \notin Zero.flags /\ "PS" \notin Zero.flags
  BY DEF Zero
<1> HIDE DEF a, d
<1>10. ASSUME m[t][i] = Zero, contents = ZeroTable, Uses(lev, m, r, v, t, i)
       PROVE  View(m, r, v) = -1 /\ View(m2, r, v) = -1
  <2>1. \A j \in Idx : m2[f][j] = Zero
    BY <1>2, <1>10 DEF ZeroTable
  <2>2. CASE lev[t] = 1
    <3>1. r = t /\ a.pdp = i
      BY <1>10, <2>2 DEF Uses, a
    <3>2. E1(m, r, v) = Zero
      BY <1>6, <1>10, <3>1
    <3>3. E2(m2, r, v) = Zero
      <4>1. E1(m2, r, v) = d
        BY <1>2, <1>7, <3>1
      <4>2. E2(m2, r, v) = m2[f][a.pd]
        BY <1>7, <1>9, <4>1
      <4> QED
        BY <1>5, <2>1, <4>2
    <3> QED
      BY <1>8, <1>9, <3>2, <3>3 DEF Seen
  <2>3. CASE lev[t] = 2
    <3>1. E1(m, r, v).addr = t /\ a.pd = i
      BY <1>10, <2>3 DEF Uses, a
    <3>2. E1(m2, r, v) = E1(m, r, v)
      BY <1>3, <2>3, WalkKept
    <3>3. E2(m, r, v) = Zero
      BY <1>6, <1>10, <3>1
    <3>4. E3(m2, r, v) = Zero
      <4>1. E2(m2, r, v) = d
        BY <1>2, <1>7, <3>1, <3>2
      <4>2. E3(m2, r, v) = m2[f][a.pt]
        BY <1>7, <1>9, <4>1
      <4> QED
        BY <1>5, <2>1, <4>2
    <3> QED
      BY <1>8, <1>9, <3>3, <3>4 DEF Seen
  <2>4. CASE lev[t] = 3
    <3>1. E2(m, r, v).addr = t /\ a.pt = i
      BY <1>10, <2>4 DEF Uses, a
    <3>2. E2(m2, r, v) = E2(m, r, v)
      BY <1>3, <2>4, WalkKept
    <3>3. E3(m, r, v) = Zero
      BY <1>6, <1>10, <3>1
    <3>4. E3(m2, r, v) = d
      BY <1>2, <1>7, <3>1, <3>2
    <3>5. E4(m2, r, v) = Zero
      BY <1>5, <1>7, <1>9, <2>1, <3>4
    <3> QED
      BY <1>8, <1>9, <3>3, <3>4, <3>5 DEF Seen
  <2> QED
    BY <2>2, <2>3, <2>4
<1>11. ASSUME lev[t] = 3, Whole(m[t][i]), Uses(lev, m, r, v, t, i),
              contents = [j \in Idx |-> [addr |-> m[t][i].addr + j,
                                         flags |-> m[t][i].flags \ {"PS"}]],
              flags = (m[t][i].flags \ {"PS"}) \cup {"STAB"}
       PROVE  View(m2, r, v) = View(m, r, v)
  <2>1. E2(m, r, v).addr = t /\ a.pt = i
    BY <1>11 DEF Uses, a
  <2>2. E1(m2, r, v) = E1(m, r, v) /\ E2(m2, r, v) = E2(m, r, v)
    BY <1>3, <1>11, WalkKept
  <2>3. E3(m, r, v) = m[t][i]
    BY <1>6, <2>1
  <2>4. E3(m2, r, v) = d
    BY <1>2, <1>7, <2>1, <2>2
  <2>5. E4(m2, r, v) = [addr |-> m[t][i].addr + a.page, flags |-> m[t][i].flags \ {"PS"}]
    <3>1. E4(m2, r, v) = m2[f][a.page]
      BY <1>7, <1>9, <2>4
    <3>2. E4(m2, r, v) = contents[a.page]
      BY <1>2, <3>1
    <3> QED
      BY <1>5, <1>11, <3>2
  <2>6. /\ E4(m2, r, v).addr = m[t][i].addr + (v % Fan)
        /\ "P" \in E4(m2, r, v).flags <=> "P" \in m[t][i].flags
    BY <1>5, <2>5
  <2>7. /\ "PS" \notin E3(m2, r, v).flags
        /\ "P" \in E3(m2, r, v).flags <=> "P" \in m[t][i].flags
    BY <1>9, <1>11, <2>4
  <2> QED
    BY <1>8, <1>11, <2>2, <2>3, <2>6, <2>7 DEF Seen, Whole
<1> QED
  BY <1>4, <1>10, <1>11

(* Other permissions for a table change no page's place. *)
LEMMA FlagViews ==
    ASSUME NEW lev, NEW up, NEW at, NEW m, NEW tk, Tree(lev, up, at, m, tk), RootsApart,
           NEW t \in Frames, NEW i \in Idx, lev[t] \in {1, 2}, NEW m2, NEW e,
           e.addr = m[t][i].addr, "P" \in e.flags <=> "P" \in m[t][i].flags,
           Stored(lev, m, m2, t, i), m2[t][i] = e
    PROVE  SameViews(m, m2)
<1> SUFFICES ASSUME NEW r \in Roots, NEW v \in Virtual
             PROVE  View(m2, r, v) = View(m, r, v)
  BY DEF SameViews
<1> DEFINE a == Translate(v)
<1>4. CASE ~Uses(lev, m, r, v, t, i)
  BY <1>4, ViewKept
<1>5. /\ a.pdp \in Idx /\ a.pd \in Idx /\ a.pt \in Idx /\ a.page \in Idx /\ r # 0
  BY TranslateIs DEF Roots
<1>6. /\ E1(m, r, v) = m[r][a.pdp] /\ E2(m, r, v) = m[E1(m, r, v).addr][a.pd]
      /\ E3(m, r, v) = m[E2(m, r, v).addr][a.pt] /\ E4(m, r, v) = m[E3(m, r, v).addr][a.page]
  BY DEF E1, E2, E3, E4
<1>7. /\ E1(m2, r, v) = m2[r][a.pdp] /\ E2(m2, r, v) = m2[E1(m2, r, v).addr][a.pd]
      /\ E3(m2, r, v) = m2[E2(m2, r, v).addr][a.pt]
      /\ E4(m2, r, v) = m2[E3(m2, r, v).addr][a.page]
  BY DEF E1, E2, E3, E4
<1>8. /\ View(m, r, v) = Seen(E1(m, r, v), E2(m, r, v), E3(m, r, v), E4(m, r, v), v)
      /\ View(m2, r, v) = Seen(E1(m2, r, v), E2(m2, r, v), E3(m2, r, v), E4(m2, r, v), v)
  BY <1>5, ViewIs
<1>9. Zero.addr = 0 /\ lev[0] = 0 /\ 0 \in Frames
  BY WalkLevels DEF Zero
<1> HIDE DEF a
<1>10. ASSUME NEW g, NEW j \in Idx, g # t, g = 0 \/ (g \in Frames /\ lev[g] \in {3, 4})
               \/ (g \in Frames /\ lev[g] = 2)
       PROVE  m2[g][j] = m[g][j]
  BY <1>9, <1>10 DEF Stored
<1>11. \/ E1(m, r, v) = Zero
       \/ E1(m, r, v).addr \in Frames /\ lev[E1(m, r, v).addr] = 2
  BY WalkLevels
<1>12. \/ E2(m, r, v) = Zero
       \/ E2(m, r, v).addr \in Frames /\ lev[E2(m, r, v).addr] = 3
  BY WalkLevels
<1>13. \/ Whole(E3(m, r, v)) \/ E3(m, r, v) = Zero
       \/ E3(m, r, v).addr \in Frames /\ lev[E3(m, r, v).addr] = 4
  BY WalkLevels
<1>14. ASSUME Uses(lev, m, r, v, t, i), lev[t] = 1
       PROVE  /\ E1(m, r, v) = m[t][i] /\ E1(m2, r, v) = e
              /\ E2(m2, r, v) = E2(m, r, v)
  <2>1. r = t /\ a.pdp = i
    BY <1>14 DEF Uses, a
  <2>2. E1(m, r, v) = m[t][i] /\ E1(m2, r, v) = e
    BY <1>6, <1>7, <2>1
  <2> DEFINE T == E1(m, r, v).addr
  <2>3. T = E1(m2, r, v).addr
    BY <2>2
  <2>4. T # t /\ (T = 0 \/ (T \in Frames /\ lev[T] = 2))
    BY <1>9, <1>11, <1>14
  <2>5. m2[T][a.pd] = m[T][a.pd]
    BY <1>5, <1>10, <2>4
  <2> QED
    BY <1>6, <1>7, <2>2, <2>3, <2>5
<1>15. ASSUME Uses(lev, m, r, v, t, i), lev[t] = 2
       PROVE  /\ E1(m2, r, v) = E1(m, r, v)
              /\ E2(m, r, v) = m[t][i] /\ E2(m2, r, v) = e
  <2>1. E1(m, r, v).addr = t /\ a.pd = i
    BY <1>15 DEF Uses, a
  <2>2. E1(m2, r, v) = E1(m, r, v)
    BY <1>15, WalkKept
  <2> QED
    BY <1>6, <1>7, <2>1, <2>2
<1>16. ASSUME Uses(lev, m, r, v, t, i)
       PROVE  /\ E3(m2, r, v) = E3(m, r, v)
              /\ Whole(E3(m, r, v)) \/ E4(m2, r, v) = E4(m, r, v)
  <2> DEFINE T == E2(m, r, v).addr
             U == E3(m, r, v).addr
  <2>1. E2(m2, r, v).addr = T
    BY <1>14, <1>15, <1>16
  <2>2. T # t /\ (T = 0 \/ (T \in Frames /\ lev[T] = 3))
    BY <1>9, <1>12
  <2>3. m2[T][a.pt] = m[T][a.pt]
    BY <1>5, <1>10, <2>2
  <2>4. E3(m2, r, v) = E3(m, r, v)
    BY <1>6, <1>7, <2>1, <2>3
  <2>5. ASSUME ~Whole(E3(m, r, v)) PROVE E4(m2, r, v) = E4(m, r, v)
    <3>1. U # t /\ (U = 0 \/ (U \in Frames /\ lev[U] = 4))
      BY <1>9, <1>13, <2>5
    <3>2. m2[U][a.page] = m[U][a.page]
      BY <1>5, <1>10, <3>1
    <3> QED
      BY <1>6, <1>7, <2>4, <3>2
  <2> QED
    BY <2>4, <2>5
<1>17. CASE Uses(lev, m, r, v, t, i) /\ lev[t] = 1
  <2>1. "P" \in E1(m2, r, v).flags <=> "P" \in E1(m, r, v).flags
    BY <1>14, <1>17
  <2> QED
    BY <1>8, <1>14, <1>16, <1>17, <2>1 DEF Seen, Whole
<1>18. CASE Uses(lev, m, r, v, t, i) /\ lev[t] = 2
  <2>1. "P" \in E2(m2, r, v).flags <=> "P" \in E2(m, r, v).flags
    BY <1>15, <1>18
  <2> QED
    BY <1>8, <1>15, <1>16, <1>18, <2>1 DEF Seen, Whole
<1> QED
  BY <1>4, <1>17, <1>18

-----------------------------------------------------------------------------
(* The operations on one entry: allocate, allocate_if_necessary, unfold.   *)
(* What is taken keeps its level, and one entry of it changes. *)
Extends(lev, lev2) == \A g \in Frames : lev[g] # 0 => lev2[g] = lev[g]

(* A new table at the third level is empty. *)
FreshEmpty(lev, lev2, m2) ==
    \A g \in Frames : lev[g] = 0 /\ lev2[g] = 3 => m2[g] = ZeroTable

OnlyAt(lev, m, m2, t, i) ==
    \A g \in Frames, j \in Idx : lev[g] # 0 /\ (g # t \/ j # i) => m2[g][j] = m[g][j]

(* A pointer to a table of the upper levels stays. *)
PointersKept(lev, m, m2) ==
    \A g \in Frames, j \in Idx :
      lev[g] \in {1, 2} /\ m[g][j] # Zero => m2[g][j].addr = m[g][j].addr

Grown(lev, m, m2, tk2) ==
    /\ SameViews(m, m2)
    /\ \E lev2, up2, at2 : /\ Tree(lev2, up2, at2, m2, tk2) /\ Extends(lev, lev2)
                          /\ FreshEmpty(lev, lev2, m2)

(* AllocateTable takes the lowest free page, if there is one. *)
NoneFree(m, tk) == FreeFrames(St(m, tk, "Ok")) = {}

(* allocate: the new page, and the entry that points to it. *)
LEMMA AllocateTableIs ==
    ASSUME NEW m, NEW tk, NEW t, NEW i, NEW contents, NEW flags, ~NoneFree(m, tk)
    PROVE  AllocateTable(St(m, tk, "Ok"), t, i, contents, flags) =
             St(NewTable(m, LowestFree(St(m, tk, "Ok")), t, i, contents, flags \cup {"STAB"}),
                tk \cup {LowestFree(St(m, tk, "Ok"))}, "Ok")
<1> DEFINE st == [mem |-> m, taken |-> tk, res |-> "Ok"]
           f == LowestFree(st)
           n == [m EXCEPT ![f] = contents,
                          ![t][i] = [addr |-> f, flags |-> flags \cup {"STAB"}]]
           st1 == [st EXCEPT !.taken = @ \cup {f}]
           st2 == [st1 EXCEPT !.mem = [@ EXCEPT ![f] = contents,
                             ![t][i] = [addr |-> f, flags |-> flags \cup {"STAB"}]]]
<1>1. [st EXCEPT !.res = "Nospace"] = [mem |-> m, taken |-> tk, res |-> "Nospace"]
  OBVIOUS
<1>2. st1 = [mem |-> m, taken |-> tk \cup {f}, res |-> "Ok"]
  OBVIOUS
<1>3. st2 = [mem |-> n, taken |-> tk \cup {f}, res |-> "Ok"]
  <2> HIDE DEF st1
  <2>1. st1.mem = m
    BY <1>2
  <2>2. st2 = [st1 EXCEPT !.mem = n]
    BY <2>1, Zenon
  <2> HIDE DEF n, st2
  <2>3. [[mem |-> m, taken |-> tk \cup {f}, res |-> "Ok"] EXCEPT !.mem = n] =
          [mem |-> n, taken |-> tk \cup {f}, res |-> "Ok"]
    OBVIOUS
  <2> QED
    BY <1>2, <2>2, <2>3, Zenon
<1> HIDE DEF f
<1>4. f = LowestFree(st)
  BY DEF f
<1>5. AllocateTable(st, t, i, contents, flags) =
        IF FreeFrames(st) = {} THEN [st EXCEPT !.res = "Nospace"]
        ELSE [st EXCEPT !.taken = @ \cup {LowestFree(st)},
                 !.mem = [@ EXCEPT ![LowestFree(st)] = contents,
                                   ![t][i] = [addr |-> LowestFree(st),
                                              flags |-> flags \cup {"STAB"}]]]
  BY Zenon DEF AllocateTable, Fail
<1> HIDE DEF st
<1>6. AllocateTable(st, t, i, contents, flags) =
        IF FreeFrames(st) = {} THEN [st EXCEPT !.res = "Nospace"] ELSE st2
  BY <1>4, <1>5, Zenon
<1> HIDE DEF st1, st2, n
<1>7. AllocateTable(st, t, i, contents, flags) =
        IF FreeFrames(st) = {} THEN [mem |-> m, taken |-> tk, res |-> "Nospace"]
        ELSE [mem |-> n, taken |-> tk \cup {f}, res |-> "Ok"]
  BY <1>1, <1>3, <1>6, Zenon
<1>8. n = NewTable(m, f, t, i, contents, flags \cup {"STAB"})
  BY Zenon DEF n, NewTable
<1> QED
  BY <1>7, <1>8, Zenon DEF f, st, St, NoneFree

(* An empty table for an empty entry, or the pages of a large one. *)
Replaces(lev, m, t, i, contents, flags) ==
    \/ m[t][i] = Zero /\ contents = ZeroTable
    \/ /\ lev[t] = 3 /\ Whole(m[t][i])
       /\ contents = [j \in Idx |-> [addr |-> m[t][i].addr + j,
                                     flags |-> m[t][i].flags \ {"PS"}]]
       /\ flags = m[t][i].flags \ {"PS"}

(* Without a free page the tables stay as they are. *)
LEMMA AllocateTableFails ==
    ASSUME NEW m, NEW tk, NEW t, NEW i, NEW contents, NEW flags, NoneFree(m, tk)
    PROVE  AllocateTable(St(m, tk, "Ok"), t, i, contents, flags) = St(m, tk, "Nospace")
<1> DEFINE st == [mem |-> m, taken |-> tk, res |-> "Ok"]
<1>1. [st EXCEPT !.res = "Nospace"] = [mem |-> m, taken |-> tk, res |-> "Nospace"]
  OBVIOUS
<1>2. FreeFrames(st) = {} /\ st = St(m, tk, "Ok")
  BY Zenon DEF NoneFree, St
<1> HIDE DEF st
<1>3. AllocateTable(st, t, i, contents, flags) = [st EXCEPT !.res = "Nospace"]
  BY <1>2, Zenon DEF AllocateTable, Fail
<1>4. AllocateTable(st, t, i, contents, flags) = St(m, tk, "Nospace")
  BY <1>1, <1>3, Zenon DEF St
<1> QED
  BY <1>2, <1>4, Zenon

(* AllocateTable: no walk ends elsewhere, whether there was a page or not. *)
LEMMA TableAllocated ==
    ASSUME NEW lev, NEW up, NEW at, NEW m, NEW tk, Tree(lev, up, at, m, tk), RootsApart,
           NEW t \in Frames, NEW i \in Idx, lev[t] \in {1, 2, 3},
           NEW flags \in SUBSET AllFlags, "PS" \notin flags, NEW contents,
           Replaces(lev, m, t, i, contents, flags)
    PROVE  \E m2, tk2, res :
             /\ AllocateTable(St(m, tk, "Ok"), t, i, contents, flags) = St(m2, tk2, res)
             /\ Grown(lev, m, m2, tk2) /\ OnlyAt(lev, m, m2, t, i)
             /\ \/ res = "Ok" /\ m2[t][i] # Zero /\ ~Whole(m2[t][i])
                \/ res = "Nospace"
<1> DEFINE st == St(m, tk, "Ok")
           f == LowestFree(st)
           d == [addr |-> f, flags |-> flags \cup {"STAB"}]
           n == NewTable(m, f, t, i, contents, flags \cup {"STAB"})
<1>1. CASE NoneFree(m, tk)
  <2>1. AllocateTable(st, t, i, contents, flags) = St(m, tk, "Nospace")
    BY <1>1, AllocateTableFails
  <2>2. Grown(lev, m, m, tk) /\ OnlyAt(lev, m, m, t, i)
    BY DEF Grown, OnlyAt, SameViews, Extends, FreshEmpty
  <2> QED
    BY <2>1, <2>2
<1>2. CASE ~NoneFree(m, tk)
  <2>1. AllocateTable(st, t, i, contents, flags) = St(n, tk \cup {f}, "Ok")
    BY <1>2, AllocateTableIs
  <2>2. f \in Frames /\ f # 0 /\ f \notin tk
    <3>1. f \in Frames \ {0} /\ f \notin st.taken
      BY <1>2, LowestIsFree DEF NoneFree
    <3>2. st.taken = tk
      BY DEF St
    <3> QED
      BY <3>1, <3>2
  <2> HIDE DEF f
  <2>3. lev[f] = 0 /\ lev \in [Frames -> 0 .. 5] /\ f # t
        /\ m \in [Frames -> [Idx -> Entries]] /\ Idx \subseteq Nat
    BY <2>2, PagerAssumption DEF Tree, Levels, Shape, Idx
  <2>4. contents \in [Idx -> Entries] /\ (lev[t] # 3 => contents = ZeroTable)
    <3>1. CASE contents = ZeroTable
      BY <3>1 DEF ZeroTable, Zero, Entries
    <3>2. CASE contents # ZeroTable
      <4>1. m[t][i].addr \in Nat /\ m[t][i].flags \in SUBSET AllFlags
        BY <2>3 DEF Entries
      <4>2. \A j \in Idx : [addr |-> m[t][i].addr + j, flags |-> m[t][i].flags \ {"PS"}] \in Entries
        BY <2>3, <4>1 DEF Entries
      <4> QED
        BY <3>2, <4>2 DEF Replaces
    <3> QED
      BY <3>1, <3>2
  <2>5. flags \cup {"STAB"} \in SUBSET AllFlags /\ "PS" \notin flags \cup {"STAB"}
    <3>1. "STAB" \in AllFlags
      BY DEF AllFlags
    <3>2. "PS" # "STAB"
      OBVIOUS
    <3> HIDE DEF n, d
    <3> QED
      BY <3>1, <3>2
  <2>6. m[t][i] = Zero \/ (lev[t] = 3 /\ "PS" \in m[t][i].flags)
    BY DEF Whole, Replaces
  <2> DEFINE lev2 == [lev EXCEPT ![f] = lev[t] + 1]
  <2>7. Tree(lev2, [up EXCEPT ![f] = t], [at EXCEPT ![f] = i], n, tk \cup {f})
    BY <2>2, <2>3, <2>4, <2>5, <2>6, AllocateKeeps
  <2>8. SameViews(m, n)
    <3>1. "PS" \notin flags \cup {"STAB"}
      BY <2>5
    <3>2. \/ m[t][i] = Zero /\ contents = ZeroTable
          \/ /\ lev[t] = 3 /\ Whole(m[t][i])
             /\ contents = [j \in Idx |-> [addr |-> m[t][i].addr + j,
                                           flags |-> m[t][i].flags \ {"PS"}]]
             /\ flags \cup {"STAB"} = (m[t][i].flags \ {"PS"}) \cup {"STAB"}
      BY DEF Replaces
    <3> QED
      BY <2>2, <2>3, <3>1, <3>2, AllocateViews
  <2>9. Extends(lev, lev2)
    BY <2>3 DEF Extends
  <2>10. \A g \in Frames, j \in Idx : g # f /\ (g # t \/ j # i) => n[g][j] = m[g][j]
    BY <2>2, <2>3 DEF NewTable
  <2>11. OnlyAt(lev, m, n, t, i)
    BY <2>3, <2>10 DEF OnlyAt
  <2>12. n[t][i] = d
    BY <2>2, <2>3 DEF NewTable
  <2>13. n[t][i] # Zero /\ ~Whole(n[t][i])
    <3>1. d.addr # 0 /\ "PS" \notin d.flags
      BY <2>2, <2>5
    <3> HIDE DEF d, n
    <3> QED
      BY <2>12, <3>1 DEF Zero, Whole
  <2>15. FreshEmpty(lev, lev2, n)
    <3>1. lev2[f] = 3 => n[f] = ZeroTable
      BY <2>2, <2>3, <2>4 DEF NewTable
    <3>2. \A g \in Frames : g # f => lev2[g] = lev[g]
      BY <2>3
    <3> QED
      BY <3>1, <3>2 DEF FreshEmpty
  <2>14. Grown(lev, m, n, tk \cup {f})
    BY <2>7, <2>8, <2>9, <2>15 DEF Grown
  <2> HIDE DEF n
  <2> QED
    BY <2>1, <2>11, <2>13, <2>14
<1> QED
  BY <1>1, <1>2

(* AllocateIfNecessary: afterwards there is a table, or no page was free. *)
LEMMA TableNecessary ==
    ASSUME NEW lev, NEW up, NEW at, NEW m, NEW tk, Tree(lev, up, at, m, tk), RootsApart,
           NEW t \in Frames, NEW i \in Idx, lev[t] \in {1, 2, 3}, ~Whole(m[t][i]),
           NEW flags \in SUBSET AllFlags, "PS" \notin flags
    PROVE  \E m2, tk2, res :
             /\ AllocateIfNecessary(St(m, tk, "Ok"), t, i, flags) = St(m2, tk2, res)
             /\ Grown(lev, m, m2, tk2) /\ OnlyAt(lev, m, m2, t, i)
             /\ \/ res = "Ok" /\ m2[t][i] # Zero /\ ~Whole(m2[t][i])
                \/ res = "Nospace"
<1> DEFINE st == St(m, tk, "Ok")
<1>1. st.mem = m
  BY DEF St
<1>2. CASE m[t][i] = Zero
  <2>1. AllocateIfNecessary(st, t, i, flags) = AllocateTable(st, t, i, ZeroTable, flags)
    BY <1>1, <1>2 DEF AllocateIfNecessary
  <2>2. \E m2, tk2, res :
             /\ AllocateTable(st, t, i, ZeroTable, flags) = St(m2, tk2, res)
             /\ Grown(lev, m, m2, tk2) /\ OnlyAt(lev, m, m2, t, i)
             /\ \/ res = "Ok" /\ m2[t][i] # Zero /\ ~Whole(m2[t][i])
                \/ res = "Nospace"
    <3>1. Replaces(lev, m, t, i, ZeroTable, flags)
      BY <1>2 DEF Replaces
    <3> QED
      BY <3>1, TableAllocated
  <2> QED
    BY <2>1, <2>2
<1>3. CASE m[t][i] # Zero
  <2>1. AllocateIfNecessary(st, t, i, flags) = St(m, tk, "Ok")
    BY <1>1, <1>3 DEF AllocateIfNecessary
  <2>2. Grown(lev, m, m, tk) /\ OnlyAt(lev, m, m, t, i)
    BY DEF Grown, OnlyAt, SameViews, Extends, FreshEmpty
  <2> QED
    BY <1>3, <2>1, <2>2
<1> QED
  BY <1>2, <1>3

(* unfold likewise. *)
LEMMA TableUnfolded ==
    ASSUME NEW lev, NEW up, NEW at, NEW m, NEW tk, Tree(lev, up, at, m, tk), RootsApart,
           NEW t \in Frames, NEW i \in Idx, lev[t] = 3, Whole(m[t][i])
    PROVE  \E m2, tk2, res :
             /\ Unfold(St(m, tk, "Ok"), t, i) = St(m2, tk2, res)
             /\ Grown(lev, m, m2, tk2) /\ OnlyAt(lev, m, m2, t, i)
             /\ \/ res = "Ok" /\ m2[t][i] # Zero /\ ~Whole(m2[t][i])
                \/ res = "Nospace"
<1> DEFINE st == St(m, tk, "Ok")
           flags == m[t][i].flags \ {"PS"}
           contents == [j \in Idx |-> [addr |-> m[t][i].addr + j, flags |-> flags]]
<1>1. st.mem = m
  BY DEF St
<1>2. Unfold(st, t, i) = AllocateTable(st, t, i, contents, flags)
  BY <1>1 DEF Unfold
<1>3. flags \in SUBSET AllFlags /\ "PS" \notin flags
  <2>1. m[t][i] \in Entries
    BY DEF Tree, Shape
  <2> QED
    BY <2>1 DEF Entries
<1>4. \E m2, tk2, res :
             /\ AllocateTable(st, t, i, contents, flags) = St(m2, tk2, res)
             /\ Grown(lev, m, m2, tk2) /\ OnlyAt(lev, m, m2, t, i)
             /\ \/ res = "Ok" /\ m2[t][i] # Zero /\ ~Whole(m2[t][i])
                \/ res = "Nospace"
  <2>1. Replaces(lev, m, t, i, contents, flags)
    BY DEF Replaces
  <2> HIDE DEF flags, contents
  <2> QED
    BY <1>3, <2>1, TableAllocated
<1> QED
  BY <1>2, <1>4

(* One level of get_pd_allocated. *)
LEMMA Descended ==
    ASSUME NEW lev, NEW up, NEW at, NEW m, NEW tk, Tree(lev, up, at, m, tk), RootsApart,
           NEW t \in Frames, NEW i \in Idx, lev[t] \in {1, 2},
           NEW flags \in SUBSET AllFlags, "PS" \notin flags
    PROVE  \E m2, tk2, res :
             /\ Descend(St(m, tk, "Ok"), t, i, flags) = St(m2, tk2, res)
             /\ Grown(lev, m, m2, tk2) /\ OnlyAt(lev, m, m2, t, i)
             /\ PointersKept(lev, m, m2)
             /\ \/ res = "Ok" /\ m2[t][i] # Zero
                \/ res = "Nospace"
<1> DEFINE s == AllocateIfNecessary(St(m, tk, "Ok"), t, i, flags)
<1>1. ~Whole(m[t][i])
  BY DEF Tree, Down, Child, Whole, Zero
<1>2. PICK m1, tk1, res1 :
             /\ s = St(m1, tk1, res1)
             /\ Grown(lev, m, m1, tk1) /\ OnlyAt(lev, m, m1, t, i)
             /\ \/ res1 = "Ok" /\ m1[t][i] # Zero /\ ~Whole(m1[t][i])
                \/ res1 = "Nospace"
  BY <1>1, TableNecessary
<1>3. s.res = res1 /\ s.mem = m1 /\ s.taken = tk1
  BY <1>2 DEF St
<1>6. PointersKept(lev, m, m1)
  <2>1. m[t][i] # Zero => m1 = m
    <3>1. St(m, tk, "Ok").mem = m
      BY DEF St
    <3>2. m[t][i] # Zero => s = St(m, tk, "Ok")
      BY <3>1 DEF AllocateIfNecessary
    <3> HIDE DEF s
    <3> QED
      BY <1>3, <3>1, <3>2
  <2> HIDE DEF s
  <2> QED
    BY <1>2, <2>1 DEF PointersKept, OnlyAt
<1> HIDE DEF s
<1>4. CASE res1 # "Ok" \/ "RW" \notin flags
  <2>1. Descend(St(m, tk, "Ok"), t, i, flags) = St(m1, tk1, res1)
    BY <1>2, <1>3, <1>4 DEF Descend, s
  <2> QED
    BY <1>2, <1>6, <2>1
<1>5. CASE res1 = "Ok" /\ "RW" \in flags
  <2> DEFINE e == [addr |-> m1[t][i].addr, flags |-> m1[t][i].flags \cup {"RW"}]
             n == SetEntry(m1, t, i, e)
  <2>1. PICK lev1, up1, at1 : /\ Tree(lev1, up1, at1, m1, tk1) /\ Extends(lev, lev1)
                              /\ FreshEmpty(lev, lev1, m1)
    BY <1>2 DEF Grown
  <2>2. /\ m1 \in [Frames -> [Idx -> Entries]] /\ m1[t][i] \in Entries
        /\ lev1[t] \in {1, 2} /\ m1[t][i] # Zero /\ ~Whole(m1[t][i])
    BY <1>2, <1>5, <2>1 DEF Tree, Shape, Extends
  <2>3. Descend(St(m, tk, "Ok"), t, i, flags) = St(n, tk1, "Ok")
    <3>1. Descend(St(m, tk, "Ok"), t, i, flags) = [s EXCEPT !.mem[t][i].flags = @ \cup {"RW"}]
      BY <1>3, <1>5 DEF Descend, s
    <3>2. s = [mem |-> m1, taken |-> tk1, res |-> "Ok"]
      BY <1>2, <1>5 DEF St
    <3>3. [s EXCEPT !.mem[t][i].flags = @ \cup {"RW"}] =
            [mem |-> [m1 EXCEPT ![t][i].flags = @ \cup {"RW"}], taken |-> tk1, res |-> "Ok"]
      BY <3>2
    <3>4. [m1 EXCEPT ![t][i].flags = @ \cup {"RW"}] = n
      <4>1. [m1[t][i] EXCEPT !.flags = @ \cup {"RW"}] = e
        <5>1. PICK b, x : m1[t][i] = [addr |-> b, flags |-> x]
          BY <2>2 DEF Entries
        <5> QED
          BY <5>1
      <4> QED
        BY <4>1 DEF SetEntry
    <3> QED
      BY <3>1, <3>3, <3>4 DEF St
  <2>4. e \in Entries /\ e.addr = m1[t][i].addr /\ "PS" \notin e.flags
        /\ ("P" \in e.flags <=> "P" \in m1[t][i].flags)
    BY <1>5, <2>2 DEF Entries, Whole
  <2> HIDE DEF e
  <2>5. Tree(lev1, up1, at1, n, tk1) /\ Stored(lev1, m1, n, t, i) /\ n[t][i] = e
    <3>1. n = SetEntry(m1, t, i, e)
      OBVIOUS
    <3>2. lev1[t] \in {1, 2} /\ m1[t][i] # Zero /\ e.addr = m1[t][i].addr /\ "PS" \notin e.flags
      BY <2>2, <2>4
    <3>3. e \in Entries /\ Tree(lev1, up1, at1, m1, tk1)
      BY <2>1, <2>4
    <3> HIDE DEF n
    <3> QED
      BY <3>1, <3>2, <3>3, StoreKeeps
  <2>6. SameViews(m1, n)
    BY <2>1, <2>2, <2>4, <2>5, FlagViews
  <2>7. Grown(lev, m, n, tk1)
    <3>1. SameViews(m, n)
      BY <1>2, <2>6 DEF Grown, SameViews
    <3>2. FreshEmpty(lev, lev1, n)
      <4>1. \A g \in Frames : g # t => n[g] = m1[g]
        BY <2>2 DEF SetEntry
      <4>2. lev1[t] # 3
        BY <2>2
      <4> QED
        BY <2>1, <4>1, <4>2 DEF FreshEmpty
    <3> QED
      BY <2>1, <2>5, <3>1, <3>2 DEF Grown
  <2>8. OnlyAt(lev, m, n, t, i)
    <3>1. \A g \in Frames, j \in Idx : g # t \/ j # i => n[g][j] = m1[g][j]
      BY <2>2 DEF SetEntry
    <3> HIDE DEF n
    <3> QED
      BY <1>2, <3>1 DEF OnlyAt
  <2>9. n[t][i] # Zero
    <3>1. m1[t][i].addr # 0
      <4>1. Child(lev1, up1, at1, m1, t, i)
        BY <2>1, <2>2 DEF Tree, Down
      <4>2. lev1[0] = 0
        BY <2>1, PagerAssumption DEF Tree, Levels, Shape
      <4> QED
        BY <2>2, <4>1, <4>2 DEF Child
    <3> QED
      BY <2>4, <2>5, <3>1 DEF Zero
  <2>10. PointersKept(lev, m, n)
    <3>1. \A g \in Frames, j \in Idx : g # t \/ j # i => n[g][j] = m1[g][j]
      BY <2>2 DEF SetEntry
    <3> HIDE DEF n
    <3>2. \A g \in Frames, j \in Idx : n[g][j].addr = m1[g][j].addr
      BY <2>4, <2>5, <3>1
    <3> QED
      BY <1>6, <3>2 DEF PointersKept
  <2> HIDE DEF n
  <2> QED
    BY <2>3, <2>7, <2>8, <2>9, <2>10
<1> QED
  BY <1>2, <1>4, <1>5

-----------------------------------------------------------------------------
(* get_pd_allocated.                                                       *)
(* One growth after the other, the second one at the second level. *)
LEMMA GrownTwice ==
    ASSUME NEW lev, NEW m, NEW lev1, NEW m1, Extends(lev, lev1), FreshEmpty(lev, lev1, m1),
           SameViews(m, m1),
           NEW m2, NEW tk2, Grown(lev1, m1, m2, tk2),
           NEW t \in Frames, NEW i, lev1[t] = 2, OnlyAt(lev1, m1, m2, t, i),
           \A g \in Frames : lev1[g] = 3 => m1[g] \in [Idx -> Entries]
    PROVE  Grown(lev, m, m2, tk2)
<1>1. PICK lev2, up2, at2 : /\ Tree(lev2, up2, at2, m2, tk2) /\ Extends(lev1, lev2)
                            /\ FreshEmpty(lev1, lev2, m2)
  BY DEF Grown
<1>2. SameViews(m, m2)
  BY DEF Grown, SameViews
<1>3. Extends(lev, lev2)
  BY <1>1 DEF Extends
<1>4. FreshEmpty(lev, lev2, m2)
  <2> SUFFICES ASSUME NEW g \in Frames, lev[g] = 0, lev2[g] = 3
               PROVE  m2[g] = ZeroTable
    BY DEF FreshEmpty
  <2>1. CASE lev1[g] = 0
    BY <1>1, <2>1 DEF FreshEmpty
  <2>2. CASE lev1[g] # 0
    <3>1. lev1[g] = 3
      BY <1>1, <2>2 DEF Extends
    <3>2. m1[g] = ZeroTable
      BY <3>1 DEF FreshEmpty
    <3>3. \A j \in Idx : m2[g][j] = m1[g][j]
      BY <3>1 DEF OnlyAt
    <3>4. m2[g] \in [Idx -> Entries]
      BY <1>1 DEF Tree, Shape
    <3>5. m1[g] \in [Idx -> Entries]
      BY <3>1
    <3> QED
      BY <3>2, <3>3, <3>4, <3>5
  <2> QED
    BY <2>1, <2>2
<1> QED
  BY <1>1, <1>2, <1>3, <1>4 DEF Grown

(* What get_pd_allocated leaves alone. *)
LowerKept(lev, m, m2) ==
    \A g \in Frames, j \in Idx : lev[g] \in {3, 4} => m2[g][j] = m[g][j]

(* get_pd_allocated finds or makes the two upper tables, or fails. *)
LEMMA PdAllocated ==
    ASSUME NEW lev, NEW up, NEW at, NEW m, NEW tk, Tree(lev, up, at, m, tk), RootsApart,
           NEW r \in Roots, NEW v \in Virtual,
           NEW flags \in SUBSET AllFlags, "PS" \notin flags
    PROVE  \E m2, tk2, res :
             /\ GetPdAllocated(St(m, tk, "Ok"), r, Translate(v), flags) = St(m2, tk2, res)
             /\ Grown(lev, m, m2, tk2) /\ LowerKept(lev, m, m2)
             /\ PointersKept(lev, m, m2)
             /\ res = "Ok" => E1(m2, r, v) # Zero /\ E2(m2, r, v) # Zero
<1> DEFINE a == Translate(v)
           st == St(m, tk, "Ok")
           s == Descend(st, r, a.pdp, flags)
<1>1. /\ a.pdp \in Idx /\ a.pd \in Idx
      /\ r \in Frames /\ lev[r] = 1 /\ r # 0 /\ lev[0] = 0 /\ 0 \in Frames
  BY TranslateIs, WalkLevels
<1>2. PICK m1, tk1, res1 :
             /\ s = St(m1, tk1, res1)
             /\ Grown(lev, m, m1, tk1) /\ OnlyAt(lev, m, m1, r, a.pdp)
             /\ PointersKept(lev, m, m1)
             /\ \/ res1 = "Ok" /\ m1[r][a.pdp] # Zero
                \/ res1 = "Nospace"
  BY <1>1, Descended
<1>3. s.mem = m1 /\ s.res = res1 /\ s.taken = tk1
  BY <1>2 DEF St
<1> DEFINE pdpt == m1[r][a.pdp].addr
<1>4. GetPdAllocated(st, r, a, flags) =
        IF res1 # "Ok" THEN s
        ELSE IF "PS" \in m1[pdpt][a.pd].flags THEN Fail(s, "InvalidActivateFlags")
        ELSE Descend(s, pdpt, a.pd, flags)
  <2> HIDE DEF st
  <2> QED
    BY <1>3 DEF GetPdAllocated
<1> HIDE DEF s
<1>5. LowerKept(lev, m, m1)
  BY <1>1, <1>2 DEF OnlyAt, LowerKept
<1>6. CASE res1 # "Ok"
  <2>1. GetPdAllocated(st, r, a, flags) = St(m1, tk1, res1)
    BY <1>2, <1>4, <1>6
  <2> QED
    BY <1>2, <1>5, <1>6, <2>1
<1>7. CASE res1 = "Ok"
  <2>1. PICK lev1, up1, at1 : /\ Tree(lev1, up1, at1, m1, tk1) /\ Extends(lev, lev1)
                              /\ FreshEmpty(lev, lev1, m1)
    BY <1>2 DEF Grown
  <2>2. lev1[r] = 1 /\ m1[r][a.pdp] # Zero
    BY <1>1, <1>2, <1>7, <2>1 DEF Extends
  <2>3. Child(lev1, up1, at1, m1, r, a.pdp)
    BY <1>1, <2>1, <2>2 DEF Tree, Down
  <2>4. pdpt \in Frames /\ lev1[pdpt] = 2
    BY <2>2, <2>3 DEF Child
  <2>5. "PS" \notin m1[pdpt][a.pd].flags
    BY <1>1, <2>1, <2>4 DEF Tree, Down, Child, Zero
  <2>6. s = St(m1, tk1, "Ok")
    BY <1>2, <1>7
  <2> DEFINE p == pdpt
  <2>7. GetPdAllocated(st, r, a, flags) = Descend(St(m1, tk1, "Ok"), p, a.pd, flags)
    BY <1>4, <1>7, <2>5, <2>6
  <2>8. p = m1[r][a.pdp].addr /\ p \in Frames /\ lev1[p] = 2 /\ p # r
    BY <2>2, <2>4
  <2> HIDE DEF p, a
  <2>9. PICK m2, tk2, res2 :
             /\ Descend(St(m1, tk1, "Ok"), p, a.pd, flags) = St(m2, tk2, res2)
             /\ Grown(lev1, m1, m2, tk2) /\ OnlyAt(lev1, m1, m2, p, a.pd)
             /\ PointersKept(lev1, m1, m2)
             /\ \/ res2 = "Ok" /\ m2[p][a.pd] # Zero
                \/ res2 = "Nospace"
    BY <1>1, <2>1, <2>8, Descended
  <2>10. Grown(lev, m, m2, tk2)
    <3>1. \A g \in Frames : lev1[g] = 3 => m1[g] \in [Idx -> Entries]
      BY <2>1 DEF Tree, Shape
    <3>2. SameViews(m, m1)
      BY <1>2 DEF Grown
    <3> QED
      BY <2>1, <2>8, <2>9, <3>1, <3>2, GrownTwice
  <2>11. LowerKept(lev, m, m2)
    <3>1. LowerKept(lev1, m1, m2)
      BY <2>8, <2>9 DEF OnlyAt, LowerKept
    <3> QED
      BY <1>5, <2>1, <3>1 DEF LowerKept, Extends
  <2>12. res2 = "Ok" => E1(m2, r, v) # Zero /\ E2(m2, r, v) # Zero
    <3>1. m2[r][a.pdp] = m1[r][a.pdp]
      BY <1>1, <2>2, <2>8, <2>9 DEF OnlyAt
    <3>2. E1(m2, r, v) = m2[r][a.pdp] /\ E2(m2, r, v) = m2[E1(m2, r, v).addr][a.pd]
      BY DEF E1, E2, a
    <3> QED
      BY <2>2, <2>8, <2>9, <3>1, <3>2
  <2>14. PointersKept(lev, m, m2)
    <3>1. ASSUME NEW g \in Frames, NEW j \in Idx, lev[g] \in {1, 2}, m[g][j] # Zero
          PROVE  m2[g][j].addr = m[g][j].addr
      <4>1. m1[g][j].addr = m[g][j].addr
        BY <1>2, <3>1 DEF PointersKept
      <4>2. m[g][j].addr # 0
        BY <1>1, <3>1 DEF Tree, Down, Child
      <4>3. lev1[g] \in {1, 2} /\ m1[g][j] # Zero
        BY <2>1, <3>1, <4>1, <4>2 DEF Extends, Zero
      <4> QED
        BY <2>9, <3>1, <4>1, <4>3 DEF PointersKept
    <3> QED
      BY <3>1 DEF PointersKept
  <2>13. GetPdAllocated(st, r, a, flags) = St(m2, tk2, res2)
    BY <2>7, <2>9
  <2> HIDE DEF st
  <2> QED
    BY <2>10, <2>11, <2>12, <2>13, <2>14 DEF st, a
<1> QED
  BY <1>6, <1>7

-----------------------------------------------------------------------------
(* A table of the third level belongs to one walk: to one root and the same *)
(* upper indices.                                                           *)
LEMMA SamePd ==
    ASSUME NEW lev, NEW up, NEW at, NEW m, NEW tk, Tree(lev, up, at, m, tk), RootsApart,
           NEW r \in Roots, NEW v \in Virtual, NEW q \in Roots, NEW w \in Virtual,
           lev[E2(m, r, v).addr] = 3, E2(m, q, w).addr = E2(m, r, v).addr
    PROVE  /\ q = r /\ Translate(w).pdp = Translate(v).pdp
           /\ Translate(w).pd = Translate(v).pd
<1>1. lev[0] = 0 /\ Zero.addr = 0
  BY WalkLevels DEF Zero
<1>2. ASSUME NEW x \in Roots, NEW y \in Virtual, E2(m, x, y).addr = E2(m, r, v).addr
      PROVE  /\ Child(lev, up, at, m, x, Translate(y).pdp)
             /\ Child(lev, up, at, m, E1(m, x, y).addr, Translate(y).pd)
  <2>1. E2(m, x, y) # Zero
    BY <1>1, <1>2
  <2> QED
    BY <2>1, WalkLevels
<1>3. ASSUME NEW x \in Roots, NEW y \in Virtual, E2(m, x, y).addr = E2(m, r, v).addr
      PROVE  /\ up[E1(m, x, y).addr] = x /\ at[E1(m, x, y).addr] = Translate(y).pdp
             /\ up[E2(m, x, y).addr] = E1(m, x, y).addr
             /\ at[E2(m, x, y).addr] = Translate(y).pd
  BY <1>2, <1>3 DEF Child, E1, E2
<1>4. /\ up[E1(m, r, v).addr] = r /\ at[E1(m, r, v).addr] = Translate(v).pdp
      /\ up[E2(m, r, v).addr] = E1(m, r, v).addr
      /\ at[E2(m, r, v).addr] = Translate(v).pd
  BY <1>3
<1>5. /\ up[E1(m, q, w).addr] = q /\ at[E1(m, q, w).addr] = Translate(w).pdp
      /\ up[E2(m, q, w).addr] = E1(m, q, w).addr
      /\ at[E2(m, q, w).addr] = Translate(w).pd
  BY <1>3
<1> QED
  BY <1>4, <1>5

(* So an entry of it is used by the pages of one slot of one address space. *)
LEMMA UsersOfPt ==
    ASSUME NEW lev, NEW up, NEW at, NEW m, NEW tk, Tree(lev, up, at, m, tk), RootsApart,
           NEW r \in Roots, NEW v \in Virtual, NEW q \in Roots, NEW w \in Virtual,
           NEW t, t = E2(m, r, v).addr, lev[t] = 3,
           Uses(lev, m, q, w, t, Translate(v).pt)
    PROVE  q = r /\ w \div Fan = v \div Fan
<1>1. E2(m, q, w).addr = t /\ Translate(w).pt = Translate(v).pt
  BY DEF Uses
<1>2. /\ q = r /\ Translate(w).pdp = Translate(v).pdp /\ Translate(w).pd = Translate(v).pd
  BY <1>1, SamePd
<1> QED
  BY <1>1, <1>2, SameSlot

(* An entry of a table of the fourth level is used by one page. *)
LEMMA UsersOfPage ==
    ASSUME NEW lev, NEW up, NEW at, NEW m, NEW tk, Tree(lev, up, at, m, tk), RootsApart,
           NEW r \in Roots, NEW v \in Virtual, NEW q \in Roots, NEW w \in Virtual,
           NEW t, t = E3(m, r, v).addr, ~Whole(E3(m, r, v)), lev[t] = 4,
           Uses(lev, m, q, w, t, Translate(v).page)
    PROVE  q = r /\ w = v
<1>1. /\ E3(m, q, w).addr = t /\ ~Whole(E3(m, q, w)) /\ Translate(w).page = Translate(v).page
  BY DEF Uses
<1>2. lev[0] = 0 /\ Zero.addr = 0
  BY WalkLevels DEF Zero
<1>3. ASSUME NEW x \in Roots, NEW y \in Virtual, E3(m, x, y).addr = t, ~Whole(E3(m, x, y))
      PROVE  /\ lev[E2(m, x, y).addr] = 3
             /\ up[t] = E2(m, x, y).addr /\ at[t] = Translate(y).pt
  <2>1. E3(m, x, y) # Zero
    BY <1>2, <1>3
  <2>2. /\ Child(lev, up, at, m, E2(m, x, y).addr, Translate(y).pt)
        /\ lev[E2(m, x, y).addr] = 3
    BY <1>3, <2>1, WalkLevels
  <2> QED
    BY <1>3, <2>2 DEF Child, E3
<1>4. lev[E2(m, r, v).addr] = 3 /\ up[t] = E2(m, r, v).addr /\ at[t] = Translate(v).pt
  BY <1>3
<1>5. up[t] = E2(m, q, w).addr /\ at[t] = Translate(w).pt
  BY <1>1, <1>3
<1>6. E2(m, q, w).addr = E2(m, r, v).addr /\ lev[E2(m, r, v).addr] = 3
      /\ Translate(w).pt = Translate(v).pt
  BY <1>4, <1>5
<1>7. /\ q = r /\ Translate(w).pdp = Translate(v).pdp /\ Translate(w).pd = Translate(v).pd
  BY <1>6, SamePd
<1>8. v \div Fan = w \div Fan
  BY <1>6, <1>7, SameSlot
<1> QED
  BY <1>1, <1>7, <1>8, SameSlot

-----------------------------------------------------------------------------
(* page_4_kb.                                                              *)
(* Errors and stores in the state of an operation. *)
LEMMA FailIs ==
    ASSUME NEW m, NEW tk, NEW res, NEW err
    PROVE  Fail(St(m, tk, res), err) = St(m, tk, err)
<1>1. [[mem |-> m, taken |-> tk, res |-> res] EXCEPT !.res = err] =
        [mem |-> m, taken |-> tk, res |-> err]
  OBVIOUS
<1> QED
  BY <1>1, Zenon DEF Fail, St

(* The store of one entry. *)
LEMMA StoreIs ==
    ASSUME NEW m, NEW tk, NEW res, NEW t, NEW i, NEW e
    PROVE  [St(m, tk, res) EXCEPT !.mem[t][i] = e] = St(SetEntry(m, t, i, e), tk, res)
<1>1. [[mem |-> m, taken |-> tk, res |-> res] EXCEPT !.mem[t][i] = e] =
        [mem |-> [m EXCEPT ![t][i] = e], taken |-> tk, res |-> res]
  OBVIOUS
<1> QED
  BY <1>1, Zenon DEF St, SetEntry

(* Only the page v of the root r is looked up differently. *)
ChangesAt(m, m2, r, v) ==
    \A q \in Roots, w \in Virtual : q # r \/ w # v => View(m2, q, w) = View(m, q, w)

ChangesSlot(m, m2, r, v) ==
    \A q \in Roots, w \in Virtual :
      q # r \/ w \div Fan # v \div Fan => View(m2, q, w) = View(m, q, w)

(* A store to the entry of one page. *)
LEMMA LeafStored ==
    ASSUME NEW lev, NEW up, NEW at, NEW m, NEW tk, Tree(lev, up, at, m, tk), RootsApart,
           NEW r \in Roots, NEW v \in Virtual, E3(m, r, v) # Zero, ~Whole(E3(m, r, v)),
           NEW e \in Entries,
           NEW m2, m2 = SetEntry(m, E3(m, r, v).addr, Translate(v).page, e)
    PROVE  /\ Tree(lev, up, at, m2, tk) /\ ChangesAt(m, m2, r, v)
           /\ View(m2, r, v) \in {e.addr, -1}
           /\ "P" \notin e.flags => View(m2, r, v) = -1
<1> DEFINE t == E3(m, r, v).addr
           i == Translate(v).page
<1>1. t \in Frames /\ lev[t] = 4 /\ i \in Idx /\ r # 0
  BY WalkLevels, TranslateIs
<1>2. m2 = SetEntry(m, t, i, e)
  OBVIOUS
<1> HIDE DEF t, i
<1>3. Tree(lev, up, at, m2, tk) /\ Stored(lev, m, m2, t, i) /\ m2[t][i] = e
  BY <1>1, <1>2, StoreKeeps
<1>4. ChangesAt(m, m2, r, v)
  <2> SUFFICES ASSUME NEW q \in Roots, NEW w \in Virtual, q # r \/ w # v
               PROVE  View(m2, q, w) = View(m, q, w)
    BY DEF ChangesAt
  <2>1. ~Uses(lev, m, q, w, t, i)
    BY <1>1, UsersOfPage DEF t, i
  <2> QED
    BY <1>1, <1>3, <2>1, ViewKept
<1>5. E3(m2, r, v) = E3(m, r, v)
  BY <1>1, <1>3, WalkKept
<1>6. E4(m2, r, v) = e
  BY <1>3, <1>5 DEF E4, t, i
<1>7. View(m2, r, v) = Seen(E1(m2, r, v), E2(m2, r, v), E3(m2, r, v), E4(m2, r, v), v)
  BY <1>1, ViewIs
<1>8. View(m2, r, v) \in {e.addr, -1} /\ ("P" \notin e.flags => View(m2, r, v) = -1)
  BY <1>5, <1>6, <1>7 DEF Seen, Whole
<1> QED
  BY <1>3, <1>4, <1>8

(* A large page where nothing is mapped. *)
LEMMA LargeStored ==
    ASSUME NEW lev, NEW up, NEW at, NEW m, NEW tk, Tree(lev, up, at, m, tk), RootsApart,
           NEW r \in Roots, NEW v \in Virtual, E2(m, r, v) # Zero, E3(m, r, v) = Zero,
           NEW e \in Entries, "PS" \in e.flags,
           NEW m2, m2 = SetEntry(m, E2(m, r, v).addr, Translate(v).pt, e)
    PROVE  /\ Tree(lev, up, at, m2, tk) /\ ChangesSlot(m, m2, r, v)
           /\ \/ SameViews(m, m2)
              \/ \A w \in Virtual : w \div Fan = v \div Fan =>
                                      View(m2, r, w) = e.addr + (w % Fan)
<1> DEFINE t == E2(m, r, v).addr
           i == Translate(v).pt
           up1 == E1(m, r, v)
           up2 == E2(m, r, v)
<1>1. t \in Frames /\ lev[t] = 3 /\ i \in Idx /\ r # 0
  BY WalkLevels, TranslateIs
<1>2. m2 = SetEntry(m, t, i, e) /\ m[t][i] = Zero
  BY DEF E3
<1> HIDE DEF t, i
<1>3. Tree(lev, up, at, m2, tk) /\ Stored(lev, m, m2, t, i) /\ m2[t][i] = e
  BY <1>1, <1>2, StoreKeeps
<1>4. ChangesSlot(m, m2, r, v)
  <2> SUFFICES ASSUME NEW q \in Roots, NEW w \in Virtual, q # r \/ w \div Fan # v \div Fan
               PROVE  View(m2, q, w) = View(m, q, w)
    BY DEF ChangesSlot
  <2>1. ~Uses(lev, m, q, w, t, i)
    BY <1>1, UsersOfPt DEF t, i
  <2> QED
    BY <1>1, <1>3, <2>1, ViewKept
<1>5. ASSUME NEW w \in Virtual, w \div Fan = v \div Fan
      PROVE  /\ View(m, r, w) = -1
             /\ View(m2, r, w) = IF "P" \in up1.flags /\ "P" \in up2.flags /\ "P" \in e.flags
                                   THEN e.addr + (w % Fan) ELSE -1
  <2>1. /\ Translate(w).pdp = Translate(v).pdp /\ Translate(w).pd = Translate(v).pd
        /\ Translate(w).pt = Translate(v).pt
    BY <1>5, SameSlot
  <2>2. E1(m, r, w) = up1 /\ E2(m, r, w) = up2 /\ E3(m, r, w) = Zero
    BY <2>1 DEF E1, E2, E3
  <2>3. E1(m2, r, w) = up1 /\ E2(m2, r, w) = up2
    BY <1>1, <1>3, <2>2, WalkKept
  <2>4. E3(m2, r, w) = e
    BY <1>3, <2>1, <2>3 DEF E3, t, i
  <2>5. /\ View(m, r, w) = Seen(E1(m, r, w), E2(m, r, w), E3(m, r, w), E4(m, r, w), w)
        /\ View(m2, r, w) = Seen(E1(m2, r, w), E2(m2, r, w), E3(m2, r, w), E4(m2, r, w), w)
    BY <1>1, ViewIs
  <2>6. "P" \notin Zero.flags
    BY DEF Zero
  <2>7. View(m, r, w) = -1
    BY <2>2, <2>5, <2>6 DEF Seen
  <2> HIDE DEF up1, up2
  <2> QED
    BY <2>3, <2>4, <2>5, <2>7 DEF Seen
<1>6. CASE "P" \in up1.flags /\ "P" \in up2.flags /\ "P" \in e.flags
  BY <1>3, <1>4, <1>5, <1>6
<1>7. CASE ~("P" \in up1.flags /\ "P" \in up2.flags /\ "P" \in e.flags)
  <2>1. SameViews(m, m2)
    BY <1>4, <1>5, <1>7 DEF SameViews, ChangesSlot
  <2> QED
    BY <1>3, <1>4, <2>1
<1> QED
  BY <1>6, <1>7

-----------------------------------------------------------------------------
(* page_4_kb changes one page, or nothing that a walk finds. *)
LEMMA Paged4K ==
    ASSUME NEW lev, NEW up, NEW at, NEW m, NEW tk, Tree(lev, up, at, m, tk), RootsApart,
           NEW r \in Roots, NEW v \in Virtual, NEW p \in DataFrames, NEW flags \in Flags
    PROVE  \E m2, tk2, res :
             /\ Page4K(St(m, tk, "Ok"), r, v, p, flags) = St(m2, tk2, res)
             /\ \E lev2, up2, at2 : Tree(lev2, up2, at2, m2, tk2)
             /\ \/ SameViews(m, m2)
                \/ ChangesAt(m, m2, r, v) /\ View(m2, r, v) \in {p, -1}
<1> DEFINE a == Translate(v)
           st == St(m, tk, "Ok")
           upper == flags \ {"PAT"}
           s == GetPdAllocated(st, r, a, upper)
           pd == PdOf(s.mem, r, a)
           u == IF "PS" \in s.mem[pd][a.pt].flags THEN Unfold(s, pd, a.pt)
                ELSE AllocateIfNecessary(s, pd, a.pt, upper)
           e == [addr |-> p, flags |-> LeafFlags(flags)]
<1>1. upper \in SUBSET AllFlags /\ e \in Entries
  <2>1. flags \in SUBSET AllFlags /\ "PS" \in AllFlags
    BY DEF AllFlags
  <2>2. LeafFlags(flags) \in SUBSET AllFlags
    BY <2>1 DEF LeafFlags
  <2> QED
    BY <2>1, <2>2, PagerAssumption DEF Entries
<1>2. CASE "PS" \in flags
  <2>1. Page4K(st, r, v, p, flags) = Fail(st, "InvalidFlags")
    BY <1>2 DEF Page4K
  <2>2. Page4K(st, r, v, p, flags) = St(m, tk, "InvalidFlags")
    BY <2>1, FailIs
  <2>3. SameViews(m, m)
    BY DEF SameViews
  <2> HIDE DEF st
  <2> QED
    BY <2>2, <2>3 DEF st
<1>3. CASE "PS" \notin flags
  <2>1. Page4K(st, r, v, p, flags) =
          IF s.res # "Ok" THEN s
          ELSE IF u.res # "Ok" THEN u
          ELSE [u EXCEPT !.mem[u.mem[pd][a.pt].addr][a.page] = e]
    BY <1>3, Zenon DEF Page4K
  <2>2. "PS" \notin upper
    BY <1>3
  <2>3. PICK m1, tk1, res1 :
             /\ s = St(m1, tk1, res1)
             /\ Grown(lev, m, m1, tk1) /\ LowerKept(lev, m, m1)
             /\ res1 = "Ok" => E1(m1, r, v) # Zero /\ E2(m1, r, v) # Zero
    BY <1>1, <2>2, PdAllocated
  <2>4. s.mem = m1 /\ s.res = res1
    BY <2>3 DEF St
  <2>5. SameViews(m, m1)
    BY <2>3 DEF Grown
  <2>6. PICK lev1, up1, at1 : Tree(lev1, up1, at1, m1, tk1)
    BY <2>3 DEF Grown
  <2> HIDE DEF s
  <2>7. CASE res1 # "Ok"
    <3>1. Page4K(st, r, v, p, flags) = St(m1, tk1, res1)
      <4> HIDE DEF u, e, pd, st
      <4> QED
        BY <2>1, <2>3, <2>4, <2>7
    <3> HIDE DEF st
    <3> QED
      BY <2>5, <2>6, <3>1 DEF st
  <2>8. CASE res1 = "Ok"
    <3>1. /\ pd = E2(m1, r, v).addr /\ pd \in Frames /\ lev1[pd] = 3 /\ lev1[r] = 1
          /\ E1(m1, r, v).addr \in Frames /\ lev1[E1(m1, r, v).addr] = 2 /\ r \in Frames
      <4>1. pd = E2(m1, r, v).addr
        BY <2>4 DEF PdOf, E1, E2
      <4> HIDE DEF pd
      <4> QED
        BY <2>3, <2>6, <2>8, <4>1, WalkLevels
    <3>2. s = St(m1, tk1, "Ok")
      BY <2>3, <2>8
    <3> HIDE DEF pd, upper
    <3>3. a.pt \in Idx /\ a.pdp \in Idx /\ a.pd \in Idx
      BY TranslateIs
    <3>4. PICK m2, tk2, res2 :
             /\ u = St(m2, tk2, res2)
             /\ Grown(lev1, m1, m2, tk2) /\ OnlyAt(lev1, m1, m2, pd, a.pt)
             /\ \/ res2 = "Ok" /\ m2[pd][a.pt] # Zero /\ ~Whole(m2[pd][a.pt])
                \/ res2 = "Nospace"
      <4> HIDE DEF a
      <4>1. CASE Whole(m1[pd][a.pt])
        <5>1. u = Unfold(St(m1, tk1, "Ok"), pd, a.pt)
          BY <2>4, <3>2, <4>1 DEF Whole
        <5> HIDE DEF u
        <5> QED
          BY <2>6, <3>1, <3>3, <4>1, <5>1, TableUnfolded
      <4>2. CASE ~Whole(m1[pd][a.pt])
        <5>1. u = AllocateIfNecessary(St(m1, tk1, "Ok"), pd, a.pt, upper)
          BY <2>4, <3>2, <4>2 DEF Whole
        <5> HIDE DEF u
        <5>2. lev1[pd] \in {1, 2, 3}
          BY <3>1
        <5> QED
          BY <1>1, <2>2, <2>6, <3>1, <3>3, <4>2, <5>1, <5>2, TableNecessary
      <4> QED
        BY <4>1, <4>2
    <3>5. u.res = res2 /\ u.mem = m2
      BY <3>4 DEF St
    <3> HIDE DEF u
    <3>6. SameViews(m, m2)
      BY <2>5, <3>4 DEF Grown, SameViews
    <3>7. PICK lev2, up2, at2 : Tree(lev2, up2, at2, m2, tk2)
      BY <3>4 DEF Grown
    <3>8. CASE res2 # "Ok"
      <4>1. Page4K(st, r, v, p, flags) = St(m2, tk2, res2)
        <5> HIDE DEF e, st
        <5> QED
          BY <2>1, <2>4, <2>8, <3>4, <3>5, <3>8
      <4> HIDE DEF st
      <4> QED
        BY <3>6, <3>7, <4>1 DEF st
    <3>9. CASE res2 = "Ok"
      <4>1. E3(m2, r, v) = m2[pd][a.pt]
        <5>1. m2[r][a.pdp] = m1[r][a.pdp]
          BY <3>1, <3>3, <3>4 DEF OnlyAt
        <5>2. E1(m2, r, v) = E1(m1, r, v)
          BY <5>1 DEF E1
        <5>3. m2[E1(m1, r, v).addr][a.pd] = m1[E1(m1, r, v).addr][a.pd]
          BY <3>1, <3>3, <3>4 DEF OnlyAt
        <5>4. E2(m2, r, v) = E2(m1, r, v)
          BY <5>2, <5>3 DEF E2
        <5> QED
          BY <3>1, <5>4 DEF E3
      <4>2. E3(m2, r, v) # Zero /\ ~Whole(E3(m2, r, v))
        BY <3>4, <3>9, <4>1
      <4> DEFINE n == SetEntry(m2, E3(m2, r, v).addr, a.page, e)
      <4>3. Page4K(st, r, v, p, flags) = St(n, tk2, "Ok")
        <5>1. Page4K(st, r, v, p, flags) =
                [u EXCEPT !.mem[u.mem[pd][a.pt].addr][a.page] = e]
          <6> HIDE DEF e, st
          <6> QED
            BY <2>1, <2>4, <2>8, <3>5, <3>9
        <5>2. u.mem[pd][a.pt].addr = E3(m2, r, v).addr
          BY <3>5, <4>1
        <5>3. u = St(m2, tk2, "Ok")
          BY <3>4, <3>9
        <5> DEFINE b == E3(m2, r, v).addr
                   j == a.page
        <5>4. Page4K(st, r, v, p, flags) = [St(m2, tk2, "Ok") EXCEPT !.mem[b][j] = e]
          BY <5>1, <5>2, <5>3, Zenon
        <5> HIDE DEF st, e, b, j
        <5>5. [St(m2, tk2, "Ok") EXCEPT !.mem[b][j] = e] = St(SetEntry(m2, b, j, e), tk2, "Ok")
          BY StoreIs
        <5>6. n = SetEntry(m2, b, j, e)
          BY Zenon DEF b, j
        <5> HIDE DEF n
        <5> QED
          BY <5>4, <5>5, <5>6, Zenon
      <4>4. /\ Tree(lev2, up2, at2, n, tk2) /\ ChangesAt(m2, n, r, v)
            /\ View(n, r, v) \in {e.addr, -1}
        <5> HIDE DEF e
        <5> QED
          BY <1>1, <3>7, <4>2, LeafStored
      <4>5. ChangesAt(m, n, r, v)
        <5> HIDE DEF n
        <5> QED
          BY <3>6, <4>4 DEF ChangesAt, SameViews
      <4>6. e.addr = p
        OBVIOUS
      <4> HIDE DEF st, n, e
      <4> QED
        BY <4>3, <4>4, <4>5, <4>6 DEF st
    <3> QED
      BY <3>8, <3>9
  <2> QED
    BY <2>7, <2>8
<1> QED
  BY <1>2, <1>3

-----------------------------------------------------------------------------
(* page_2_mb and unpage_4_kb.                                              *)
(* get_pd_allocated does not move a table of the third level. *)
LEMMA SamePdFound ==
    ASSUME NEW lev, NEW up, NEW at, NEW m, NEW tk, Tree(lev, up, at, m, tk), RootsApart,
           NEW lev1, NEW up1, NEW at1, NEW m1, NEW tk1, Tree(lev1, up1, at1, m1, tk1),
           Extends(lev, lev1), PointersKept(lev, m, m1),
           NEW r \in Roots, NEW v \in Virtual, E1(m1, r, v) # Zero, E2(m1, r, v) # Zero,
           lev[E2(m1, r, v).addr] # 0
    PROVE  E2(m, r, v).addr = E2(m1, r, v).addr
<1> DEFINE a == Translate(v)
           pd == E2(m1, r, v).addr
           t == E1(m1, r, v).addr
<1>1. /\ Child(lev1, up1, at1, m1, r, a.pdp) /\ Child(lev1, up1, at1, m1, t, a.pd)
      /\ pd \in Frames /\ lev1[pd] = 3 /\ t \in Frames /\ lev1[t] = 2
      /\ lev[0] = 0 /\ Zero.addr = 0
  BY WalkLevels DEF Zero
<1>2. up1[t] = r /\ at1[t] = a.pdp /\ up1[pd] = t /\ at1[pd] = a.pd
  BY <1>1 DEF Child, E1, E2
<1>3. lev[pd] = 3
  BY <1>1 DEF Extends
<1> HIDE DEF pd, t, a
<1>4. ASSUME NEW g \in Frames, lev[g] \in {2, 3}
      PROVE  /\ up1[g] = up[g] /\ at1[g] = at[g] /\ up[g] \in Frames
             /\ lev[up[g]] = lev[g] - 1 /\ m[up[g]][at[g]].addr = g
  <2>1. /\ up[g] \in Frames /\ at[g] \in Idx /\ lev[up[g]] = lev[g] - 1
        /\ m[up[g]][at[g]].addr = g
    BY <1>4 DEF Tree, Up
  <2>2. m[up[g]][at[g]] # Zero
    BY <1>1, <1>4, <2>1
  <2>3. m1[up[g]][at[g]].addr = g /\ lev1[up[g]] \in {1, 2}
    BY <1>4, <2>1, <2>2 DEF PointersKept, Extends
  <2>4. m1[up[g]][at[g]] # Zero
    BY <1>1, <1>4, <2>3
  <2>5. Child(lev1, up1, at1, m1, up[g], at[g])
    BY <2>1, <2>3, <2>4 DEF Tree, Down
  <2> QED
    BY <2>1, <2>3, <2>5 DEF Child
<1>5. up[pd] = t /\ at[pd] = a.pd /\ lev[t] = 2 /\ m[t][a.pd].addr = pd
  BY <1>1, <1>2, <1>3, <1>4
<1>6. m[r][a.pdp].addr = t
  BY <1>1, <1>2, <1>4, <1>5
<1> QED
  BY <1>5, <1>6 DEF E1, E2, a, pd, t

(* A large page is not put into a table that holds one. *)
LEMMA LargeIs ==
    ASSUME NEW m, NEW tk, NEW t, NEW i, m[t][i] = Zero, NEW p, NEW flags
    PROVE  SetLarge(St(m, tk, "Ok"), t, i, p, flags) =
             St(SetEntry(m, t, i, [addr |-> p, flags |-> flags \cup {"PS"}]), tk, "Ok")
<1> DEFINE s == St(m, tk, "Ok")
           e == [addr |-> p, flags |-> flags \cup {"PS"}]
<1>1. s.mem[t][i] = Zero
  BY DEF St
<1>2. "PS" \notin Zero.flags /\ "STAB" \notin Zero.flags
  BY DEF Zero
<1> HIDE DEF s
<1>3. SetLarge(s, t, i, p, flags) = [s EXCEPT !.mem[t][i] = e]
  BY <1>1, <1>2, Zenon DEF SetLarge
<1> HIDE DEF e
<1>4. [St(m, tk, "Ok") EXCEPT !.mem[t][i] = e] = St(SetEntry(m, t, i, e), tk, "Ok")
  BY StoreIs
<1> QED
  BY <1>3, <1>4, Zenon DEF s, e

(* page_2_mb where nothing is mapped maps one slot, or changes nothing that a *)
(* walk finds.                                                                *)
LEMMA Paged2M ==
    ASSUME NEW lev, NEW up, NEW at, NEW m, NEW tk, Tree(lev, up, at, m, tk), RootsApart,
           NEW r \in Roots, NEW v \in Virtual, NEW p \in DataFrames, NEW flags \in Flags,
           PtOf(m, r, v) = Zero
    PROVE  \E m2, tk2, res :
             /\ Page2M(St(m, tk, "Ok"), r, v, p, flags) = St(m2, tk2, res)
             /\ \E lev2, up2, at2 : Tree(lev2, up2, at2, m2, tk2)
             /\ \/ SameViews(m, m2)
                \/ /\ ChangesSlot(m, m2, r, v)
                   /\ \A w \in Virtual : w \div Fan = v \div Fan =>
                                           View(m2, r, w) = p + (w % Fan)
<1> DEFINE a == Translate(v)
           st == St(m, tk, "Ok")
           s == GetPdAllocated(st, r, a, flags)
           marked == IF CreatesPd(m, r, a) THEN flags \cup {"STAB"} ELSE flags
           e == [addr |-> p, flags |-> marked \cup {"PS"}]
<1>1. flags \in SUBSET AllFlags /\ marked \in SUBSET AllFlags /\ e \in Entries
      /\ "PS" \in e.flags /\ e.addr = p
  <2>1. flags \in SUBSET AllFlags /\ "PS" \in AllFlags /\ "STAB" \in AllFlags
    BY DEF AllFlags
  <2>2. marked \in SUBSET AllFlags
    BY <2>1
  <2> QED
    BY <2>1, <2>2, PagerAssumption DEF Entries
<1>2. SameViews(m, m)
  BY DEF SameViews
<1>3. E3(m, r, v) = Zero
  BY DEF PtOf, PdOf, E1, E2, E3
<1>4. st.mem = m
  BY DEF St
<1>5. Page2M(st, r, v, p, flags) =
        IF v % (Fan \div 2) # 0 \/ p % (Fan \div 2) # 0 THEN Fail(st, "InvalidAddress")
        ELSE IF flags \cap {"PS", "PAT"} # {} THEN Fail(st, "InvalidFlags")
        ELSE IF s.res # "Ok" THEN s
        ELSE SetLarge(s, PdOf(s.mem, r, a), a.pt, p, marked)
  BY <1>4, Zenon DEF Page2M
<1> HIDE DEF marked, e
<1>6. CASE v % (Fan \div 2) # 0 \/ p % (Fan \div 2) # 0
  <2>1. Page2M(st, r, v, p, flags) = St(m, tk, "InvalidAddress")
    <3>1. Fail(st, "InvalidAddress") = St(m, tk, "InvalidAddress")
      BY FailIs
    <3> HIDE DEF st, s
    <3> QED
      BY <1>5, <1>6, <3>1, Zenon
  <2> HIDE DEF st
  <2> QED
    BY <1>2, <2>1 DEF st
<1>7. CASE ~(v % (Fan \div 2) # 0 \/ p % (Fan \div 2) # 0) /\ flags \cap {"PS", "PAT"} # {}
  <2>1. Page2M(st, r, v, p, flags) = St(m, tk, "InvalidFlags")
    <3>1. Fail(st, "InvalidFlags") = St(m, tk, "InvalidFlags")
      BY FailIs
    <3> HIDE DEF st, s
    <3> QED
      BY <1>5, <1>7, <3>1, Zenon
  <2> HIDE DEF st
  <2> QED
    BY <1>2, <2>1 DEF st
<1>8. CASE ~(v % (Fan \div 2) # 0 \/ p % (Fan \div 2) # 0) /\ ~(flags \cap {"PS", "PAT"} # {})
  <2>1. "PS" \notin flags
    BY <1>8
  <2>2. Page2M(st, r, v, p, flags) =
          IF s.res # "Ok" THEN s ELSE SetLarge(s, PdOf(s.mem, r, a), a.pt, p, marked)
    <3> HIDE DEF st, s
    <3> QED
      BY <1>5, <1>8, Zenon
  <2>3. PICK m1, tk1, res1 :
             /\ s = St(m1, tk1, res1)
             /\ Grown(lev, m, m1, tk1) /\ LowerKept(lev, m, m1) /\ PointersKept(lev, m, m1)
             /\ res1 = "Ok" => E1(m1, r, v) # Zero /\ E2(m1, r, v) # Zero
    BY <1>1, <2>1, PdAllocated
  <2>4. s.mem = m1 /\ s.res = res1
    BY <2>3 DEF St
  <2>5. SameViews(m, m1)
    BY <2>3 DEF Grown
  <2>6. PICK lev1, up1, at1 : /\ Tree(lev1, up1, at1, m1, tk1) /\ Extends(lev, lev1)
                              /\ FreshEmpty(lev, lev1, m1)
    BY <2>3 DEF Grown
  <2> HIDE DEF s
  <2>7. CASE res1 # "Ok"
    <3>1. Page2M(st, r, v, p, flags) = St(m1, tk1, res1)
      <4> HIDE DEF st
      <4> QED
        BY <2>2, <2>3, <2>4, <2>7, Zenon
    <3> HIDE DEF st
    <3> QED
      BY <2>5, <2>6, <3>1 DEF st
  <2>8. CASE res1 = "Ok"
    <3> DEFINE pd == E2(m1, r, v).addr
               n == SetEntry(m1, pd, a.pt, e)
    <3>1. pd \in Frames /\ lev1[pd] = 3 /\ a.pt \in Idx
      BY <2>3, <2>6, <2>8, WalkLevels, TranslateIs
    <3>2. m1[pd][a.pt] = Zero
      <4> HIDE DEF a
      <4>1. CASE lev[pd] = 0
        BY <2>6, <3>1, <4>1 DEF FreshEmpty, ZeroTable
      <4>2. CASE lev[pd] # 0
        <5>1. E2(m, r, v).addr = pd
          BY <2>3, <2>6, <2>8, <4>2, SamePdFound
        <5>2. m[pd][a.pt] = Zero
          BY <1>3, <5>1 DEF E3, a
        <5>3. lev[pd] = 3
          BY <2>6, <3>1, <4>2 DEF Extends
        <5> QED
          BY <2>3, <3>1, <5>2, <5>3 DEF LowerKept
      <4> QED
        BY <4>1, <4>2
    <3>3. E3(m1, r, v) = Zero
      BY <3>2 DEF E3
    <3>4. PdOf(s.mem, r, a) = pd
      BY <2>4 DEF PdOf, E1, E2
    <3>5. s = St(m1, tk1, "Ok")
      BY <2>3, <2>8
    <3>6. Page2M(st, r, v, p, flags) = St(n, tk1, "Ok")
      <4> DEFINE i == a.pt
      <4>1. SetLarge(St(m1, tk1, "Ok"), pd, i, p, marked) = St(n, tk1, "Ok")
        <5>1. m1[pd][i] = Zero
          BY <3>2
        <5>2. n = SetEntry(m1, pd, i, [addr |-> p, flags |-> marked \cup {"PS"}])
          BY Zenon DEF e
        <5> HIDE DEF pd, i, n
        <5>3. SetLarge(St(m1, tk1, "Ok"), pd, i, p, marked) =
             St(SetEntry(m1, pd, i, [addr |-> p, flags |-> marked \cup {"PS"}]), tk1, "Ok")
          BY <5>1, LargeIs
        <5> QED
          BY <5>2, <5>3, Zenon
      <4>2. Page2M(st, r, v, p, flags) = SetLarge(s, PdOf(s.mem, r, a), i, p, marked)
        <5> HIDE DEF st
        <5> QED
          BY <2>2, <2>4, <2>8, Zenon
      <4> HIDE DEF st, n, pd
      <4> QED
        BY <3>4, <3>5, <4>1, <4>2, Zenon
    <3>7. /\ Tree(lev1, up1, at1, n, tk1) /\ ChangesSlot(m1, n, r, v)
          /\ \/ SameViews(m1, n)
             \/ \A w \in Virtual : w \div Fan = v \div Fan =>
                                      View(n, r, w) = e.addr + (w % Fan)
      BY <1>1, <2>3, <2>6, <2>8, <3>3, LargeStored
    <3>8. ChangesSlot(m, n, r, v)
      <4> HIDE DEF n
      <4> QED
        BY <2>5, <3>7 DEF ChangesSlot, SameViews
    <3>9. \/ SameViews(m, n)
          \/ \A w \in Virtual : w \div Fan = v \div Fan => View(n, r, w) = p + (w % Fan)
      <4> HIDE DEF n
      <4> QED
        BY <1>1, <2>5, <3>7 DEF SameViews
    <3> HIDE DEF st, n
    <3> QED
      BY <3>6, <3>7, <3>8, <3>9 DEF st
  <2> QED
    BY <2>7, <2>8
<1> QED
  BY <1>6, <1>7, <1>8

(* unpage_4_kb removes one page, or changes nothing. *)
LEMMA Unpaged4K ==
    ASSUME NEW lev, NEW up, NEW at, NEW m, NEW tk, Tree(lev, up, at, m, tk), RootsApart,
           NEW r \in Roots, NEW v \in Virtual
    PROVE  \E m2, tk2, res :
             /\ Unpage4K(St(m, tk, "Ok"), r, v) = St(m2, tk2, res)
             /\ \E lev2, up2, at2 : Tree(lev2, up2, at2, m2, tk2)
             /\ \/ SameViews(m, m2)
                \/ ChangesAt(m, m2, r, v) /\ View(m2, r, v) = -1
<1> DEFINE st == St(m, tk, "Ok")
           n == SetEntry(m, E3(m, r, v).addr, Translate(v).page, Zero)
<1>1. st.mem = m
  BY DEF St
<1>2. SameViews(m, m)
  BY DEF SameViews
<1>3. Unpage4K(st, r, v) =
        IF E1(m, r, v) = Zero \/ E2(m, r, v) = Zero THEN Fail(st, "PagingError")
        ELSE IF "PS" \in E2(m, r, v).flags \cup E3(m, r, v).flags
          THEN Fail(st, "InvalidActivateFlags")
        ELSE [st EXCEPT !.mem[E3(m, r, v).addr][Translate(v).page] = Zero]
  BY <1>1, Zenon DEF Unpage4K, E1, E2, E3
<1>4. [st EXCEPT !.mem[E3(m, r, v).addr][Translate(v).page] = Zero] = St(n, tk, "Ok")
  <2> DEFINE b == E3(m, r, v).addr
             j == Translate(v).page
             z == Zero
  <2> HIDE DEF b, j, z
  <2>1. [St(m, tk, "Ok") EXCEPT !.mem[b][j] = z] = St(SetEntry(m, b, j, z), tk, "Ok")
    BY StoreIs
  <2> QED
    BY <2>1, Zenon DEF b, j, z
<1>5. \A err : Fail(st, err) = St(m, tk, err)
  BY FailIs
<1> HIDE DEF st, n
<1>6. CASE \/ E1(m, r, v) = Zero \/ E2(m, r, v) = Zero
           \/ "PS" \in E2(m, r, v).flags \cup E3(m, r, v).flags
  <2>1. \E err : Unpage4K(st, r, v) = St(m, tk, err)
    BY <1>3, <1>5, <1>6, Zenon
  <2> QED
    BY <1>2, <2>1 DEF st
<1>7. CASE ~(\/ E1(m, r, v) = Zero \/ E2(m, r, v) = Zero
             \/ "PS" \in E2(m, r, v).flags \cup E3(m, r, v).flags)
  <2>1. Unpage4K(st, r, v) = St(n, tk, "Ok")
    BY <1>3, <1>4, <1>7, Zenon
  <2>2. Zero \in Entries /\ "P" \notin Zero.flags /\ Zero.addr = 0
    BY DEF Zero, Entries
  <2>3. ~Whole(E3(m, r, v))
    BY <1>7 DEF Whole
  <2>4. CASE E3(m, r, v) = Zero
    <3>1. Translate(v).page \in Idx /\ 0 \in Frames
      BY TranslateIs, PagerAssumption
    <3>2. m \in [Frames -> [Idx -> Entries]] /\ m[0] = ZeroTable
      BY <3>1, PagerAssumption DEF Tree, Shape, Levels
    <3>3. SetEntry(m, 0, Translate(v).page, Zero) = m
      BY <3>1, <3>2 DEF SetEntry, ZeroTable
    <3>4. n = m
      BY <2>2, <2>4, <3>3 DEF n
    <3> QED
      BY <1>2, <2>1, <3>4 DEF st
  <2>5. CASE E3(m, r, v) # Zero
    <3>1. /\ Tree(lev, up, at, n, tk) /\ ChangesAt(m, n, r, v) /\ View(n, r, v) = -1
      BY <2>2, <2>3, <2>5, LeafStored DEF n
    <3> QED
      BY <2>1, <3>1 DEF st
  <2> QED
    BY <2>4, <2>5
<1> QED
  BY <1>6, <1>7

-----------------------------------------------------------------------------
(* The steps of the pager.                                                 *)
(* What one call of the pager with the root r leads to. *)
Outcome(m2, r) ==
    \/ SameViews(mem, m2)
    \/ \E v \in Virtual, p \in DataFrames \cup {-1} :
         ChangesAt(mem, m2, r, v) /\ View(m2, r, v) = p
    \/ \E v \in Virtual, p \in DataFrames :
         /\ ChangesSlot(mem, m2, r, v)
         /\ \A w \in Virtual : w \div Fan = v \div Fan => View(m2, r, w) = p + (w % Fan)

(* Free pages are empty anyway, so Apply stores the state as it is. *)
LEMMA AppliedIs ==
    ASSUME NEW lev, NEW up, NEW at, NEW m2, NEW tk2, NEW res, Tree(lev, up, at, m2, tk2),
           Apply(St(m2, tk2, res))
    PROVE  mem' = m2 /\ taken' = tk2
<1>1. St(m2, tk2, res).mem = m2 /\ St(m2, tk2, res).taken = tk2
  BY DEF St
<1>2. /\ mem' = [f \in Frames |-> IF f \in tk2 THEN m2[f] ELSE ZeroTable]
      /\ taken' = tk2
  BY <1>1 DEF Apply
<1>3. \A f \in Frames : f \notin tk2 => m2[f] = ZeroTable
  BY DEF Tree, Levels
<1>4. m2 \in [Frames -> [Idx -> Entries]]
  BY DEF Tree, Shape
<1>5. m2 = [f \in Frames |-> m2[f]]
  BY <1>4
<1>6. [f \in Frames |-> IF f \in tk2 THEN m2[f] ELSE ZeroTable] = [f \in Frames |-> m2[f]]
  BY <1>3
<1> QED
  BY <1>2, <1>5, <1>6

(* What an operation leaves behind is the next state. *)
LEMMA AppliedKeeps ==
    ASSUME RootsApart, NEW lev, NEW up, NEW at, NEW m2, NEW tk2, NEW res,
           Tree(lev, up, at, m2, tk2), Apply(St(m2, tk2, res)), UNCHANGED cr3
    PROVE  IInv' /\ mem' = m2
<1>1. mem' = m2 /\ taken' = tk2
  BY AppliedIs
<1>2. Tree(lev, up, at, mem, taken)'
  BY <1>1 DEF Tree, Levels, Shape, Down, Up, Child, Roots
<1>3. RootsApart'
  BY DEF RootsApart
<1> QED
  BY <1>1, <1>2, <1>3 DEF IInv

(* The state that an operation starts from. *)
LEMMA StateIs == State = St(mem, taken, "Ok")
  BY DEF State, St

-----------------------------------------------------------------------------
(* page_4_kb keeps the tree and changes at most one page. *)
LEMMA StepPage4K ==
    ASSUME IInv, NEW x \in Pagers, NEW v \in Virtual, NEW p \in DataFrames,
           NEW flags \in Flags, DoPage4K(x, v, p, flags)
    PROVE  IInv' /\ cr3' = cr3 /\ cr3[x] \in Roots /\ Outcome(mem', cr3[x])
<1>1. cr3[x] \in Roots /\ RootsApart /\ cr3' = cr3
  BY DEF DoPage4K, Roots, IInv
<1>2. PICK lev, up, at : Tree(lev, up, at, mem, taken)
  BY DEF IInv
<1>3. PICK m2, tk2, res :
             /\ Page4K(St(mem, taken, "Ok"), cr3[x], v, p, flags) = St(m2, tk2, res)
             /\ \E lev2, up2, at2 : Tree(lev2, up2, at2, m2, tk2)
             /\ \/ SameViews(mem, m2)
                \/ ChangesAt(mem, m2, cr3[x], v) /\ View(m2, cr3[x], v) \in {p, -1}
  BY <1>1, <1>2, Paged4K
<1>4. Apply(St(m2, tk2, res))
  BY <1>3, StateIs DEF DoPage4K
<1>5. IInv' /\ mem' = m2
  BY <1>1, <1>3, <1>4, AppliedKeeps
<1>6. Outcome(m2, cr3[x])
  BY <1>3 DEF Outcome
<1> QED
  BY <1>1, <1>5, <1>6

(* page_2_mb of a core, where page_general calls it. *)
LEMMA StepPage2M ==
    ASSUME IInv, NEW x \in Hosts, NEW v \in Virtual, NEW p \in DataFrames,
           NEW flags \in Flags, DoPage2M(x, v, p, flags)
    PROVE  IInv' /\ cr3' = cr3 /\ cr3[x] \in Roots /\ Outcome(mem', cr3[x])
<1>1. cr3[x] \in Roots /\ RootsApart /\ cr3' = cr3 /\ PtOf(mem, cr3[x], v) = Zero
  BY DEF DoPage2M, Roots, IInv, Pagers
<1>2. PICK lev, up, at : Tree(lev, up, at, mem, taken)
  BY DEF IInv
<1>3. PICK m2, tk2, res :
             /\ Page2M(St(mem, taken, "Ok"), cr3[x], v, p, flags) = St(m2, tk2, res)
             /\ \E lev2, up2, at2 : Tree(lev2, up2, at2, m2, tk2)
             /\ \/ SameViews(mem, m2)
                \/ /\ ChangesSlot(mem, m2, cr3[x], v)
                   /\ \A w \in Virtual : w \div Fan = v \div Fan =>
                                           View(m2, cr3[x], w) = p + (w % Fan)
  BY <1>1, <1>2, Paged2M
<1>4. Apply(St(m2, tk2, res))
  BY <1>3, StateIs DEF DoPage2M
<1>5. IInv' /\ mem' = m2
  BY <1>1, <1>3, <1>4, AppliedKeeps
<1>6. Outcome(m2, cr3[x])
  BY <1>3 DEF Outcome
<1> QED
  BY <1>1, <1>5, <1>6

(* unpage_4_kb. *)
LEMMA StepUnpage4K ==
    ASSUME IInv, NEW x \in Pagers, NEW v \in Virtual, DoUnpage4K(x, v)
    PROVE  IInv' /\ cr3' = cr3 /\ cr3[x] \in Roots /\ Outcome(mem', cr3[x])
<1>1. cr3[x] \in Roots /\ RootsApart /\ cr3' = cr3
  BY DEF DoUnpage4K, Roots, IInv
<1>2. PICK lev, up, at : Tree(lev, up, at, mem, taken)
  BY DEF IInv
<1>3. PICK m2, tk2, res :
             /\ Unpage4K(St(mem, taken, "Ok"), cr3[x], v) = St(m2, tk2, res)
             /\ \E lev2, up2, at2 : Tree(lev2, up2, at2, m2, tk2)
             /\ \/ SameViews(mem, m2)
                \/ ChangesAt(mem, m2, cr3[x], v) /\ View(m2, cr3[x], v) = -1
  BY <1>1, <1>2, Unpaged4K
<1>4. Apply(St(m2, tk2, res))
  BY <1>3, StateIs DEF DoUnpage4K
<1>5. IInv' /\ mem' = m2
  BY <1>1, <1>3, <1>4, AppliedKeeps
<1>6. Outcome(m2, cr3[x])
  BY <1>3 DEF Outcome
<1> QED
  BY <1>1, <1>5, <1>6

(* A new root is a free page, and maps nothing. *)
LEMMA StepNew ==
    ASSUME IInv, NEW x \in Pagers, New(x)
    PROVE  /\ IInv' /\ mem' = mem
           /\ \A y \in Pagers \ {x} : cr3'[y] = cr3[y]
           /\ cr3[x] = 0 /\ cr3'[x] \in Frames /\ mem[cr3'[x]] = ZeroTable
<1> DEFINE f == LowestFree(State)
<1>1. f \in Frames \ {0} /\ f \notin taken
  <2>1. State.taken = taken
    BY DEF State
  <2> QED
    BY <2>1, LowestIsFree DEF New
<1>2. /\ cr3[x] = 0 /\ cr3' = [cr3 EXCEPT ![x] = f] /\ taken' = taken \cup {f}
      /\ mem' = [mem EXCEPT ![f] = ZeroTable]
  BY DEF New
<1> HIDE DEF f
<1>3. RootsApart
  BY DEF IInv
<1>4. PICK lev, up, at : Tree(lev, up, at, mem, taken)
  BY DEF IInv
<1>5. /\ lev \in [Frames -> 0 .. 5] /\ lev[f] = 0 /\ mem[f] = ZeroTable
      /\ mem \in [Frames -> [Idx -> Entries]]
  BY <1>1, <1>4 DEF Tree, Levels, Shape
<1>6. mem' = mem
  BY <1>2, <1>5
<1>7. /\ cr3' \in [Pagers -> Frames] /\ cr3'[x] = f
      /\ \A y \in Pagers \ {x} : cr3'[y] = cr3[y]
  BY <1>1, <1>2, <1>3 DEF RootsApart
<1>8. Roots' = Roots \cup {f}
  BY <1>1, <1>2, <1>7 DEF Roots
<1>9. f \notin Roots
  BY <1>1, <1>4, <1>5 DEF Tree, Levels
<1>10. RootsApart'
  BY <1>1, <1>3, <1>7, <1>9 DEF RootsApart, Roots
<1>11. PICK lev2 :
       /\ lev2 \in [Frames -> 0 .. 5] /\ lev2[f] = 1
       /\ \A g \in Frames : g # f => lev2[g] = lev[g]
  <2> DEFINE l == [lev EXCEPT ![f] = 1]
  <2>1. /\ l \in [Frames -> 0 .. 5] /\ l[f] = 1
        /\ \A g \in Frames : g # f => l[g] = lev[g]
    BY <1>1, <1>5
  <2> HIDE DEF l
  <2> QED
    BY <2>1
<1>12. Tree(lev2, up, at, mem, taken)'
  <2>1. Shape(mem', taken')
    BY <1>1, <1>2, <1>4, <1>6 DEF Tree, Shape
  <2>2. Levels(lev2, mem, taken)'
    <3> SUFFICES ASSUME NEW g \in Frames
                 PROVE  /\ g \in taken' <=> lev2[g] # 0
                        /\ g \in DataFrames <=> lev2[g] = 5
                        /\ g \in Roots' <=> lev2[g] = 1
                        /\ lev2[g] = 0 => mem'[g] = ZeroTable
      BY <1>11 DEF Levels
    <3>1. CASE g = f
      BY <1>2, <1>4, <1>5, <1>8, <1>11, <3>1 DEF Tree, Levels
    <3>2. CASE g # f
      BY <1>2, <1>4, <1>6, <1>8, <1>11, <3>2 DEF Tree, Levels
    <3> QED
      BY <3>1, <3>2
  <2>3. Down(lev2, up, at, mem')
    <3> SUFFICES ASSUME NEW g \in Frames, NEW j \in Idx
                 PROVE  /\ lev2[g] \in {1, 2} => \/ mem[g][j] = Zero
                                                 \/ Child(lev2, up, at, mem, g, j)
                        /\ lev2[g] = 3 => \/ mem[g][j] = Zero
                                          \/ "PS" \in mem[g][j].flags
                                          \/ Child(lev2, up, at, mem, g, j)
      BY <1>6 DEF Down
    <3>1. CASE g = f
      BY <1>5, <1>11, <3>1 DEF ZeroTable
    <3>2. CASE g # f
      <4>1. Child(lev, up, at, mem, g, j) /\ lev[g] \in {1, 2, 3} =>
              Child(lev2, up, at, mem, g, j)
        BY <1>5, <1>11, <3>2 DEF Child
      <4> QED
        BY <1>4, <1>11, <3>2, <4>1 DEF Tree, Down
    <3> QED
      BY <3>1, <3>2
  <2>4. Up(lev2, up, at, mem')
    <3>1. ASSUME NEW g \in Frames, lev2[g] \in {2, 3, 4}
          PROVE  /\ lev2[up[g]] = lev2[g] - 1 /\ mem[up[g]][at[g]].addr = g
                 /\ "PS" \notin mem[up[g]][at[g]].flags
      <4>1. lev[g] = lev2[g] /\ lev[g] \in {2, 3, 4}
        BY <1>11, <3>1
      <4>2. /\ up[g] \in Frames /\ lev[up[g]] = lev[g] - 1 /\ mem[up[g]][at[g]].addr = g
            /\ "PS" \notin mem[up[g]][at[g]].flags
        BY <1>4, <4>1 DEF Tree, Up
      <4>3. up[g] # f
        BY <1>5, <4>1, <4>2
      <4> QED
        BY <1>11, <4>1, <4>2, <4>3
    <3> QED
      BY <1>4, <1>6, <3>1 DEF Tree, Up
  <2> QED
    BY <2>1, <2>2, <2>3, <2>4 DEF Tree, Shape, Down, Up, Child
<1>13. IInv'
  BY <1>10, <1>12 DEF IInv
<1> QED
  BY <1>1, <1>2, <1>5, <1>6, <1>7, <1>13

(* At the start every page but the data is free. *)
LEMMA InitTree == Init => IInv
<1> SUFFICES ASSUME Init PROVE IInv
  OBVIOUS
<1> DEFINE lev == [f \in Frames |-> IF f \in DataFrames THEN 5 ELSE 0]
           up == [f \in Frames |-> 0]
           at == [f \in Frames |-> 0]
<1>1. /\ mem = [f \in Frames |-> ZeroTable] /\ taken = DataFrames
      /\ cr3 = [x \in Pagers |-> 0]
  BY DEF Init
<1>2. 0 \in Frames /\ DataFrames \subseteq Frames \ {0} /\ 0 \in Idx
  BY PagerAssumption DEF Idx
<1>3. RootsApart /\ Roots = {}
  BY <1>1, <1>2 DEF RootsApart, Roots
<1>4. ZeroTable \in [Idx -> Entries]
  BY DEF ZeroTable, Zero, Entries
<1>5. Shape(mem, taken)
  BY <1>1, <1>2, <1>4 DEF Shape
<1>6. /\ lev \in [Frames -> 0 .. 5]
      /\ \A f \in Frames : lev[f] = IF f \in DataFrames THEN 5 ELSE 0
  OBVIOUS
<1>7. up \in [Frames -> Frames] /\ at \in [Frames -> Idx]
  BY <1>2
<1> HIDE DEF lev, up, at
<1>8. Levels(lev, mem, taken)
  BY <1>1, <1>3, <1>6 DEF Levels
<1>9. Down(lev, up, at, mem) /\ Up(lev, up, at, mem)
  BY <1>6, <1>7 DEF Down, Up
<1> QED
  BY <1>3, <1>5, <1>8, <1>9 DEF IInv, Tree

(* What a step of the cores' pagers does. *)
LEMMA StepKeeps ==
    ASSUME Guests = {}, IInv, Next
    PROVE  /\ IInv'
           /\ \/ \E x \in Pagers : New(x)
              \/ \E x \in Pagers : /\ cr3' = cr3 /\ cr3[x] \in Roots
                                   /\ Outcome(mem', cr3[x])
<1>1. Pagers = Hosts /\ MapLarge = Hosts
  BY DEF Pagers, MapLarge
<1>2. Mapped \subseteq Virtual
  BY PagerAssumption DEF Virtual
<1>3. CASE \E x \in Pagers : New(x)
  BY <1>3, StepNew
<1>4. CASE \E x \in Pagers, v \in Mapped, p \in DataFrames, flags \in Flags :
             DoPage4K(x, v, p, flags)
  BY <1>2, <1>4, StepPage4K
<1>5. CASE \E x \in MapLarge, v \in Mapped, p \in {f \in DataFrames : f % Fan = 0},
              flags \in Flags : DoPage2M(x, v, p, flags)
  BY <1>1, <1>2, <1>5, StepPage2M
<1>6. CASE \E x \in Hosts, v \in Mapped : DoUnpage4K(x, v)
  BY <1>1, <1>2, <1>6, StepUnpage4K
<1> QED
  BY <1>3, <1>4, <1>5, <1>6 DEF Next

-----------------------------------------------------------------------------
(* What the tree says about the state.                                     *)
(* The table that the entries of pager x at the second and third level are in. *)
Owns(lev, up, x, t) ==
    \/ lev[t] = 1 /\ t = cr3[x]
    \/ lev[t] = 2 /\ up[t] = cr3[x]
    \/ lev[t] = 3 /\ up[up[t]] = cr3[x]

Pdpts(x) == {e \in {<<cr3[x], i>> : i \in Idx} : mem[e[1]][e[2]] # Zero}

Pds(x) == {e \in {<<mem[d[1]][d[2]].addr, i>> : d \in Pdpts(x), i \in Idx} :
             mem[e[1]][e[2]] # Zero}

Pts(x) == {e \in {<<mem[d[1]][d[2]].addr, i>> : d \in Pds(x), i \in Idx} :
             mem[e[1]][e[2]] # Zero /\ "PS" \notin mem[e[1]][e[2]].flags}

(* The three levels of the table entries. *)
LEMMA TableEntriesAre ==
    ASSUME NEW x
    PROVE  TableEntries(x) = IF cr3[x] = 0 THEN {} ELSE Pdpts(x) \cup Pds(x) \cup Pts(x)
BY DEF TableEntries, Pdpts, Pds, Pts

(* A table entry of a pager is an entry of one of its tables, and points to the *)
(* table that belongs to it.                                                    *)
LEMMA TableEntryIs ==
    ASSUME NEW lev, NEW up, NEW at, Tree(lev, up, at, mem, taken), RootsApart,
           NEW x \in Pagers, NEW e \in TableEntries(x)
    PROVE  \E t \in Frames, i \in Idx :
             e = <<t, i>> /\ Child(lev, up, at, mem, t, i) /\ Owns(lev, up, x, t)
             /\ lev[t] \in {1, 2, 3} /\ cr3[x] # 0
<1>1. cr3[x] # 0 /\ (e \in Pdpts(x) \/ e \in Pds(x) \/ e \in Pts(x))
  BY TableEntriesAre
<1>2. cr3[x] \in Frames /\ lev[cr3[x]] = 1
  BY <1>1 DEF Tree, Levels, Roots, RootsApart
<1>3. ASSUME NEW d \in Pdpts(x)
      PROVE  \E i \in Idx : /\ d = <<cr3[x], i>> /\ mem[d[1]][d[2]] = mem[cr3[x]][i]
                            /\ Child(lev, up, at, mem, cr3[x], i)
  <2>1. PICK i \in Idx : d = <<cr3[x], i>> /\ mem[cr3[x]][i] # Zero
    BY DEF Pdpts
  <2>2. Child(lev, up, at, mem, cr3[x], i)
    BY <1>2, <2>1 DEF Tree, Down
  <2> QED
    BY <2>1, <2>2
<1>4. ASSUME NEW d \in Pds(x)
      PROVE  \E t \in Frames, i \in Idx :
               /\ d = <<t, i>> /\ mem[d[1]][d[2]] = mem[t][i]
               /\ lev[t] = 2 /\ up[t] = cr3[x] /\ Child(lev, up, at, mem, t, i)
  <2>1. PICK c \in Pdpts(x), i \in Idx :
          d = <<mem[c[1]][c[2]].addr, i>> /\ mem[d[1]][d[2]] # Zero
    BY DEF Pds
  <2>2. PICK j \in Idx : mem[c[1]][c[2]] = mem[cr3[x]][j] /\ Child(lev, up, at, mem, cr3[x], j)
    BY <1>3
  <2> DEFINE t == mem[cr3[x]][j].addr
  <2>3. t \in Frames /\ lev[t] = 2 /\ up[t] = cr3[x]
    BY <1>2, <2>2 DEF Child
  <2>4. d = <<t, i>> /\ mem[t][i] # Zero
    BY <2>1, <2>2
  <2> HIDE DEF t
  <2>5. Child(lev, up, at, mem, t, i)
    BY <2>3, <2>4 DEF Tree, Down
  <2> QED
    BY <2>3, <2>4, <2>5
<1>5. ASSUME e \in Pts(x)
      PROVE  \E t \in Frames, i \in Idx :
               /\ e = <<t, i>> /\ lev[t] = 3 /\ up[up[t]] = cr3[x]
               /\ Child(lev, up, at, mem, t, i)
  <2>1. PICK c \in Pds(x), i \in Idx :
          /\ e = <<mem[c[1]][c[2]].addr, i>> /\ mem[e[1]][e[2]] # Zero
          /\ "PS" \notin mem[e[1]][e[2]].flags
    BY <1>5 DEF Pts
  <2>2. PICK g \in Frames, j \in Idx :
          /\ mem[c[1]][c[2]] = mem[g][j] /\ lev[g] = 2 /\ up[g] = cr3[x]
          /\ Child(lev, up, at, mem, g, j)
    BY <1>4
  <2> DEFINE t == mem[g][j].addr
  <2>3. t \in Frames /\ lev[t] = 3 /\ up[t] = g
    BY <2>2 DEF Child
  <2>4. e = <<t, i>> /\ mem[t][i] # Zero /\ "PS" \notin mem[t][i].flags
    BY <2>1, <2>2
  <2> HIDE DEF t
  <2>5. Child(lev, up, at, mem, t, i)
    BY <2>3, <2>4 DEF Tree, Down
  <2> QED
    BY <2>2, <2>3, <2>4, <2>5
<1>6. CASE e \in Pdpts(x)
  BY <1>1, <1>2, <1>3, <1>6 DEF Owns
<1>7. CASE e \in Pds(x)
  BY <1>1, <1>4, <1>7 DEF Owns
<1>8. CASE e \in Pts(x)
  BY <1>1, <1>5, <1>8 DEF Owns
<1> QED
  BY <1>1, <1>6, <1>7, <1>8

(* The entry that a table belongs to is an entry of a pager. *)
LEMMA TableIsReached ==
    ASSUME NEW lev, NEW up, NEW at, Tree(lev, up, at, mem, taken), RootsApart,
           NEW f \in Frames, lev[f] \in {2, 3, 4}
    PROVE  \E x \in Pagers : f \in Tables(x)
<1>1. /\ lev[0] = 0 /\ 0 \in Frames /\ Zero.addr = 0
  BY PagerAssumption DEF Tree, Levels, Shape, Zero
<1>2. ASSUME NEW g \in Frames, lev[g] \in {2, 3, 4}
      PROVE  /\ up[g] \in Frames /\ at[g] \in Idx /\ lev[up[g]] = lev[g] - 1
             /\ mem[up[g]][at[g]].addr = g /\ "PS" \notin mem[up[g]][at[g]].flags
             /\ mem[up[g]][at[g]] # Zero
  <2>1. /\ up[g] \in Frames /\ at[g] \in Idx /\ lev[up[g]] = lev[g] - 1
        /\ mem[up[g]][at[g]].addr = g /\ "PS" \notin mem[up[g]][at[g]].flags
    BY <1>2 DEF Tree, Up
  <2> QED
    BY <1>1, <1>2, <2>1
<1>3. ASSUME NEW g \in Frames, lev[g] = 2
      PROVE  \E x \in Pagers : cr3[x] # 0 /\ <<up[g], at[g]>> \in Pdpts(x)
  <2>1. lev[up[g]] = 1 /\ up[g] \in Frames
    BY <1>2, <1>3
  <2>2. up[g] \in Roots
    BY <2>1 DEF Tree, Levels
  <2>3. PICK x \in Pagers : cr3[x] = up[g] /\ cr3[x] # 0
    BY <2>2 DEF Roots
  <2>4. <<up[g], at[g]>> \in Pdpts(x)
    BY <1>2, <1>3, <2>3 DEF Pdpts
  <2> QED
    BY <2>3, <2>4
<1>4. ASSUME NEW g \in Frames, lev[g] = 3
      PROVE  \E x \in Pagers : cr3[x] # 0 /\ <<up[g], at[g]>> \in Pds(x)
  <2>1. lev[up[g]] = 2 /\ up[g] \in Frames
    BY <1>2, <1>4
  <2>2. PICK x \in Pagers : cr3[x] # 0 /\ <<up[up[g]], at[up[g]]>> \in Pdpts(x)
    BY <1>3, <2>1
  <2>3. mem[up[up[g]]][at[up[g]]].addr = up[g]
    BY <1>2, <2>1
  <2>4. <<up[g], at[g]>> \in Pds(x)
    <3>1. <<up[g], at[g]>> \in {<<mem[d[1]][d[2]].addr, i>> : d \in Pdpts(x), i \in Idx}
      <4> DEFINE d == <<up[up[g]], at[up[g]]>>
      <4>1. d \in Pdpts(x) /\ mem[d[1]][d[2]].addr = up[g] /\ at[g] \in Idx
        BY <1>2, <1>4, <2>2, <2>3
      <4> HIDE DEF d
      <4> QED
        BY <4>1
    <3>2. mem[up[g]][at[g]] # Zero
      BY <1>2, <1>4
    <3> QED
      BY <3>1, <3>2 DEF Pds
  <2> QED
    BY <2>2, <2>4
<1>5. ASSUME lev[f] = 4
      PROVE  \E x \in Pagers : cr3[x] # 0 /\ <<up[f], at[f]>> \in Pts(x)
  <2>1. lev[up[f]] = 3 /\ up[f] \in Frames
    BY <1>2, <1>5
  <2>2. PICK x \in Pagers : cr3[x] # 0 /\ <<up[up[f]], at[up[f]]>> \in Pds(x)
    BY <1>4, <2>1
  <2>3. mem[up[up[f]]][at[up[f]]].addr = up[f]
    BY <1>2, <2>1
  <2>4. <<up[f], at[f]>> \in Pts(x)
    <3>1. <<up[f], at[f]>> \in {<<mem[d[1]][d[2]].addr, i>> : d \in Pds(x), i \in Idx}
      <4> DEFINE d == <<up[up[f]], at[up[f]]>>
      <4>1. d \in Pds(x) /\ mem[d[1]][d[2]].addr = up[f] /\ at[f] \in Idx
        BY <1>2, <1>5, <2>2, <2>3
      <4> HIDE DEF d
      <4> QED
        BY <4>1
    <3>2. mem[up[f]][at[f]] # Zero /\ "PS" \notin mem[up[f]][at[f]].flags
      BY <1>2, <1>5
    <3> QED
      BY <3>1, <3>2 DEF Pts
  <2> QED
    BY <2>2, <2>4
<1>6. PICK x \in Pagers : cr3[x] # 0 /\ <<up[f], at[f]>> \in Pdpts(x) \cup Pds(x) \cup Pts(x)
  BY <1>3, <1>4, <1>5
<1>7. <<up[f], at[f]>> \in TableEntries(x)
  BY <1>6, TableEntriesAre
<1>8. f \in Tables(x)
  <2> DEFINE e == <<up[f], at[f]>>
  <2>1. e \in TableEntries(x) /\ mem[e[1]][e[2]].addr = f
    BY <1>2, <1>7
  <2> HIDE DEF e
  <2> QED
    BY <2>1 DEF Tables
<1> QED
  BY <1>8

(* What the tables of a pager are. *)
LEMMA TablesAre ==
    ASSUME NEW lev, NEW up, NEW at, Tree(lev, up, at, mem, taken), RootsApart,
           NEW x \in Pagers, NEW f \in Tables(x)
    PROVE  f \in Frames /\ lev[f] \in {2, 3, 4}
<1>1. PICK e \in TableEntries(x) : f = mem[e[1]][e[2]].addr
  BY DEF Tables
<1>2. PICK t \in Frames, i \in Idx :
             e = <<t, i>> /\ Child(lev, up, at, mem, t, i) /\ lev[t] \in {1, 2, 3}
  BY TableEntryIs
<1>3. f = mem[t][i].addr
  BY <1>1, <1>2
<1> QED
  BY <1>2, <1>3 DEF Child

(* No page is lost, and none is used twice. *)
LEMMA TreeIsExact == IInv => TablesExact
<1> SUFFICES ASSUME IInv PROVE TablesExact
  OBVIOUS
<1>1. RootsApart
  BY DEF IInv
<1>2. PICK lev, up, at : Tree(lev, up, at, mem, taken)
  BY DEF IInv
<1>3. /\ DataFrames \subseteq taken /\ taken \subseteq Frames /\ Roots \subseteq taken
      /\ DataFrames \subseteq Frames
  BY <1>1, <1>2 DEF Tree, Shape, Levels, Roots, RootsApart
<1>4. ASSUME NEW x \in Pagers PROVE Tables(x) \subseteq taken
  <2>1. \A f \in Tables(x) : f \in Frames /\ lev[f] # 0
    BY <1>1, <1>2, TablesAre
  <2> QED
    BY <1>2, <2>1 DEF Tree, Levels
<1>5. ASSUME NEW f \in taken, f \notin DataFrames, f \notin Roots
      PROVE  \E x \in Pagers : f \in Tables(x)
  <2>1. f \in Frames /\ lev[f] \in {2, 3, 4}
    BY <1>2, <1>3, <1>5 DEF Tree, Levels
  <2> QED
    BY <1>1, <1>2, <2>1, TableIsReached
<1> QED
  BY <1>3, <1>4, <1>5 DEF TablesExact

(* In a tree no table has two entries, or two pagers. *)
LEMMA TreeIsApart == IInv => TablesApart
<1> SUFFICES ASSUME IInv PROVE TablesApart
  OBVIOUS
<1>1. RootsApart
  BY DEF IInv
<1>2. PICK lev, up, at : Tree(lev, up, at, mem, taken)
  BY DEF IInv
<1>3. ASSUME NEW x \in Pagers, NEW y \in Pagers, NEW e \in TableEntries(x),
             NEW f \in TableEntries(y), mem[e[1]][e[2]].addr = mem[f[1]][f[2]].addr
      PROVE  x = y /\ e = f
  <2>1. PICK t \in Frames, i \in Idx :
             e = <<t, i>> /\ Child(lev, up, at, mem, t, i) /\ Owns(lev, up, x, t)
             /\ lev[t] \in {1, 2, 3} /\ cr3[x] # 0
    BY <1>1, <1>2, TableEntryIs
  <2>2. PICK g \in Frames, j \in Idx :
             f = <<g, j>> /\ Child(lev, up, at, mem, g, j) /\ Owns(lev, up, y, g)
             /\ lev[g] \in {1, 2, 3} /\ cr3[y] # 0
    BY <1>1, <1>2, TableEntryIs
  <2>3. mem[t][i].addr = mem[g][j].addr
    BY <1>3, <2>1, <2>2
  <2>4. t = g /\ i = j
    BY <2>1, <2>2, <2>3 DEF Child
  <2>5. cr3[x] = cr3[y]
    BY <2>1, <2>2, <2>4 DEF Owns
  <2> QED
    BY <1>1, <2>1, <2>2, <2>4, <2>5 DEF RootsApart
<1>4. ASSUME NEW x \in Pagers PROVE Tables(x) \cap (DataFrames \cup Roots) = {}
  <2>1. \A f \in Tables(x) : f \in Frames /\ lev[f] \in {2, 3, 4}
    BY <1>1, <1>2, TablesAre
  <2> QED
    BY <1>2, <2>1 DEF Tree, Levels
<1> QED
  BY <1>3, <1>4 DEF TablesApart

-----------------------------------------------------------------------------
(* The address spaces that the tables implement. *)
Bar == [x \in Pagers |-> [v \in Virtual |-> PhysicalOf(x, v)]]

(* At the start nothing is mapped. *)
LEMMA InitMaps == Init => AS!Init
<1> SUFFICES ASSUME Init PROVE AS!Init
  OBVIOUS
<1>1. ASSUME NEW x \in Pagers, NEW v \in Virtual PROVE PhysicalOf(x, v) = -1
  BY DEF Init, PhysicalOf
<1> QED
  BY <1>1 DEF AS!Init, AS!Unmapped

(* A call is a Map, an Unmap or a MapLarge of its pager, or changes nothing. *)
LEMMA CallMaps ==
    ASSUME RootsApart, NEW x \in Pagers, cr3' = cr3, cr3[x] \in Roots, Outcome(mem', cr3[x])
    PROVE  AS!Next \/ Bar' = Bar
<1> DEFINE r == cr3[x]
<1>1. \A y, v : PhysicalOf(y, v) = View(mem, cr3[y], v)
                /\ PhysicalOf(y, v)' = View(mem', cr3[y], v)
  BY DEF PhysicalOf, View
<1>2. ASSUME NEW y \in Pagers, cr3[y] = 0, NEW v
      PROVE  View(mem', cr3[y], v) = View(mem, cr3[y], v)
  BY <1>2 DEF View
<1>3. \A y \in Pagers : cr3[y] = 0 \/ (cr3[y] \in Roots /\ (y # x => cr3[y] # r))
  BY DEF RootsApart, Roots
<1>4. /\ Bar = [y \in Pagers |-> [v \in Virtual |-> View(mem, cr3[y], v)]]
      /\ Bar' = [y \in Pagers |-> [v \in Virtual |-> View(mem', cr3[y], v)]]
  BY <1>1 DEF Bar
<1>5. \A y \in Pagers : /\ Bar[y] = [v \in Virtual |-> View(mem, cr3[y], v)]
                        /\ Bar'[y] = [v \in Virtual |-> View(mem', cr3[y], v)]
  BY <1>4
<1>6. AS!Next <=>
        \E y \in Pagers :
          /\ \A z \in Pagers \ {y} : Bar'[z] = Bar[z]
          /\ \/ AS!Drop(Bar'[y])
             \/ \E v \in Virtual : \/ AS!Map(Bar[y], Bar'[y], v)
                                   \/ AS!Unmap(Bar[y], Bar'[y], v)
                                   \/ AS!MapLarge(Bar[y], Bar'[y], v)
             \/ \E z \in Pagers, base \in Virtual : AS!Join(Bar[y], Bar'[y], Bar[z], base)
  BY DEF AS!Next, Bar
<1> HIDE DEF r
<1>7. CASE SameViews(mem, mem')
  BY <1>2, <1>3, <1>4, <1>7 DEF SameViews
<1>8. ASSUME NEW S, \A q \in Roots, w \in Virtual : q # r \/ w \notin S =>
                       View(mem', q, w) = View(mem, q, w)
      PROVE  /\ \A z \in Pagers \ {x} : Bar'[z] = Bar[z]
             /\ \A w \in Virtual \ S : Bar'[x][w] = Bar[x][w]
  <2>1. ASSUME NEW z \in Pagers \ {x}, NEW w \in Virtual
        PROVE  View(mem', cr3[z], w) = View(mem, cr3[z], w)
    BY <1>2, <1>3, <1>8, <2>1
  <2>2. \A z \in Pagers \ {x} : Bar'[z] = Bar[z]
    BY <1>5, <2>1
  <2>3. \A w \in Virtual \ S : Bar'[x][w] = Bar[x][w]
    <3>1. \A w \in Virtual \ S : View(mem', cr3[x], w) = View(mem, cr3[x], w)
      BY <1>8 DEF r
    <3>2. /\ Bar[x] = [v \in Virtual |-> View(mem, cr3[x], v)]
          /\ Bar'[x] = [v \in Virtual |-> View(mem', cr3[x], v)]
      BY <1>5
    <3> HIDE DEF Bar
    <3> QED
      BY <3>1, <3>2
  <2> QED
    BY <2>2, <2>3
<1>9. ASSUME NEW v \in Virtual, NEW p \in DataFrames \cup {-1},
             ChangesAt(mem, mem', r, v), View(mem', r, v) = p
      PROVE  AS!Next
  <2>1. /\ \A z \in Pagers \ {x} : Bar'[z] = Bar[z]
        /\ \A w \in Virtual \ {v} : Bar'[x][w] = Bar[x][w]
    BY <1>8, <1>9 DEF ChangesAt
  <2>2. Bar'[x][v] = p
    BY <1>5, <1>9 DEF r
  <2>3. AS!Map(Bar[x], Bar'[x], v) \/ AS!Unmap(Bar[x], Bar'[x], v)
    BY <2>1, <2>2 DEF AS!Map, AS!Unmap, AS!SameOutside, AS!Unmapped
  <2> QED
    BY <1>6, <2>1, <2>3
<1>10. ASSUME NEW v \in Virtual, NEW p \in DataFrames, ChangesSlot(mem, mem', r, v),
              \A w \in Virtual : w \div Fan = v \div Fan => View(mem', r, w) = p + (w % Fan)
       PROVE  AS!Next
  <2> DEFINE slot == {w \in Virtual : w \div Fan = v \div Fan}
  <2>1. /\ \A z \in Pagers \ {x} : Bar'[z] = Bar[z]
        /\ \A w \in Virtual \ slot : Bar'[x][w] = Bar[x][w]
    <3>1. \A q \in Roots, w \in Virtual : q # r \/ w \notin slot =>
                       View(mem', q, w) = View(mem, q, w)
      BY <1>10 DEF ChangesSlot
    <3> HIDE DEF slot
    <3> QED
      BY <1>8, <3>1
  <2>2. \A w \in slot : Bar'[x][w] = p + (w % Fan)
    BY <1>5, <1>10 DEF r
  <2>3. AS!MapLarge(Bar[x], Bar'[x], v)
    BY <2>1, <2>2 DEF AS!MapLarge, AS!SameOutside
  <2> QED
    BY <1>6, <2>1, <2>3
<1> QED
  BY <1>7, <1>9, <1>10 DEF Outcome, r

(* A new pager maps nothing. *)
LEMMA NewMaps ==
    ASSUME IInv, NEW x \in Pagers, New(x)
    PROVE  Bar' = Bar
<1>1. /\ mem' = mem /\ \A y \in Pagers \ {x} : cr3'[y] = cr3[y]
      /\ cr3[x] = 0 /\ cr3'[x] \in Frames /\ mem[cr3'[x]] = ZeroTable
  BY StepNew
<1>2. \A y, v : PhysicalOf(y, v) = View(mem, cr3[y], v)
                /\ PhysicalOf(y, v)' = View(mem, cr3'[y], v)
  BY <1>1 DEF PhysicalOf, View
<1>3. ASSUME NEW y \in Pagers, NEW v \in Virtual
      PROVE  View(mem, cr3'[y], v) = View(mem, cr3[y], v)
  <2>1. CASE y # x
    BY <1>1, <2>1
  <2>2. CASE y = x
    <3>1. View(mem, cr3[x], v) = -1
      BY <1>1 DEF View
    <3>2. E1(mem, cr3'[x], v) = Zero
      BY <1>1, TranslateIs DEF E1, ZeroTable
    <3>3. View(mem, cr3'[x], v) = -1
      <4>1. CASE cr3'[x] = 0
        BY <4>1 DEF View
      <4>2. CASE cr3'[x] # 0
        <5>1. View(mem, cr3'[x], v) =
                Seen(E1(mem, cr3'[x], v), E2(mem, cr3'[x], v), E3(mem, cr3'[x], v),
                     E4(mem, cr3'[x], v), v)
          BY <4>2, ViewIs
        <5> QED
          BY <3>2, <5>1 DEF Seen, Zero
      <4> QED
        BY <4>1, <4>2
    <3> QED
      BY <2>2, <3>1, <3>3
  <2> QED
    BY <2>1, <2>2
<1> QED
  BY <1>2, <1>3 DEF Bar

-----------------------------------------------------------------------------
(* The tables of the cores' pagers form a tree, whatever they map: the       *)
(* inductive invariant that the three theorems below follow from.            *)
THEOREM TreeKept == Guests = {} => (Spec => []IInv)
<1> SUFFICES ASSUME Guests = {} PROVE Spec => []IInv
  OBVIOUS
<1>1. Init => IInv
  BY InitTree
<1>2. IInv /\ [Next]_vars => IInv'
  <2> SUFFICES ASSUME IInv, [Next]_vars PROVE IInv'
    OBVIOUS
  <2>1. CASE Next
    BY <2>1, StepKeeps
  <2>2. CASE UNCHANGED vars
    <3>1. mem' = mem /\ taken' = taken /\ cr3' = cr3
      BY <2>2 DEF vars
    <3>2. PICK lev, up, at : Tree(lev, up, at, mem, taken)
      BY DEF IInv
    <3>3. Tree(lev, up, at, mem, taken)'
      BY <3>1, <3>2 DEF Tree, Shape, Levels, Down, Up, Child, Roots
    <3>4. RootsApart'
      BY <3>1 DEF IInv, RootsApart
    <3> QED
      BY <3>3, <3>4 DEF IInv
  <2> QED
    BY <2>1, <2>2
<1> QED
  BY <1>1, <1>2, PTL DEF Spec

(* So page_4_kb, page_2_mb and unpage_4_kb leak no table, even when the      *)
(* allocator has no page left half way down: the pages taken from it are the *)
(* data, the roots and the tables that some pager reaches.                   *)
THEOREM NoPageLost == Guests = {} => (Spec => []TablesExact)
BY TreeKept, TreeIsExact, PTL

(* No table is reached through two entries or by two pagers, and no page of  *)
(* data serves as a table.                                                   *)
THEOREM NoPageShared == Guests = {} => (Spec => []TablesApart)
BY TreeKept, TreeIsApart, PTL

(* A call of page_4_kb, page_2_mb or unpage_4_kb changes where the walk of    *)
(* the pages it names ends and no other page of any pager, also when it       *)
(* unfolds a large page, adds tables on the way, or fails.                    *)
THEOREM PagesAsAsked == Guests = {} => (Spec => ImplementsAddressSpace)
<1> SUFFICES ASSUME Guests = {} PROVE Spec => AS!Spec
  BY DEF ImplementsAddressSpace
<1>1. Init => AS!Init
  BY InitMaps
<1>2. IInv /\ [Next]_vars => [AS!Next]_Bar
  <2> SUFFICES ASSUME IInv, [Next]_vars PROVE AS!Next \/ Bar' = Bar
    OBVIOUS
  <2>1. CASE Next
    BY <2>1, StepKeeps, CallMaps, NewMaps DEF IInv
  <2>2. CASE UNCHANGED vars
    BY <2>2 DEF vars, Bar, PhysicalOf, Present, IsLarge, LeafOf, PtOf, PdOf
  <2> QED
    BY <2>1, <2>2
<1>3. Spec => []IInv
  BY TreeKept
<1> QED
  BY <1>1, <1>2, <1>3, PTL DEF Spec, AS!Spec, Bar
=============================================================================
