---------------------------- MODULE MemoryProofs ----------------------------
(***************************************************************************)
(* Proofs about the directories of the general file system, for every size *)
(* of their arrays, every set of names and every number of maps: a map     *)
(* lists each name once, finds what was entered, and knows how many        *)
(* entries it has room for, also after its buckets have grown and moved.   *)
(* At the end what PagerProofs shows is carried over to SpecMemory.        *)
(***************************************************************************)
EXTENDS MCMemory, SequenceTheorems, WellFoundedInduction, TLAPS

-----------------------------------------------------------------------------
(* Numbers computed step by step.                                          *)

(* A set of numbers has a least one. *)
LEMMA LeastNumber ==
    ASSUME NEW S, S \subseteq Nat, S # {}
    PROVE  \E n \in S : \A m \in S : n <= m
<1>1. PICK n \in S : \A m \in S : <<m, n>> \notin OpToRel(<, Nat)
  BY WFMin, NatLessThanWellFounded, Zenon
<1>2. ASSUME NEW m \in S PROVE ~(m < n)
  BY <1>1, <1>2, Zenon DEF OpToRel
<1> QED
  BY <1>2

(* f goes from 0 by the given steps. *)
Counts(f, N, step) ==
    f \in [0..N -> Int] /\ f[0] = 0 /\ \A n \in 1..N : f[n] = step[<<n, f[n - 1]>>]

(* There is such an f for any steps. *)
LEMMA CountExists ==
    ASSUME NEW N \in Nat, NEW step \in [(1..N) \X Int -> Int]
    PROVE  \E f : Counts(f, N, step)
<1> DEFINE Missing == {n \in 0..N : ~\E f : Counts(f, n, step)}
<1>1. ASSUME Missing # {} PROVE FALSE
  <2>1. PICK n \in Missing : \A m \in Missing : n <= m
    <3>1. Missing \subseteq Nat
      OBVIOUS
    <3> HIDE DEF Missing
    <3> QED
      BY <1>1, <3>1, LeastNumber
  <2>2. n \in 0..N /\ ~\E f : Counts(f, n, step)
    BY <2>1
  <2>3. n # 0
    <3>1. Counts([k \in 0..0 |-> 0], 0, step)
      BY DEF Counts
    <3> QED
      BY <2>2, <3>1
  <2>4. n - 1 \in 0..N /\ ~(n <= n - 1)
    BY <2>2, <2>3
  <2>5. n - 1 \notin Missing
    <3> HIDE DEF Missing
    <3> QED
      BY <2>1, <2>4
  <2>6. PICK f : Counts(f, n - 1, step)
    BY <2>4, <2>5
  <2> DEFINE g == [k \in 0..n |-> IF k < n THEN f[k] ELSE step[<<n, f[n - 1]>>]]
  <2>7. f \in [0..(n - 1) -> Int] /\ f[0] = 0
        /\ \A k \in 1..(n - 1) : f[k] = step[<<k, f[k - 1]>>]
    BY <2>6 DEF Counts
  <2>8. n \in 1..N /\ f[n - 1] \in Int
    BY <2>2, <2>3, <2>7
  <2>9. step[<<n, f[n - 1]>>] \in Int
    BY <2>8
  <2>10. g \in [0..n -> Int] /\ g[0] = 0
    <3>1. \A k \in 0..n : k < n => k \in 0..(n - 1)
      BY <2>2
    <3>2. 0 \in 0..n /\ 0 < n
      BY <2>8
    <3> QED
      BY <2>7, <2>9, <3>1, <3>2
  <2>11. ASSUME NEW k \in 1..n PROVE g[k] = step[<<k, g[k - 1]>>]
    <3>1. k - 1 \in 0..n /\ k - 1 < n /\ k \in 0..n
      BY <2>2
    <3>2. g[k - 1] = f[k - 1]
      BY <3>1
    <3>3. CASE k = n
      <4>1. g[k] = step[<<n, f[n - 1]>>]
        BY <3>1, <3>3, <2>8
      <4> QED
        BY <3>2, <3>3, <4>1
    <3>4. CASE k # n
      <4>1. k < n /\ k \in 1..(n - 1)
        BY <2>2, <3>4
      <4>2. g[k] = f[k]
        BY <3>1, <4>1
      <4> QED
        BY <2>7, <3>2, <4>1, <4>2
    <3> QED
      BY <3>3, <3>4
  <2>12. Counts(g, n, step)
    <3> HIDE DEF g
    <3> QED
      BY <2>10, <2>11 DEF Counts
  <2> QED
    BY <2>2, <2>12
<1>2. N \in 0..N
  OBVIOUS
<1> QED
  BY <1>1, <1>2

(* The hash of a name is the number of a bucket. *)
LEMMA HashIs ==
    ASSUME NEW name \in Seq(Nat), NEW count \in Nat \ {0}
    PROVE  D!HashStr(name, count) \in 0..(count - 1)
<1> DEFINE N == Len(name)
           H(h, n) == ((h + name[n] * 577) * 11) % count
           Step(f) == [n \in 0..N |-> IF n = 0 THEN 0 ELSE H(f[n - 1], n)]
           hash == CHOOSE f : f = Step(f)
           step == [p \in (1..N) \X Int |-> H(p[2], p[1])]
<1>1. N \in Nat /\ \A n \in 1..N : name[n] \in Nat
  OBVIOUS
<1>2. D!HashStr(name, count) = hash[N]
  BY DEF D!HashStr
<1>3. \A x \in Int : x % count \in 0..(count - 1)
  OBVIOUS
<1>4. \A h \in Int, n \in 1..N : H(h, n) \in 0..(count - 1)
  <2> SUFFICES ASSUME NEW h \in Int, NEW n \in 1..N PROVE H(h, n) \in 0..(count - 1)
    OBVIOUS
  <2> DEFINE x == (h + name[n] * 577) * 11
  <2>1. x \in Int
    <3>1. name[n] * 577 \in Int
      BY <1>1
    <3> QED
      BY <3>1
  <2> HIDE DEF x
  <2>2. x % count \in 0..(count - 1)
    BY <1>3, <2>1
  <2> QED
    BY <2>2 DEF x
<1> HIDE DEF H
<1>5. step \in [(1..N) \X Int -> Int]
  <2>1. \A p \in (1..N) \X Int : p[2] \in Int /\ p[1] \in 1..N
    OBVIOUS
  <2>2. \A p \in (1..N) \X Int : H(p[2], p[1]) \in Int
    BY <1>4, <2>1
  <2> QED
    BY <2>2
<1>6. PICK f : Counts(f, N, step)
  <2> HIDE DEF step, N
  <2> QED
    BY <1>1, <1>5, CountExists
<1>7. f = Step(f)
  <2>1. f \in [0..N -> Int] /\ f[0] = 0 /\ \A n \in 1..N : f[n] = step[<<n, f[n - 1]>>]
    BY <1>6, Zenon DEF Counts
  <2>2. ASSUME NEW n \in 1..N PROVE f[n] = H(f[n - 1], n)
    <3>0. n - 1 \in 0..N
      BY <1>1
    <3>1. f[n - 1] \in Int
      <4> HIDE DEF step, N
      <4> QED
        BY <2>1, <3>0
    <3>2. step[<<n, f[n - 1]>>] = H(f[n - 1], n)
      BY <3>1
    <3> QED
      BY <2>1, <3>2
  <2>3. \A n \in 0..N : f[n] = Step(f)[n]
    <3>1. \A n \in 0..N : n = 0 \/ n \in 1..N
      BY <1>1
    <3> HIDE DEF step
    <3> QED
      BY <2>1, <2>2, <3>1
  <2> HIDE DEF N
  <2> QED
    BY <2>1, <2>3
<1>8. hash = Step(hash)
  <2> HIDE DEF Step
  <2> QED
    BY <1>7, Zenon
<1> HIDE DEF hash
<1> DEFINE Bad == {n \in 0..N : hash[n] \notin 0..(count - 1)}
<1>9. ASSUME Bad # {} PROVE FALSE
  <2>1. PICK n \in Bad : \A m \in Bad : n <= m
    <3>1. Bad \subseteq Nat
      OBVIOUS
    <3> HIDE DEF Bad
    <3> QED
      BY <1>9, <3>1, LeastNumber
  <2>2. n \in 0..N /\ hash[n] \notin 0..(count - 1)
    BY <2>1
  <2>3. CASE n = 0
    <3>1. hash[n] = 0
      BY <1>8, <2>3, <1>1
    <3> QED
      BY <2>2, <3>1
  <2>4. CASE n # 0
    <3>1. n - 1 \in 0..N /\ ~(n <= n - 1)
      BY <2>2, <2>4
    <3>2. n - 1 \notin Bad
      <4> HIDE DEF Bad
      <4> QED
        BY <2>1, <3>1
    <3>3. hash[n - 1] \in Int /\ n \in 1..N
      BY <2>2, <2>4, <3>1, <3>2
    <3>4. hash[n] = H(hash[n - 1], n)
      <4> HIDE DEF N
      <4> QED
        BY <1>8, <2>2, <2>4
    <3> QED
      BY <1>4, <2>2, <3>3, <3>4
  <2> QED
    BY <2>3, <2>4
<1>10. N \in 0..N
  BY <1>1
<1> QED
  BY <1>2, <1>9, <1>10

(* The sum of the lengths of N buckets behind the first ones, as Slots     *)
(* computes it, and the sums on the way.                                   *)
Sum(N, first, b) ==
    LET slots[n \in 0..N] == IF n = 0 THEN 0 ELSE slots[n - 1] + b[first + n].len
    IN  slots[N]
Sums(f, N, first, b) ==
    f \in [0..N -> Int] /\ f[0] = 0 /\ \A n \in 1..N : f[n] = f[n - 1] + b[first + n].len

(* The sum taken step by step. *)
LEMMA SumIs ==
    ASSUME NEW N \in Nat, NEW first, NEW b, \A n \in 1..N : b[first + n].len \in Int
    PROVE  \E f : Sums(f, N, first, b) /\ Sum(N, first, b) = f[N]
<1> DEFINE L(n) == b[first + n].len
           Step(f) == [n \in 0..N |-> IF n = 0 THEN 0 ELSE f[n - 1] + L(n)]
           slots == CHOOSE f : f = Step(f)
           step == [p \in (1..N) \X Int |-> p[2] + L(p[1])]
<1>0. \A n \in 1..N : L(n) \in Int
  OBVIOUS
<1>1. Sum(N, first, b) = slots[N]
  BY DEF Sum
<1> HIDE DEF L
<1>2. step \in [(1..N) \X Int -> Int]
  <2>1. \A p \in (1..N) \X Int : p[2] \in Int /\ p[1] \in 1..N
    OBVIOUS
  <2>2. \A p \in (1..N) \X Int : p[2] + L(p[1]) \in Int
    BY <1>0, <2>1
  <2> QED
    BY <2>2
<1>3. PICK f : Counts(f, N, step)
  <2> HIDE DEF step
  <2> QED
    BY <1>2, CountExists
<1>4. f \in [0..N -> Int] /\ f[0] = 0 /\ \A n \in 1..N : f[n] = f[n - 1] + L(n)
  <2>1. f \in [0..N -> Int] /\ f[0] = 0 /\ \A n \in 1..N : f[n] = step[<<n, f[n - 1]>>]
    BY <1>3, Zenon DEF Counts
  <2>2. ASSUME NEW n \in 1..N PROVE f[n] = f[n - 1] + L(n)
    <3>1. f[n - 1] \in Int
      BY <2>1
    <3>2. step[<<n, f[n - 1]>>] = f[n - 1] + L(n)
      BY <3>1
    <3> QED
      BY <2>1, <3>2
  <2> QED
    BY <2>1, <2>2
<1>5. f = Step(f)
  <2>1. \A n \in 0..N : n = 0 \/ n \in 1..N
    OBVIOUS
  <2>2. \A n \in 0..N : f[n] = Step(f)[n]
    BY <1>4, <2>1
  <2> QED
    BY <1>4, <2>2
<1>6. slots = Step(slots)
  <2> HIDE DEF Step
  <2> QED
    BY <1>5, Zenon
<1> HIDE DEF slots
<1>7. \A n \in 0..N : slots[n] \in Int
  <2> DEFINE Bad == {n \in 0..N : slots[n] \notin Int}
  <2>1. ASSUME Bad # {} PROVE FALSE
    <3>1. PICK n \in Bad : \A m \in Bad : n <= m
      <4>1. Bad \subseteq Nat
        OBVIOUS
      <4> HIDE DEF Bad
      <4> QED
        BY <2>1, <4>1, LeastNumber
    <3>2. n \in 0..N /\ slots[n] \notin Int
      BY <3>1
    <3>3. slots[n] = IF n = 0 THEN 0 ELSE slots[n - 1] + L(n)
      BY <1>6, <3>2
    <3>4. n # 0
      BY <3>2, <3>3
    <3>5. n - 1 \in 0..N /\ ~(n <= n - 1) /\ n \in 1..N
      BY <3>2, <3>4
    <3>6. n - 1 \notin Bad
      <4> HIDE DEF Bad
      <4> QED
        BY <3>1, <3>5
    <3> QED
      BY <1>0, <3>2, <3>3, <3>4, <3>5, <3>6
  <2> QED
    BY <2>1
<1>8. Sums(slots, N, first, b)
  <2>1. slots = [n \in 0..N |-> slots[n]] /\ slots[0] = 0
    BY <1>6
  <2>2. \A n \in 1..N : slots[n] = slots[n - 1] + L(n)
    BY <1>6
  <2>3. slots \in [0..N -> Int]
    BY <1>7, <2>1
  <2> QED
    BY <2>1, <2>2, <2>3 DEF Sums, L
<1> QED
  BY <1>1, <1>8

Lengths(N, first, b) == \A n \in 1..N : b[first + n].len \in Int
SameLengths(N, first, b, c) == \A n \in 1..N : c[first + n].len = b[first + n].len
OneLonger(N, first, b, c, k, d) ==
    \A n \in 1..N : /\ first + n = k => c[first + n].len = b[first + n].len + d
                    /\ first + n # k => c[first + n].len = b[first + n].len

(* A length that grows by d makes the sum greater by d. *)
LEMMA SumGrows ==
    ASSUME NEW N \in Nat, NEW first \in Nat, NEW b, NEW c, NEW d \in Int,
           NEW k \in (first + 1)..(first + N),
           Lengths(N, first, b), OneLonger(N, first, b, c, k, d)
    PROVE  Sum(N, first, c) = Sum(N, first, b) + d
<1>a. \A n \in 1..N : b[first + n].len \in Int
  BY DEF Lengths
<1>0. \A n \in 1..N : c[first + n].len = b[first + n].len + (IF first + n = k THEN d ELSE 0)
  BY <1>a DEF OneLonger
<1>1. \A n \in 1..N : c[first + n].len \in Int
  BY <1>0, <1>a
<1>2. PICK f : Sums(f, N, first, b) /\ Sum(N, first, b) = f[N]
  BY <1>a, SumIs
<1>3. PICK g : Sums(g, N, first, c) /\ Sum(N, first, c) = g[N]
  BY <1>1, SumIs
<1> DEFINE Good(n) == g[n] = f[n] + (IF k \in (first + 1)..(first + n) THEN d ELSE 0)
           Bad == {n \in 0..N : ~Good(n)}
<1>4. f \in [0..N -> Int] /\ g \in [0..N -> Int] /\ f[0] = 0 /\ g[0] = 0
  BY <1>2, <1>3 DEF Sums
<1>5. ASSUME Bad # {} PROVE FALSE
  <2>1. PICK n \in Bad : \A m \in Bad : n <= m
    <3>1. Bad \subseteq Nat
      OBVIOUS
    <3> HIDE DEF Bad
    <3> QED
      BY <1>5, <3>1, LeastNumber
  <2>2. n \in 0..N /\ ~Good(n)
    BY <2>1
  <2>3. Good(0)
    BY <1>4
  <2>4. n - 1 \in 0..N /\ ~(n <= n - 1) /\ n \in 1..N
    BY <2>2, <2>3
  <2>5. n - 1 \notin Bad
    <3> HIDE DEF Bad
    <3> QED
      BY <2>1, <2>4
  <2>6. Good(n - 1)
    BY <2>4, <2>5
  <2>7. f[n] = f[n - 1] + b[first + n].len /\ g[n] = g[n - 1] + c[first + n].len
    BY <1>2, <1>3, <2>4 DEF Sums
  <2>8. c[first + n].len = b[first + n].len + (IF first + n = k THEN d ELSE 0)
    BY <1>0, <2>4
  <2>9. b[first + n].len \in Int /\ f[n - 1] \in Int
    BY <1>4, <1>a, <2>4
  <2>10. CASE first + n = k
    BY <2>2, <2>4, <2>6, <2>7, <2>8, <2>9, <2>10
  <2>11. CASE first + n # k
    <3>1. k \in (first + 1)..(first + n) <=> k \in (first + 1)..(first + (n - 1))
      BY <2>4, <2>11
    <3> QED
      BY <2>2, <2>6, <2>7, <2>8, <2>9, <2>11, <3>1
  <2> QED
    BY <2>10, <2>11
<1>6. Good(N)
  BY <1>5
<1> HIDE DEF Bad
<1> QED
  BY <1>2, <1>3, <1>4, <1>6

(* Equal lengths have equal sums. *)
LEMMA SumEqual ==
    ASSUME NEW N \in Nat, NEW first \in Nat, NEW b, NEW c,
           Lengths(N, first, b), SameLengths(N, first, b, c)
    PROVE  Sum(N, first, c) = Sum(N, first, b)
<1>1. \A n \in 1..N : /\ b[first + n].len \in Int /\ c[first + n].len \in Int
                       /\ c[first + n].len = b[first + n].len
  BY DEF Lengths, SameLengths
<1>2. PICK f : Sums(f, N, first, b) /\ Sum(N, first, b) = f[N]
  BY <1>1, SumIs
<1>3. PICK g : Sums(g, N, first, c) /\ Sum(N, first, c) = g[N]
  BY <1>1, SumIs
<1> DEFINE Bad == {n \in 0..N : g[n] # f[n]}
<1>4. f[0] = 0 /\ g[0] = 0
  BY <1>2, <1>3 DEF Sums
<1>5. ASSUME Bad # {} PROVE FALSE
  <2>1. PICK n \in Bad : \A m \in Bad : n <= m
    <3>1. Bad \subseteq Nat
      OBVIOUS
    <3> HIDE DEF Bad
    <3> QED
      BY <1>5, <3>1, LeastNumber
  <2>2. n \in 0..N /\ g[n] # f[n]
    BY <2>1
  <2>3. n - 1 \in 0..N /\ ~(n <= n - 1) /\ n \in 1..N
    BY <1>4, <2>2
  <2>4. n - 1 \notin Bad
    <3> HIDE DEF Bad
    <3> QED
      BY <2>1, <2>3
  <2>5. g[n - 1] = f[n - 1]
    BY <2>3, <2>4
  <2>6. f[n] = f[n - 1] + b[first + n].len /\ g[n] = g[n - 1] + c[first + n].len
    BY <1>2, <1>3, <2>3 DEF Sums
  <2>7. c[first + n].len = b[first + n].len
    BY <1>1, <2>3
  <2> QED
    BY <2>2, <2>5, <2>6, <2>7
<1>6. N \in 0..N
  OBVIOUS
<1> QED
  BY <1>2, <1>3, <1>5, <1>6

(* The sum of lengths that are all the same. *)
LEMMA SumSame ==
    ASSUME NEW N \in Nat, NEW first, NEW b, NEW s \in Int,
           \A n \in 1..N : b[first + n].len = s
    PROVE  Sum(N, first, b) = N * s
<1>1. PICK f : Sums(f, N, first, b) /\ Sum(N, first, b) = f[N]
  BY SumIs
<1> DEFINE Bad == {n \in 0..N : f[n] # n * s}
<1>2. ASSUME Bad # {} PROVE FALSE
  <2>1. PICK n \in Bad : \A m \in Bad : n <= m
    <3>1. Bad \subseteq Nat
      OBVIOUS
    <3> HIDE DEF Bad
    <3> QED
      BY <1>2, <3>1, LeastNumber
  <2>2. n \in 0..N /\ f[n] # n * s
    BY <2>1
  <2>3. f[0] = 0 /\ 0 * s = 0
    BY <1>1 DEF Sums
  <2>4. n - 1 \in 0..N /\ ~(n <= n - 1) /\ n \in 1..N
    BY <2>2, <2>3
  <2>5. n - 1 \notin Bad
    <3> HIDE DEF Bad
    <3> QED
      BY <2>1, <2>4
  <2>6. f[n - 1] = (n - 1) * s
    BY <2>4, <2>5
  <2>7. f[n] = f[n - 1] + s
    BY <1>1, <2>4 DEF Sums
  <2>8. (n - 1) * s + s = n * s
    BY <2>4
  <2> QED
    BY <2>2, <2>6, <2>7, <2>8
<1>3. N \in 0..N
  OBVIOUS
<1> QED
  BY <1>1, <1>2, <1>3

-----------------------------------------------------------------------------
(* The spans of a NodeAllocator.                                           *)
Node == [len : Nat, base : Nat, reserving : BOOLEAN]
End(node) == node.base + node.len

(* The spans lie one behind the other, those that are not used at the end. *)
InOrder(nodes) ==
    \A i, j \in DOMAIN nodes : i < j =>
        nodes[j] = D!ZeroNode \/ (nodes[i] # D!ZeroNode /\ End(nodes[i]) <= nodes[j].base)

(* No span reaches behind the array. *)
Below(nodes, n) == \A i \in DOMAIN nodes : End(nodes[i]) <= n

Spans(a, n) ==
    /\ a = [nodes |-> a.nodes, current |-> a.current]
    /\ a.nodes \in Seq(Node) /\ a.current \in DOMAIN a.nodes
    /\ InOrder(a.nodes) /\ Below(a.nodes, n)

(* The numbers of a span. *)
LEMMA SpanIs ==
    ASSUME NEW node \in Node
    PROVE  /\ node.len \in Nat /\ node.base \in Nat /\ node.reserving \in BOOLEAN
           /\ End(node) \in Nat /\ node.base <= End(node)
           /\ node = [len |-> node.len, base |-> node.base, reserving |-> node.reserving]
           /\ node.len # 0 => node # D!ZeroNode
<1>1. node.len \in Nat /\ node.base \in Nat /\ node.reserving \in BOOLEAN
      /\ node = [len |-> node.len, base |-> node.base, reserving |-> node.reserving]
  BY DEF Node
<1>2. End(node) \in Nat /\ node.base <= End(node)
  BY <1>1 DEF End
<1>3. node = D!ZeroNode => node.len = 0
  BY DEF D!ZeroNode
<1> QED
  BY <1>1, <1>2, <1>3

(* Spans stay in order when the border between two neighbours moves. *)
LEMMA BorderMoves ==
    ASSUME NEW n \in Nat, NEW s \in Seq(Node), NEW t \in Seq(Node), NEW c \in DOMAIN s,
           InOrder(s), Below(s, n), DOMAIN t = DOMAIN s, c - 1 \in DOMAIN s,
           \A i \in DOMAIN s : i # c /\ i # c - 1 => t[i] = s[i],
           s[c] # D!ZeroNode, t[c] # D!ZeroNode, t[c - 1] # D!ZeroNode,
           End(t[c]) = End(s[c]), s[c].base <= t[c].base,
           t[c - 1].base = s[c - 1].base, End(t[c - 1]) <= t[c].base
    PROVE  InOrder(t) /\ Below(t, n)
<1>0. DOMAIN s = 1..Len(s) /\ Len(s) \in Nat
  OBVIOUS
<1>1. \A i \in DOMAIN s : s[i] \in Node /\ t[i] \in Node
  BY <1>0
<1>2. \A i \in DOMAIN s : /\ s[i].base \in Nat /\ End(s[i]) \in Nat /\ s[i].base <= End(s[i])
                          /\ t[i].base \in Nat /\ End(t[i]) \in Nat /\ t[i].base <= End(t[i])
  BY <1>1, SpanIs
<1>3. InOrder(t)
  <2> SUFFICES ASSUME NEW i \in DOMAIN s, NEW j \in DOMAIN s, i < j, t[j] # D!ZeroNode
               PROVE  t[i] # D!ZeroNode /\ End(t[i]) <= t[j].base
    BY Zenon DEF InOrder
  <2>0. i \in Nat /\ j \in Nat /\ c \in Nat
    BY <1>0
  <2>a. s[c - 1] # D!ZeroNode
    <3>1. c - 1 < c
      BY <2>0
    <3> QED
      BY <3>1 DEF InOrder
  <2>1. s[j] # D!ZeroNode
    BY <2>a, Zenon
  <2>2. s[i] # D!ZeroNode /\ End(s[i]) <= s[j].base
    BY <2>1, Zenon DEF InOrder
  <2>3. t[i] # D!ZeroNode
    BY <2>2, Zenon
  <2>4. s[j].base <= t[j].base
    <3>1. CASE j = c
      BY <3>1
    <3>2. CASE j = c - 1
      <4>1. t[j].base = s[j].base
        BY <3>2, Zenon
      <4>2. s[j].base \in Nat
        BY <1>2
      <4> QED
        BY <4>1, <4>2
    <3>3. CASE j # c /\ j # c - 1
      <4>1. t[j] = s[j]
        BY <3>3
      <4>2. s[j].base \in Nat
        BY <1>2
      <4> QED
        BY <4>1, <4>2
    <3> QED
      BY <3>1, <3>2, <3>3
  <2>5. CASE i # c - 1
    <3>1. End(t[i]) = End(s[i])
      BY <2>5, Zenon
    <3>2. End(s[i]) \in Nat /\ s[j].base \in Nat /\ t[j].base \in Nat
      BY <1>2
    <3>3. End(t[i]) <= t[j].base
      BY <2>2, <2>4, <3>1, <3>2
    <3> QED
      BY <2>3, <3>3
  <2>6. CASE i = c - 1
    <3>1. CASE j = c
      BY <2>3, <2>6, <3>1
    <3>2. CASE j # c
      <4>1. c < j
        BY <2>0, <2>6, <3>2
      <4>2. End(s[c]) <= s[j].base
        BY <2>1, <4>1 DEF InOrder
      <4>3. End(t[i]) <= t[c].base
        BY <2>6
      <4>4. End(t[i]) \in Nat /\ t[c].base \in Nat /\ End(t[c]) \in Nat /\ t[c].base <= End(t[c])
            /\ s[j].base \in Nat /\ t[j].base \in Nat
        BY <1>2
      <4>5. End(t[i]) <= t[j].base
        BY <2>4, <4>2, <4>3, <4>4
      <4> QED
        BY <2>3, <4>5
    <3> QED
      BY <3>1, <3>2
  <2> QED
    BY <2>5, <2>6
<1>4. Below(t, n)
  <2> SUFFICES ASSUME NEW i \in DOMAIN s PROVE End(t[i]) <= n
    BY DEF Below
  <2>1. End(s[i]) <= n /\ End(s[c]) <= n
    BY DEF Below
  <2>2. CASE i = c
    BY <2>1, <2>2
  <2>3. CASE i = c - 1
    <3>1. End(t[i]) <= t[c].base
      BY <2>3
    <3>2. End(t[i]) \in Nat /\ t[c].base \in Nat /\ End(t[c]) \in Nat /\ t[c].base <= End(t[c])
      BY <1>2
    <3> QED
      BY <2>1, <3>1, <3>2
  <2>4. CASE i # c /\ i # c - 1
    BY <2>1, <2>4
  <2> QED
    BY <2>2, <2>3, <2>4
<1> QED
  BY <1>3, <1>4

(* The border between two neighbours moves by size. *)
LEMMA ShiftKeeps ==
    ASSUME NEW n \in Nat, NEW s \in Seq(Node), InOrder(s), Below(s, n),
           NEW c \in DOMAIN s, c # 1, NEW size \in Nat \ {0}, s[c].len > size
    PROVE  /\ D!Shift(s, c, size) \in Seq(Node) /\ DOMAIN D!Shift(s, c, size) = DOMAIN s
           /\ InOrder(D!Shift(s, c, size)) /\ Below(D!Shift(s, c, size), n)
           /\ D!Shift(s, c, size)[c].base = s[c].base + size
<1> DEFINE t == D!Shift(s, c, size)
           p == c - 1
<1>1. DOMAIN s = 1..Len(s) /\ Len(s) \in Nat /\ c \in Nat
  OBVIOUS
<1>2. p \in DOMAIN s /\ p # c /\ p < c
  BY <1>1
<1>3. s[c] \in Node /\ s[p] \in Node
  BY <1>1, <1>2
<1>a. \A x \in Node : \E l \in Nat, b \in Nat, r \in BOOLEAN :
                          x = [len |-> l, base |-> b, reserving |-> r]
  BY SpanIs
<1>4. PICK lc \in Nat, bc \in Nat, rc \in BOOLEAN : s[c] = [len |-> lc, base |-> bc, reserving |-> rc]
  BY <1>3, <1>a, Zenon
<1>5. PICK lp \in Nat, bp \in Nat, rp \in BOOLEAN : s[p] = [len |-> lp, base |-> bp, reserving |-> rp]
  BY <1>3, <1>a, Zenon
<1>6. lc > size
  BY <1>4
<1> DEFINE A == [len |-> lp + size, base |-> bp, reserving |-> rp]
           B == [len |-> lc - size, base |-> bc + size, reserving |-> rc]
           u == [s EXCEPT ![p] = A]
<1>7. t = [u EXCEPT ![c] = B]
  <2>1. [s[p] EXCEPT !.len = @ + size] = A
    BY <1>5
  <2>2. [[s[c] EXCEPT !.base = @ + size] EXCEPT !.len = @ - size] = B
    <3> DEFINE w == [len |-> lc, base |-> bc + size, reserving |-> rc]
    <3>1. [s[c] EXCEPT !.base = @ + size] = w
      BY <1>4
    <3>2. [w EXCEPT !.len = @ - size] = B
      OBVIOUS
    <3> QED
      BY <3>1, <3>2, Zenon
  <2>3. t = [[s EXCEPT ![p] = [s[p] EXCEPT !.len = @ + size]]
                EXCEPT ![c] = [[s[c] EXCEPT !.base = @ + size] EXCEPT !.len = @ - size]]
    BY <1>2 DEF D!Shift
  <2> HIDE DEF A, B
  <2> QED
    BY <2>1, <2>2, <2>3, Zenon
<1> HIDE DEF t, p
<1>8. /\ DOMAIN t = DOMAIN s
      /\ t[p] = A /\ t[c] = B
      /\ \A i \in DOMAIN s : i # c /\ i # p => t[i] = s[i]
  <2> HIDE DEF A, B
  <2> QED
    BY <1>2, <1>7
<1>9. t[p] \in Node /\ t[c] \in Node
  BY <1>6, <1>8 DEF Node
<1>10. t \in Seq(Node)
  <2>1. \A i \in 1..Len(s) : t[i] \in Node
    BY <1>1, <1>8, <1>9
  <2>2. t = [i \in 1..Len(s) |-> t[i]]
    BY <1>1, <1>7
  <2> QED
    BY <1>1, <2>1, <2>2
<1>11. End(t[c]) = End(s[c]) /\ End(t[p]) = bp + lp + size /\ End(s[p]) = bp + lp
       /\ t[c].base = bc + size /\ t[p].base = bp /\ s[c].base = bc /\ s[p].base = bp
  BY <1>4, <1>5, <1>6, <1>8 DEF End
<1>12. s[c] # D!ZeroNode /\ t[c] # D!ZeroNode /\ t[p] # D!ZeroNode
  BY <1>4, <1>6, <1>8 DEF D!ZeroNode
<1>13. End(s[p]) <= s[c].base
  BY <1>2, <1>12, Zenon DEF InOrder
<1>14. End(t[p]) <= t[c].base /\ s[c].base <= t[c].base
  BY <1>11, <1>13
<1>15. t[p].base = s[p].base
  BY <1>11
<1>16. InOrder(t) /\ Below(t, n)
  BY <1>2, <1>8, <1>10, <1>11, <1>12, <1>14, <1>15, BorderMoves DEF p
<1> QED
  BY <1>8, <1>10, <1>11, <1>16 DEF t

(* What allocate_as_offset takes lies in the array, and the spans stay in  *)
(* order.                                                                  *)
LEMMA AllocateKeeps ==
    ASSUME NEW n \in Nat, NEW a, Spans(a, n), NEW size \in Nat \ {0},
           D!AllocateAsOffset(a, size).how = "some"
    PROVE  /\ D!AllocateAsOffset(a, size).offset \in Nat
           /\ D!AllocateAsOffset(a, size).offset + size <= n
           /\ Spans(D!AllocateAsOffset(a, size).a, n)
           /\ \E c \in DOMAIN a.nodes \ {1} :
                D!AllocateAsOffset(a, size) =
                  [how |-> "some", offset |-> a.nodes[c].base,
                   a |-> [current |-> c, nodes |-> D!Shift(a.nodes, c, size)]]
                /\ D!Shift(a.nodes, c, size)[c].base = a.nodes[c].base + size
<1> DEFINE r == D!AllocateAsOffset(a, size)
           c == CHOOSE i \in D!Fit(a, size) : TRUE
           s == a.nodes
<1>1. D!Fit(a, size) # {} /\ ~(c = 1 \/ s[c].len = size)
      /\ r = [how |-> "some", offset |-> s[c].base,
              a |-> [current |-> c, nodes |-> D!Shift(s, c, size)]]
  BY DEF D!AllocateAsOffset, D!Shift
<1>2. s \in Seq(Node) /\ InOrder(s) /\ Below(s, n) /\ a.current \in DOMAIN s
  BY Zenon DEF Spans
<1>3. c \in D!Fit(a, size)
  BY <1>1, Zenon
<1> HIDE DEF c, r
<1>4. c \in DOMAIN s /\ s[c].len >= size
  BY <1>2, <1>3 DEF D!Fit
<1>5. s[c] \in Node
  BY <1>2, <1>4
<1> HIDE DEF s
<1>6. s[c].len \in Nat /\ s[c].base \in Nat /\ End(s[c]) \in Nat
  BY <1>5, SpanIs
<1>7. s[c].len > size
  BY <1>1, <1>4, <1>6
<1>8. /\ D!Shift(s, c, size) \in Seq(Node) /\ DOMAIN D!Shift(s, c, size) = DOMAIN s
      /\ InOrder(D!Shift(s, c, size)) /\ Below(D!Shift(s, c, size), n)
      /\ D!Shift(s, c, size)[c].base = s[c].base + size
  BY <1>1, <1>2, <1>4, <1>7, ShiftKeeps
<1>9. s[c].base + size <= n
  <2>1. End(s[c]) <= n
    BY <1>2, <1>4 DEF Below
  <2>2. End(s[c]) = s[c].base + s[c].len
    BY DEF End
  <2> QED
    BY <1>4, <1>6, <2>1, <2>2
<1>10. r.offset = s[c].base /\ r.a = [current |-> c, nodes |-> D!Shift(s, c, size)]
  BY <1>1
<1>11. Spans(r.a, n)
  BY <1>4, <1>8, <1>10 DEF Spans
<1>12. c \in DOMAIN s \ {1}
  BY <1>1, <1>4
<1> QED
  BY <1>1, <1>6, <1>8, <1>9, <1>10, <1>11, <1>12 DEF r, s

(* A span that is cut off at its end leaves the others in order. *)
LEMMA CutKeeps ==
    ASSUME NEW n \in Nat, NEW s \in Seq(Node), InOrder(s), Below(s, n),
           NEW h \in DOMAIN s, NEW l \in Nat \ {0}, l <= s[h].len
    PROVE  LET t == [s EXCEPT ![h].len = l] IN
           /\ t \in Seq(Node) /\ DOMAIN t = DOMAIN s /\ InOrder(t) /\ Below(t, n)
           /\ t[h].base = s[h].base /\ End(t[h]) = s[h].base + l /\ t[h] # D!ZeroNode
           /\ \A i \in DOMAIN s : i # h => t[i] = s[i]
<1> DEFINE t == [s EXCEPT ![h].len = l]
<1>1. DOMAIN s = 1..Len(s) /\ Len(s) \in Nat /\ h \in Nat
  OBVIOUS
<1>2. s[h] \in Node
  BY <1>1
<1>a. \A x \in Node : \E k \in Nat, b \in Nat, r \in BOOLEAN :
                          x = [len |-> k, base |-> b, reserving |-> r]
  BY SpanIs
<1>3. PICK k \in Nat, b \in Nat, r \in BOOLEAN : s[h] = [len |-> k, base |-> b, reserving |-> r]
  BY <1>2, <1>a, Zenon
<1> DEFINE A == [len |-> l, base |-> b, reserving |-> r]
<1>4. t = [s EXCEPT ![h] = A]
  <2>1. [s[h] EXCEPT !.len = l] = A
    BY <1>3
  <2>2. t = [s EXCEPT ![h] = [s[h] EXCEPT !.len = l]]
    OBVIOUS
  <2> QED
    BY <2>1, <2>2, Zenon
<1> HIDE DEF t
<1>5. DOMAIN t = DOMAIN s /\ t[h] = A /\ \A i \in DOMAIN s : i # h => t[i] = s[i]
  <2> HIDE DEF A
  <2> QED
    BY <1>4
<1>6. t[h] \in Node
  BY <1>5 DEF Node
<1>7. t \in Seq(Node)
  <2>1. \A i \in 1..Len(s) : t[i] \in Node
    BY <1>1, <1>5, <1>6
  <2>2. t = [i \in 1..Len(s) |-> t[i]]
    BY <1>1, <1>4
  <2> QED
    BY <1>1, <2>1, <2>2
<1>8. t[h].base = s[h].base /\ End(t[h]) = s[h].base + l /\ End(t[h]) <= End(s[h])
      /\ s[h].base <= End(t[h])
  BY <1>3, <1>5 DEF End
<1>9. t[h] # D!ZeroNode /\ s[h] # D!ZeroNode
  BY <1>3, <1>5 DEF D!ZeroNode
<1>10. \A i \in DOMAIN s : /\ s[i].base \in Nat /\ End(s[i]) \in Nat
                           /\ t[i].base \in Nat /\ End(t[i]) \in Nat
  <2>1. \A i \in DOMAIN s : s[i] \in Node /\ t[i] \in Node
    BY <1>1, <1>5, <1>7
  <2> QED
    BY <2>1, SpanIs
<1>11. \A i \in DOMAIN s : End(t[i]) <= End(s[i]) /\ t[i].base = s[i].base
                           /\ (t[i] = D!ZeroNode <=> s[i] = D!ZeroNode)
  BY <1>5, <1>8, <1>9, <1>10
<1>12. InOrder(t)
  <2> SUFFICES ASSUME NEW i \in DOMAIN s, NEW j \in DOMAIN s, i < j, t[j] # D!ZeroNode
               PROVE  t[i] # D!ZeroNode /\ End(t[i]) <= t[j].base
    BY <1>5 DEF InOrder
  <2>1. s[i] # D!ZeroNode /\ End(s[i]) <= s[j].base
    BY <1>11 DEF InOrder
  <2> QED
    BY <1>10, <1>11, <2>1
<1>13. Below(t, n)
  <2> SUFFICES ASSUME NEW i \in DOMAIN s PROVE End(t[i]) <= n
    BY <1>5 DEF Below
  <2>1. End(s[i]) <= n
    BY DEF Below
  <2> QED
    BY <1>10, <1>11, <2>1
<1> QED
  BY <1>5, <1>7, <1>8, <1>9, <1>12, <1>13 DEF t

(* What insert_node makes of a list: the nodes in front of the place stay, *)
(* the new one is at its place if the list is that long, and those behind  *)
(* have all moved by one place or not at all.                              *)
Inserted(t, s, node, at) ==
    /\ t \in Seq(Node) /\ Len(t) = Len(s) + 1
    /\ \A i \in DOMAIN s : i < at => t[i] = s[i]
    /\ at \in DOMAIN s => t[at] = node
    /\ at \notin DOMAIN s => t[Len(s) + 1] = D!ZeroNode
    /\ \E d \in {0, 1} : \A i \in DOMAIN t : i > at =>
          (i = Len(s) + 1 /\ t[i] = D!ZeroNode) \/ (i - d \in DOMAIN s /\ i - d >= at /\ t[i] = s[i - d])

(* insert on a vector of nodes: it puts the node at the given place. *)
LEMMA InsertIs ==
    ASSUME NEW s \in Seq(Node), NEW node \in Node, NEW at \in Nat \ {0}
    PROVE  Inserted(D!InsertNode(s, node, at), s, node, at)
<1>0. Len(s) \in Nat /\ DOMAIN s = 1..Len(s) /\ D!ZeroNode \in Node
  BY DEF D!ZeroNode, Node
<1>1. CASE at = Len(s)
  <2> DEFINE t == SubSeq(s, 1, at - 1) \o <<node>> \o SubSeq(s, at, Len(s))
  <2>1. D!InsertNode(s, node, at) = t
    BY <1>1 DEF D!InsertNode, D!InsertAt
  <2>2. /\ t \in Seq(Node) /\ Len(t) = Len(s) + 1
        /\ \A i \in 1..Len(s) : i < at => t[i] = s[i]
        /\ t[at] = node /\ t[at + 1] = s[at]
    <3> DEFINE f == SubSeq(s, 1, at - 1)
               e == SubSeq(s, at, Len(s))
    <3>1. f \in Seq(Node) /\ Len(f) = at - 1 /\ \A i \in 1..(at - 1) : f[i] = s[i]
      BY <1>0, <1>1
    <3>2. e \in Seq(Node) /\ Len(e) = 1 /\ e[1] = s[at]
      BY <1>0, <1>1
    <3> DEFINE g == Append(f, node)
    <3>3. t = g \o e
      <4>1. f \o <<node>> = g
        <5> HIDE DEF f
        <5> QED
          BY <3>1
      <4> HIDE DEF g
      <4> QED
        BY <4>1
    <3> HIDE DEF f, e, t
    <3>4. /\ g \in Seq(Node) /\ Len(g) = at /\ g[at] = node
          /\ \A i \in 1..(at - 1) : g[i] = f[i]
      BY <3>1
    <3> HIDE DEF g
    <3>5. t \in Seq(Node) /\ Len(t) = at + 1 /\ t[at + 1] = e[1]
      <4>1. g \in Seq(Node) /\ e \in Seq(Node) /\ Len(e) = 1 /\ Len(g) \in Nat /\ Len(g) = at
        BY <3>2, <3>4
      <4>2. /\ g \o e \in Seq(Node) /\ Len(g \o e) = Len(g) + Len(e)
            /\ \A i \in 1..(Len(g) + Len(e)) : (g \o e)[i] =
                  IF i <= Len(g) THEN g[i] ELSE e[i - Len(g)]
        BY <4>1, ConcatProperties
      <4>3. at + 1 \in 1..(Len(g) + Len(e)) /\ ~(at + 1 <= Len(g)) /\ at + 1 - Len(g) = 1
        BY <4>1
      <4>4. (g \o e)[at + 1] = e[1]
        BY <4>2, <4>3
      <4> QED
        BY <3>3, <4>1, <4>2, <4>4
    <3>6. \A i \in 1..at : t[i] = g[i]
      BY <3>2, <3>3, <3>4
    <3>7. at \in 1..at /\ \A i \in 1..Len(s) : i < at => i \in 1..at /\ i \in 1..(at - 1)
      BY <1>0, <1>1
    <3> QED
      BY <1>1, <3>1, <3>2, <3>4, <3>5, <3>6, <3>7
  <2> HIDE DEF t
  <2>3. DOMAIN t = 1..(at + 1)
    BY <1>1, <2>2
  <2>4. at \in DOMAIN s /\ at >= at
    BY <1>0, <1>1
  <2>5. \A i \in DOMAIN t : i > at => i = at + 1 /\ i - 1 = at
    BY <2>3
  <2>6. \A i \in DOMAIN t : i > at =>
          (i = Len(s) + 1 /\ t[i] = D!ZeroNode) \/ (i - 1 \in DOMAIN s /\ i - 1 >= at /\ t[i] = s[i - 1])
    BY <2>2, <2>4, <2>5
  <2> QED
    BY <1>0, <2>1, <2>2, <2>4, <2>6 DEF Inserted
<1>2. CASE at # Len(s)
  <2> DEFINE u == [s EXCEPT ![at] = node]
             t == Append(u, D!ZeroNode)
  <2>1. D!InsertNode(s, node, at) = t
    BY <1>2 DEF D!InsertNode
  <2>2. u \in Seq(Node) /\ Len(u) = Len(s)
    <3>1. DOMAIN u = 1..Len(s) /\ u = [i \in 1..Len(s) |-> u[i]]
      BY <1>0
    <3>2. \A i \in 1..Len(s) : u[i] \in Node
      BY <1>0
    <3> HIDE DEF u
    <3> QED
      BY <1>0, <3>1, <3>2
  <2>3. /\ at \in DOMAIN s => u[at] = node
        /\ \A i \in DOMAIN s : i # at => u[i] = s[i]
    OBVIOUS
  <2> HIDE DEF u
  <2>4. /\ t \in Seq(Node) /\ Len(t) = Len(s) + 1
        /\ \A i \in 1..Len(s) : t[i] = u[i]
        /\ t[Len(s) + 1] = D!ZeroNode
    BY <1>0, <2>2
  <2> HIDE DEF t
  <2>5. DOMAIN t = 1..(Len(s) + 1)
    BY <1>0, <2>4
  <2>6. ASSUME NEW i \in DOMAIN t, i > at
        PROVE  (i = Len(s) + 1 /\ t[i] = D!ZeroNode) \/ (i - 0 \in DOMAIN s /\ i - 0 >= at /\ t[i] = s[i - 0])
    <3>1. CASE i = Len(s) + 1
      BY <2>4, <3>1
    <3>2. CASE i # Len(s) + 1
      <4>1. i \in 1..Len(s) /\ i # at /\ i - 0 = i /\ i >= at
        BY <1>0, <2>5, <2>6, <3>2
      <4> QED
        BY <1>0, <2>3, <2>4, <4>1
    <3> QED
      BY <3>1, <3>2
  <2>7. \A i \in DOMAIN s : i < at => i # at
    BY <1>0
  <2> QED
    BY <1>0, <2>1, <2>3, <2>4, <2>6, <2>7 DEF Inserted
<1> QED
  BY <1>1, <1>2

(* Spans stay in order when one is inserted between others. *)
LEMMA InsertKeeps ==
    ASSUME NEW n \in Nat, NEW s \in Seq(Node), NEW node \in Node, NEW at \in Nat \ {0},
           NEW t, Inserted(t, s, node, at), InOrder(s), Below(s, n),
           node # D!ZeroNode, End(node) <= n,
           \A i \in DOMAIN s : i < at => s[i] # D!ZeroNode \/ at \notin DOMAIN s,
           \A i \in DOMAIN s : i < at => End(s[i]) <= node.base \/ at \notin DOMAIN s,
           \A i \in DOMAIN s : i >= at => s[i] = D!ZeroNode \/ End(node) <= s[i].base
    PROVE  InOrder(t) /\ Below(t, n)
<1>0. /\ DOMAIN s = 1..Len(s) /\ Len(s) \in Nat /\ t \in Seq(Node)
      /\ DOMAIN t = 1..(Len(s) + 1)
  BY DEF Inserted
<1>1. End(D!ZeroNode) = 0 /\ D!ZeroNode \in Node
  BY DEF End, D!ZeroNode, Node
<1>2. /\ \A i \in DOMAIN s : s[i].base \in Nat /\ End(s[i]) \in Nat /\ s[i].base <= End(s[i])
      /\ node.base \in Nat /\ End(node) \in Nat /\ node.base <= End(node)
  <2>1. \A i \in DOMAIN s : s[i] \in Node
    BY <1>0
  <2> QED
    BY <2>1, SpanIs
<1>3. PICK d \in {0, 1} : \A i \in DOMAIN t : i > at =>
          (i = Len(s) + 1 /\ t[i] = D!ZeroNode) \/ (i - d \in DOMAIN s /\ i - d >= at /\ t[i] = s[i - d])
  BY DEF Inserted
<1>4. Below(t, n)
  <2> SUFFICES ASSUME NEW i \in DOMAIN t PROVE End(t[i]) <= n
    BY DEF Below
  <2>1. CASE i \in DOMAIN s /\ i < at
    BY <2>1 DEF Inserted, Below
  <2>2. CASE i = at /\ i \in DOMAIN s
    BY <2>2 DEF Inserted
  <2>3. CASE i > at
    <3>1. CASE t[i] = D!ZeroNode
      BY <1>1, <3>1
    <3>2. CASE t[i] # D!ZeroNode
      BY <1>3, <2>3, <3>2 DEF Below
    <3> QED
      BY <3>1, <3>2
  <2>4. CASE i \notin DOMAIN s /\ i <= at
    <3>1. i = Len(s) + 1 /\ at \notin DOMAIN s
      BY <1>0, <2>4
    <3> QED
      BY <1>1, <3>1 DEF Inserted
  <2> QED
    BY <1>0, <2>1, <2>2, <2>3, <2>4
<1>5. InOrder(t)
  <2> SUFFICES ASSUME NEW i \in DOMAIN t, NEW j \in DOMAIN t, i < j, t[j] # D!ZeroNode
               PROVE  t[i] # D!ZeroNode /\ End(t[i]) <= t[j].base
    BY Zenon DEF InOrder
  <2>0. i \in Nat /\ j \in Nat /\ i \in DOMAIN s
    BY <1>0
  <2>1. CASE j < at
    <3>1. j \in DOMAIN s
      <4>1. ASSUME j \notin DOMAIN s PROVE FALSE
        <5>1. j = Len(s) + 1 /\ at \notin DOMAIN s
          BY <1>0, <2>1, <4>1
        <5> QED
          BY <5>1 DEF Inserted
      <4> QED
        BY <4>1
    <3>2. t[i] = s[i] /\ t[j] = s[j]
      BY <2>0, <2>1, <3>1 DEF Inserted
    <3> QED
      BY <2>0, <3>1, <3>2 DEF InOrder
  <2>2. CASE j = at
    <3>1. at \in DOMAIN s
      <4>1. ASSUME at \notin DOMAIN s PROVE FALSE
        <5>1. j = Len(s) + 1
          BY <1>0, <2>2, <4>1
        <5> QED
          BY <4>1, <5>1 DEF Inserted
      <4> QED
        BY <4>1
    <3>2. t[i] = s[i] /\ t[j] = node
      BY <2>0, <2>2, <3>1 DEF Inserted
    <3> QED
      BY <2>0, <2>2, <3>1, <3>2
  <2>3. CASE j > at
    <3>1. j - d \in DOMAIN s /\ j - d >= at /\ t[j] = s[j - d]
      BY <1>3, <2>3
    <3>2. at \in DOMAIN s
      BY <1>0, <3>1
    <3>3. s[j - d] # D!ZeroNode /\ End(node) <= s[j - d].base
      BY <3>1
    <3>4. CASE i < at
      <4>1. t[i] = s[i] /\ s[i] # D!ZeroNode /\ End(s[i]) <= node.base
        BY <2>0, <3>2, <3>4 DEF Inserted
      <4>2. End(s[i]) <= s[j - d].base
        BY <1>2, <2>0, <3>1, <3>3, <4>1
      <4> QED
        BY <3>1, <4>1, <4>2
    <3>5. CASE i = at
      <4>1. t[i] = node
        BY <3>2, <3>5 DEF Inserted
      <4> QED
        BY <3>1, <3>3, <4>1
    <3>6. CASE i > at
      <4>1. i - d \in DOMAIN s /\ t[i] = s[i - d]
        <5>1. i # Len(s) + 1
          BY <1>0
        <5> QED
          BY <1>3, <3>6, <5>1
      <4>2. i - d < j - d /\ i - d \in DOMAIN s
        BY <1>0, <2>0, <3>6, <3>2
      <4>3. s[i - d] # D!ZeroNode /\ End(s[i - d]) <= s[j - d].base
        BY <3>1, <3>3, <4>2 DEF InOrder
      <4> QED
        BY <3>1, <4>1, <4>3
    <3> QED
      BY <1>0, <2>0, <3>4, <3>5, <3>6
  <2> QED
    BY <1>0, <2>0, <2>1, <2>2, <2>3
<1> QED
  BY <1>4, <1>5

(* What free_offset makes of the spans: they stay in order.                *)
LEMMA FreeKeeps ==
    ASSUME NEW n \in Nat, NEW a, Spans(a, n), NEW offset \in Nat, NEW size \in Nat \ {0}
    PROVE  /\ Spans(D!FreeOffset(a, offset, size).a, n)
           /\ D!FreeOffset(a, offset, size).how \in {"none", "assertion", "some"}
<1> DEFINE r == D!FreeOffset(a, offset, size)
           s == a.nodes
           H == D!Holding(a, offset, size)
           h == CHOOSE i \in H : \A j \in H : i <= j
<1>1. s \in Seq(Node) /\ InOrder(s) /\ Below(s, n) /\ a.current \in DOMAIN s
      /\ a = [nodes |-> s, current |-> a.current]
  BY Zenon DEF Spans
<1>2. DOMAIN s = 1..Len(s) /\ Len(s) \in Nat
  BY <1>1
<1>3. CASE H = {}
  BY <1>3 DEF D!FreeOffset
<1>4. ASSUME H # {} PROVE Spans(r.a, n) /\ r.how \in {"none", "assertion", "some"}
  <2>1. H \subseteq DOMAIN s
    BY DEF D!Holding
  <2>2. h \in H
    <3>1. PICK i \in H : \A j \in H : i <= j
      <4>1. H \subseteq Nat
        BY <1>2, <2>1
      <4> HIDE DEF H
      <4> QED
        BY <1>4, <4>1, LeastNumber
    <3> HIDE DEF H
    <3> QED
      BY <3>1, Zenon
  <2> DEFINE node == s[h]
             end == node.base + node.len
             shifted == [a EXCEPT !.nodes = D!Shift(@, h, size)]
             cut == [s EXCEPT ![h].len = offset - node.base]
             free == [len |-> size, base |-> offset, reserving |-> FALSE]
             back == [len |-> end - (offset + size), base |-> offset + size, reserving |-> TRUE]
             split == [a EXCEPT !.nodes =
                         D!InsertNode(D!InsertNode([@ EXCEPT ![h].len = offset - node.base],
                                                   free, h + 1), back, h + 2)]
  <2>3. r = IF node.base = offset
            THEN IF h = 1 \/ s[h - 1].reserving
                 THEN [how |-> "assertion", a |-> a]
                 ELSE [how |-> "some", a |-> shifted]
            ELSE [how |-> "some", a |-> split]
    BY <1>4 DEF D!FreeOffset
  <2> HIDE DEF h, r
  <2>4. h \in DOMAIN s /\ offset >= node.base /\ end > offset + size
    BY <2>2 DEF D!Holding
  <2>5. node \in Node
    BY <1>1, <2>4
  <2> HIDE DEF s
  <2>6. node.base \in Nat /\ node.len \in Nat /\ h \in Nat \ {0} /\ end = End(node)
    BY <1>2, <2>4, <2>5, SpanIs DEF End
  <2>7. CASE node.base = offset /\ (h = 1 \/ s[h - 1].reserving)
    <3>1. r.a = a /\ r.how = "assertion"
      BY <2>3, <2>7
    <3> QED
      BY <3>1
  <2>8. CASE node.base = offset /\ ~(h = 1 \/ s[h - 1].reserving)
    <3>1. r.how = "some" /\ r.a = shifted
      BY <2>3, <2>8
    <3>2. node.len > size
      BY <2>4, <2>6, <2>8
    <3>3. shifted = [nodes |-> D!Shift(s, h, size), current |-> a.current]
      <4>1. a.nodes = s
        BY DEF s
      <4> QED
        BY <1>1, <4>1
    <3> HIDE DEF shifted
    <3>4. /\ D!Shift(s, h, size) \in Seq(Node) /\ DOMAIN D!Shift(s, h, size) = DOMAIN s
          /\ InOrder(D!Shift(s, h, size)) /\ Below(D!Shift(s, h, size), n)
      BY <1>1, <2>4, <2>8, <3>2, ShiftKeeps
    <3>5. Spans(shifted, n)
      BY <1>1, <3>3, <3>4 DEF Spans
    <3> QED
      BY <3>1, <3>5
  <2>9. CASE node.base # offset
    <3> DEFINE one == D!InsertNode(cut, free, h + 1)
               two == D!InsertNode(one, back, h + 2)
    <3>1. r.how = "some" /\ r.a = split
      BY <2>3, <2>9
    <3>2. split = [nodes |-> two, current |-> a.current]
      <4> HIDE DEF node
      <4>1. a.nodes = s
        BY DEF s
      <4> QED
        BY <1>1, <4>1
    <3>3. offset - node.base \in Nat \ {0} /\ offset - node.base <= node.len
          /\ end - (offset + size) \in Nat \ {0} /\ end \in Nat
      BY <2>4, <2>6, <2>9
    <3>4. /\ cut \in Seq(Node) /\ DOMAIN cut = DOMAIN s /\ InOrder(cut) /\ Below(cut, n)
          /\ End(cut[h]) = node.base + (offset - node.base) /\ cut[h] # D!ZeroNode
          /\ \A i \in DOMAIN s : i # h => cut[i] = s[i]
      <4> DEFINE l == offset - node.base
      <4>1. l \in Nat \ {0} /\ l <= s[h].len
        BY <3>3
      <4> HIDE DEF l
      <4>2. LET t == [s EXCEPT ![h].len = l] IN
             /\ t \in Seq(Node) /\ DOMAIN t = DOMAIN s /\ InOrder(t) /\ Below(t, n)
             /\ t[h].base = s[h].base /\ End(t[h]) = s[h].base + l /\ t[h] # D!ZeroNode
             /\ \A i \in DOMAIN s : i # h => t[i] = s[i]
        BY <1>1, <2>4, <4>1, CutKeeps
      <4> QED
        BY <4>2, Zenon DEF l
    <3>5. End(cut[h]) = offset
      BY <2>6, <3>4
    <3> HIDE DEF cut
    <3>6. free \in Node /\ back \in Node /\ free # D!ZeroNode /\ back # D!ZeroNode
          /\ End(free) = offset + size /\ End(back) = end
          /\ free.base = offset /\ back.base = offset + size
      <4>1. free \in Node /\ free # D!ZeroNode /\ End(free) = offset + size /\ free.base = offset
        BY DEF Node, D!ZeroNode, End
      <4> DEFINE l == end - (offset + size)
                 b == offset + size
      <4>2. l \in Nat \ {0} /\ b \in Nat /\ l + b = end
        BY <3>3
      <4>3. back = [len |-> l, base |-> b, reserving |-> TRUE]
        OBVIOUS
      <4> HIDE DEF l, b, back, end
      <4>4. back \in Node /\ back # D!ZeroNode /\ End(back) = end /\ back.base = b
        BY <4>2, <4>3 DEF Node, D!ZeroNode, End
      <4> QED
        BY <4>1, <4>4 DEF b
    <3> HIDE DEF free, back, end
    <3>7. h + 1 \in Nat \ {0} /\ h + 2 \in Nat \ {0}
      BY <2>6
    <3>8. Inserted(one, cut, free, h + 1)
      BY <3>4, <3>6, <3>7, InsertIs
    <3>9. one \in Seq(Node)
      BY <3>8, Zenon DEF Inserted
    <3>10. Inserted(two, one, back, h + 2)
      BY <3>6, <3>7, <3>9, InsertIs
    <3> HIDE DEF one, two, node
    <3>11. DOMAIN cut = 1..Len(s) /\ Len(cut) = Len(s)
      BY <1>2, <3>4
    <3>12. DOMAIN one = 1..(Len(s) + 1) /\ DOMAIN two = 1..(Len(s) + 2)
      <4>1. Len(one) = Len(s) + 1 /\ Len(two) = Len(one) + 1 /\ two \in Seq(Node)
        BY <3>8, <3>10, <3>11, Zenon DEF Inserted
      <4> QED
        BY <1>2, <3>9, <4>1
    <3>a. \A i \in DOMAIN s : s[i].base \in Nat /\ End(s[i]) \in Nat /\ s[i].base <= End(s[i])
      <4>1. \A i \in DOMAIN s : s[i] \in Node
        BY <1>1
      <4> QED
        BY <4>1, SpanIs
    <3>13. \A i \in DOMAIN cut : i < h + 1 => cut[i] # D!ZeroNode /\ End(cut[i]) <= offset
      <4> SUFFICES ASSUME NEW i \in DOMAIN cut, i < h + 1
                   PROVE  cut[i] # D!ZeroNode /\ End(cut[i]) <= offset
        OBVIOUS
      <4>1. CASE i = h
        BY <3>4, <3>5, <4>1
      <4>2. CASE i # h
        <5>1. i < h
          BY <2>6, <3>11, <4>2
        <5>2. cut[i] # D!ZeroNode /\ End(cut[i]) <= cut[h].base
          BY <2>4, <3>4, <5>1 DEF InOrder
        <5>3. cut[h] \in Node /\ cut[i] \in Node
          BY <2>4, <3>4
        <5>4. End(cut[i]) \in Nat /\ cut[h].base \in Nat /\ cut[h].base <= End(cut[h])
          BY <5>3, SpanIs
        <5> QED
          BY <3>5, <5>2, <5>4
      <4> QED
        BY <4>1, <4>2
    <3>14. \A i \in DOMAIN cut : i >= h + 1 => cut[i] = D!ZeroNode \/ end <= cut[i].base
      <4> SUFFICES ASSUME NEW i \in DOMAIN cut, i >= h + 1, cut[i] # D!ZeroNode
                   PROVE  end <= cut[i].base
        OBVIOUS
      <4>1. i # h /\ h < i
        BY <2>6, <3>11
      <4>2. cut[i] = s[i]
        BY <3>4, <4>1
      <4>3. End(s[h]) <= s[i].base
        BY <1>1, <2>4, <3>4, <4>1, <4>2 DEF InOrder
      <4> QED
        BY <2>6, <4>2, <4>3 DEF node
    <3>15. offset + size <= n /\ end <= n
      <4>1. End(s[h]) <= n
        BY <1>1, <2>4 DEF Below
      <4>2. end <= n
        BY <2>6, <4>1 DEF node
      <4> QED
        BY <2>4, <3>3, <4>2
    <3>16. InOrder(one) /\ Below(one, n)
      <4>1. \A i \in DOMAIN cut : i >= h + 1 => cut[i] = D!ZeroNode \/ End(free) <= cut[i].base
        <5> SUFFICES ASSUME NEW i \in DOMAIN cut, i >= h + 1, cut[i] # D!ZeroNode
                     PROVE  End(free) <= cut[i].base
          OBVIOUS
        <5>1. end <= cut[i].base
          BY <3>14
        <5>2. cut[i] \in Node
          BY <3>4
        <5>3. cut[i].base \in Nat
          BY <5>2, SpanIs
        <5> QED
          BY <2>4, <3>3, <3>6, <5>1, <5>3
      <4>2. \A i \in DOMAIN cut : i < h + 1 => cut[i] # D!ZeroNode \/ h + 1 \notin DOMAIN cut
        BY <3>13
      <4>3. \A i \in DOMAIN cut : i < h + 1 => End(cut[i]) <= free.base \/ h + 1 \notin DOMAIN cut
        BY <3>6, <3>13
      <4>4. End(free) <= n
        BY <3>6, <3>15
      <4> QED
        BY <3>4, <3>6, <3>7, <3>8, <4>1, <4>2, <4>3, <4>4, InsertKeeps
    <3>17. \A i \in DOMAIN one : i < h + 2 => one[i] # D!ZeroNode \/ h + 2 \notin DOMAIN one
      <4> SUFFICES ASSUME NEW i \in DOMAIN one, i < h + 2, h + 2 \in DOMAIN one
                   PROVE  one[i] # D!ZeroNode
        OBVIOUS
      <4>1. h + 1 \in DOMAIN cut
        BY <2>6, <3>11, <3>12
      <4>2. CASE i = h + 1
        BY <3>6, <3>8, <4>1, <4>2 DEF Inserted
      <4>3. CASE i # h + 1
        <5>1. i \in DOMAIN cut /\ i < h + 1
          BY <2>6, <3>11, <3>12, <4>1, <4>3
        <5> QED
          BY <3>8, <3>13, <5>1 DEF Inserted
      <4> QED
        BY <4>2, <4>3
    <3>18. \A i \in DOMAIN one : i < h + 2 => End(one[i]) <= back.base \/ h + 2 \notin DOMAIN one
      <4> SUFFICES ASSUME NEW i \in DOMAIN one, i < h + 2, h + 2 \in DOMAIN one
                   PROVE  End(one[i]) <= offset + size
        BY <3>6
      <4>1. h + 1 \in DOMAIN cut
        BY <2>6, <3>11, <3>12
      <4>2. CASE i = h + 1
        BY <3>6, <3>8, <4>1, <4>2 DEF Inserted
      <4>3. CASE i # h + 1
        <5>1. i \in DOMAIN cut /\ i < h + 1
          BY <2>6, <3>11, <3>12, <4>1, <4>3
        <5>2. one[i] = cut[i] /\ End(cut[i]) <= offset
          BY <3>8, <3>13, <5>1 DEF Inserted
        <5>3. cut[i] \in Node
          BY <3>4, <5>1
        <5>4. End(cut[i]) \in Nat
          BY <5>3, SpanIs
        <5> QED
          BY <5>2, <5>4
      <4> QED
        BY <4>2, <4>3
    <3>19. \A i \in DOMAIN one : i >= h + 2 => one[i] = D!ZeroNode \/ End(back) <= one[i].base
      <4> SUFFICES ASSUME NEW i \in DOMAIN one, i >= h + 2, one[i] # D!ZeroNode
                   PROVE  end <= one[i].base
        BY <3>6
      <4>1. PICK d \in {0, 1} : \A k \in DOMAIN one : k > h + 1 =>
              (k = Len(cut) + 1 /\ one[k] = D!ZeroNode)
              \/ (k - d \in DOMAIN cut /\ k - d >= h + 1 /\ one[k] = cut[k - d])
        BY <3>8 DEF Inserted
      <4>2. i > h + 1
        BY <2>6, <3>12
      <4>3. i - d \in DOMAIN cut /\ i - d >= h + 1 /\ one[i] = cut[i - d]
        BY <4>1, <4>2
      <4> QED
        BY <3>14, <4>3
    <3>20. InOrder(two) /\ Below(two, n)
      BY <3>6, <3>7, <3>9, <3>10, <3>15, <3>16, <3>17, <3>18, <3>19, InsertKeeps
    <3>21. two \in Seq(Node) /\ a.current \in DOMAIN two
      <4>1. DOMAIN s \subseteq DOMAIN two
        BY <1>2, <3>12
      <4> QED
        BY <1>1, <3>10, <4>1 DEF Inserted
    <3> HIDE DEF split
    <3>22. Spans(split, n)
      BY <3>2, <3>20, <3>21 DEF Spans
    <3> QED
      BY <3>1, <3>22
  <2> QED
    BY <2>7, <2>8, <2>9
<1> QED
  BY <1>3, <1>4

-----------------------------------------------------------------------------
(* The buckets of a map, and what is in them.                              *)
BucketsOf(m) == (maps[m].offset + 1)..(maps[m].offset + maps[m].count)
EntryOf(b, j) == entries[buckets[b].start + j - 1]
NameOf(b, j) == D!AsString(EntryOf(b, j).string)
PairOf(b, j) == <<NameOf(b, j), EntryOf(b, j).link>>
Entered(m) == {inserted[m][i] : i \in DOMAIN inserted[m]}

(* The entry refers to a string that is stored. *)
Known(b, j) == \E k \in 1..3 : \E x \in 1..Len(strings[k]) : EntryOf(b, j).string = <<k, x>>

(* The buckets of a map hold the names that were entered, each in the      *)
(* bucket of its hash and once.                                            *)
Contents(m) ==
    /\ \A b \in BucketsOf(m) : \A j \in 1..buckets[b].used :
         Known(b, j) /\ D!BucketOf(maps[m], NameOf(b, j)) = b /\ PairOf(b, j) \in Entered(m)
    /\ \A b \in BucketsOf(m) : \A j, k \in 1..buckets[b].used :
         NameOf(b, j) = NameOf(b, k) => j = k
    /\ \A p \in Entered(m) : \E b \in BucketsOf(m) :
         b = D!BucketOf(maps[m], p[1]) /\ \E j \in 1..buckets[b].used : PairOf(b, j) = p

(* A step leaves the first n entries of a bucket, wherever they lie.       *)
Stays(b, n) ==
    \A j \in 1..n : entries'[buckets'[b].start + j - 1] = entries[buckets[b].start + j - 1]

(* A step stores strings and removes none. *)
StringsStay ==
    \A k \in 1..3 : /\ Len(strings[k]) \in Nat /\ Len(strings'[k]) \in Nat
                    /\ Len(strings[k]) <= Len(strings'[k])
                    /\ \A x \in 1..Len(strings[k]) : strings'[k][x] = strings[k][x]

(* A step moves no map. *)
MapStays(m) == maps'[m].offset = maps[m].offset /\ maps'[m].count = maps[m].count

(* An entry that stays keeps its name and its link. *)
LEMMA EntryStays ==
    ASSUME NEW b, NEW n, Stays(b, n), StringsStay, NEW j \in 1..n, Known(b, j)
    PROVE  Known(b, j)' /\ NameOf(b, j)' = NameOf(b, j) /\ PairOf(b, j)' = PairOf(b, j)
<1>1. EntryOf(b, j)' = EntryOf(b, j)
  BY DEF Stays, EntryOf
<1>a. PICK k \in 1..3 : \E x \in 1..Len(strings[k]) : EntryOf(b, j).string = <<k, x>>
  BY DEF Known
<1>2. PICK x \in 1..Len(strings[k]) : EntryOf(b, j).string = <<k, x>>
  BY <1>a
<1>3. x \in 1..Len(strings'[k]) /\ x <= Len(strings[k]) /\ x <= Len(strings'[k])
      /\ strings'[k][x] = strings[k][x]
  BY DEF StringsStay
<1>4. Known(b, j)'
  BY <1>1, <1>2, <1>3 DEF Known
<1> DEFINE q == EntryOf(b, j).string
<1>5. q[1] = k /\ q[2] = x
  BY <1>2
<1>6. NameOf(b, j) = strings[k][x]
  <2>1. D!AsString(q) = strings[k][x]
    <3> HIDE DEF q
    <3> QED
      BY <1>3, <1>5 DEF D!AsString
  <2> QED
    BY <2>1 DEF NameOf
<1>7. NameOf(b, j)' = strings'[k][x]
  <2>1. EntryOf(b, j)'.string = q
    BY <1>1
  <2>2. NameOf(b, j)' = IF q[2] <= Len(strings'[q[1]]) THEN strings'[q[1]][q[2]] ELSE <<>>
    BY <2>1 DEF NameOf, D!AsString
  <2> HIDE DEF q
  <2> QED
    BY <1>3, <1>5, <2>2
<1>8. NameOf(b, j)' = NameOf(b, j)
  BY <1>3, <1>6, <1>7
<1>9. PairOf(b, j)' = PairOf(b, j)
  BY <1>1, <1>8 DEF PairOf
<1> QED
  BY <1>4, <1>8, <1>9

(* A map keeps its contents when its buckets keep theirs. *)
LEMMA ContentsStay ==
    ASSUME NEW m, Contents(m), MapStays(m), inserted'[m] = inserted[m], StringsStay,
           \A b \in BucketsOf(m) : buckets'[b].used = buckets[b].used
                                   /\ Stays(b, buckets[b].used)
    PROVE  Contents(m)'
<1>1. BucketsOf(m)' = BucketsOf(m)
  BY DEF BucketsOf, MapStays
<1>2. Entered(m)' = Entered(m)
  BY DEF Entered
<1>3. \A x : D!BucketOf(maps[m], x)' = D!BucketOf(maps[m], x)
  BY DEF D!BucketOf, MapStays
<1>4. \A b \in BucketsOf(m) : \A j \in 1..buckets[b].used :
        Known(b, j)' /\ NameOf(b, j)' = NameOf(b, j) /\ PairOf(b, j)' = PairOf(b, j)
  <2> SUFFICES ASSUME NEW b \in BucketsOf(m), NEW j \in 1..buckets[b].used
               PROVE  Known(b, j)' /\ NameOf(b, j)' = NameOf(b, j) /\ PairOf(b, j)' = PairOf(b, j)
    OBVIOUS
  <2>1. Known(b, j)
    BY DEF Contents
  <2> QED
    BY <2>1, EntryStays
<1>5. \A b \in BucketsOf(m)' : \A j \in 1..buckets'[b].used :
         Known(b, j)' /\ D!BucketOf(maps[m], NameOf(b, j))' = b /\ PairOf(b, j)' \in Entered(m)'
  <2> SUFFICES ASSUME NEW b \in BucketsOf(m), NEW j \in 1..buckets[b].used
               PROVE  Known(b, j)' /\ D!BucketOf(maps'[m], NameOf(b, j)') = b
                      /\ PairOf(b, j)' \in Entered(m)'
    BY <1>1
  <2>1. Known(b, j) /\ D!BucketOf(maps[m], NameOf(b, j)) = b /\ PairOf(b, j) \in Entered(m)
    BY DEF Contents
  <2> QED
    BY <1>2, <1>3, <1>4, <2>1
<1>6. \A b \in BucketsOf(m)' : \A j, k \in 1..buckets'[b].used :
         NameOf(b, j)' = NameOf(b, k)' => j = k
  <2> SUFFICES ASSUME NEW b \in BucketsOf(m), NEW j \in 1..buckets[b].used,
                      NEW k \in 1..buckets[b].used, NameOf(b, j)' = NameOf(b, k)'
               PROVE  j = k
    BY <1>1
  <2> QED
    BY <1>4 DEF Contents
<1>7. \A p \in Entered(m)' : \E b \in BucketsOf(m)' :
         b = D!BucketOf(maps'[m], p[1]) /\ \E j \in 1..buckets'[b].used : PairOf(b, j)' = p
  <2> SUFFICES ASSUME NEW p \in Entered(m)
               PROVE  \E b \in BucketsOf(m) :
                        b = D!BucketOf(maps'[m], p[1])
                        /\ \E j \in 1..buckets[b].used : PairOf(b, j)' = p
    BY <1>1, <1>2
  <2>1. PICK b \in BucketsOf(m) :
          b = D!BucketOf(maps[m], p[1]) /\ \E j \in 1..buckets[b].used : PairOf(b, j) = p
    BY DEF Contents
  <2> QED
    BY <1>3, <1>4, <2>1
<1> QED
  BY <1>5, <1>6, <1>7 DEF Contents

(* A map keeps its contents and gets one more entry, that of a new name.   *)
LEMMA ContentsGrow ==
    ASSUME NEW m, Contents(m), MapStays(m), StringsStay,
           NEW index \in BucketsOf(m), NEW name, NEW link,
           index = D!BucketOf(maps[m], name),
           \A b \in BucketsOf(m) : buckets[b].used \in Nat /\ Stays(b, buckets[b].used),
           \A b \in BucketsOf(m) \ {index} : buckets'[b].used = buckets[b].used,
           NEW u, u = buckets[index].used + 1, buckets'[index].used = u,
           Known(index, u)', PairOf(index, u)' = <<name, link>>,
           \A j \in 1..buckets[index].used : NameOf(index, j) # name,
           Entered(m)' = Entered(m) \cup {<<name, link>>}
    PROVE  Contents(m)'
<1>1. BucketsOf(m)' = BucketsOf(m)
  BY DEF BucketsOf, MapStays
<1>3. \A x : D!BucketOf(maps'[m], x) = D!BucketOf(maps[m], x)
  BY DEF D!BucketOf, MapStays
<1>4. \A b \in BucketsOf(m) : \A j \in 1..buckets[b].used :
        Known(b, j)' /\ NameOf(b, j)' = NameOf(b, j) /\ PairOf(b, j)' = PairOf(b, j)
  <2> SUFFICES ASSUME NEW b \in BucketsOf(m), NEW j \in 1..buckets[b].used
               PROVE  Known(b, j)' /\ NameOf(b, j)' = NameOf(b, j) /\ PairOf(b, j)' = PairOf(b, j)
    OBVIOUS
  <2>1. Known(b, j)
    BY DEF Contents
  <2> QED
    BY <2>1, EntryStays
<1>a. NameOf(index, u)' = name
  <2>1. PairOf(index, u)' = <<NameOf(index, u)', EntryOf(index, u)'.link>>
    BY DEF PairOf
  <2> QED
    BY <2>1
<1>b. \A b \in BucketsOf(m) : \A j \in 1..buckets'[b].used :
         j \in 1..buckets[b].used \/ (b = index /\ j = u)
  <2> SUFFICES ASSUME NEW b \in BucketsOf(m), NEW j \in 1..buckets'[b].used
               PROVE  j \in 1..buckets[b].used \/ (b = index /\ j = u)
    OBVIOUS
  <2>1. CASE b = index
    <3>1. buckets[index].used \in Nat
      OBVIOUS
    <3> QED
      BY <2>1, <3>1
  <2>2. CASE b # index
    BY <2>2
  <2> QED
    BY <2>1, <2>2
<1>c. \A b \in BucketsOf(m) : \A j \in 1..buckets[b].used : j \in 1..buckets'[b].used
  <2> SUFFICES ASSUME NEW b \in BucketsOf(m), NEW j \in 1..buckets[b].used
               PROVE  j \in 1..buckets'[b].used
    OBVIOUS
  <2>1. CASE b = index
    <3>1. buckets[index].used \in Nat
      OBVIOUS
    <3> QED
      BY <2>1, <3>1
  <2>2. CASE b # index
    BY <2>2
  <2> QED
    BY <2>1, <2>2
<1>d. u \in 1..buckets'[index].used
  <2>1. buckets[index].used \in Nat
    OBVIOUS
  <2> QED
    BY <2>1
<1>e. Known(index, u)' /\ PairOf(index, u)' = <<name, link>>
  OBVIOUS
<1>5. \A b \in BucketsOf(m)' : \A j \in 1..buckets'[b].used :
         Known(b, j)' /\ D!BucketOf(maps'[m], NameOf(b, j)') = b /\ PairOf(b, j)' \in Entered(m)'
  <2> SUFFICES ASSUME NEW b \in BucketsOf(m), NEW j \in 1..buckets'[b].used
               PROVE  Known(b, j)' /\ D!BucketOf(maps'[m], NameOf(b, j)') = b
                      /\ PairOf(b, j)' \in Entered(m)'
    BY <1>1
  <2>1. CASE j \in 1..buckets[b].used
    <3>1. D!BucketOf(maps[m], NameOf(b, j)) = b /\ PairOf(b, j) \in Entered(m)
      BY <2>1 DEF Contents
    <3> QED
      BY <1>3, <1>4, <2>1, <3>1
  <2>2. CASE b = index /\ j = u
    BY <1>3, <1>a, <1>e, <2>2
  <2> QED
    BY <1>b, <2>1, <2>2
<1>6. \A b \in BucketsOf(m)' : \A j, k \in 1..buckets'[b].used :
         NameOf(b, j)' = NameOf(b, k)' => j = k
  <2> SUFFICES ASSUME NEW b \in BucketsOf(m), NEW j \in 1..buckets'[b].used,
                      NEW k \in 1..buckets'[b].used, NameOf(b, j)' = NameOf(b, k)'
               PROVE  j = k
    BY <1>1
  <2>1. CASE j \in 1..buckets[b].used /\ k \in 1..buckets[b].used
    BY <1>4, <2>1 DEF Contents
  <2>2. CASE j \in 1..buckets[b].used /\ b = index /\ k = u
    BY <1>4, <1>a, <2>2
  <2>3. CASE k \in 1..buckets[b].used /\ b = index /\ j = u
    BY <1>4, <1>a, <2>3
  <2> QED
    BY <1>b, <2>1, <2>2, <2>3
<1>7. \A p \in Entered(m)' : \E b \in BucketsOf(m)' :
         b = D!BucketOf(maps'[m], p[1]) /\ \E j \in 1..buckets'[b].used : PairOf(b, j)' = p
  <2> SUFFICES ASSUME NEW p \in Entered(m)'
               PROVE  \E b \in BucketsOf(m) :
                        b = D!BucketOf(maps'[m], p[1])
                        /\ \E j \in 1..buckets'[b].used : PairOf(b, j)' = p
    BY <1>1
  <2>1. CASE p \in Entered(m)
    <3>1. PICK b \in BucketsOf(m) :
            b = D!BucketOf(maps[m], p[1]) /\ \E j \in 1..buckets[b].used : PairOf(b, j) = p
      BY <2>1 DEF Contents
    <3> QED
      BY <1>3, <1>4, <1>c, <3>1
  <2>2. CASE p = <<name, link>>
    <3>1. p[1] = name
      BY <2>2
    <3> QED
      BY <1>3, <1>d, <1>e, <2>2, <3>1
  <2> QED
    BY <2>1, <2>2
<1> QED
  BY <1>5, <1>6, <1>7 DEF Contents

-----------------------------------------------------------------------------
(* Where the maps, the buckets and the entries lie.                        *)
Map == [offset : Nat, count : Nat \ {0}, capacity : Int]
Bucket == [start : Nat, len : Nat, used : Nat]

MapsPlaced ==
    /\ Spans(bucketNodes, NBuckets) /\ Len(bucketNodes.nodes) = 2
    /\ maps \in Seq(Map)
    /\ \A m \in DOMAIN maps : maps[m].offset + maps[m].count <= bucketNodes.nodes[2].base
    /\ \A m, n \in DOMAIN maps : m < n => maps[m].offset + maps[m].count <= maps[n].offset

BucketsPlaced ==
    /\ buckets \in [1..NBuckets -> Bucket]
    /\ \A m \in DOMAIN maps : \A b \in BucketsOf(m) :
         /\ buckets[b].len # 0 /\ buckets[b].used <= buckets[b].len
         /\ buckets[b].start + buckets[b].len <= NEntries

EntriesPlaced ==
    /\ DOMAIN entries = 0..(NEntries - 1)
    /\ entries = [x \in 0..(NEntries - 1) |-> entries[x]]

NamesPlaced ==
    /\ strings \in [1..3 -> Seq(Names)]
    /\ inserted \in Seq(Seq(Names \X Links)) /\ Len(inserted) = Len(maps)

AllContents == \A m \in DOMAIN maps : Contents(m)
Counted == \A m \in DOMAIN maps : maps[m].capacity = D!Slots(m)

DirectoryState ==
    /\ MapsPlaced /\ BucketsPlaced /\ EntriesPlaced /\ Spans(entryNodes, NEntries)
    /\ NamesPlaced /\ AllContents /\ Counted

DirectoryInv == D!Going => DirectoryState

(* The constants. *)
LEMMA DirectoryConstants ==
    /\ NBuckets \in Nat /\ NEntries \in Nat /\ Start \in Nat \ {0}
    /\ MapSizes \subseteq Nat \ {0} /\ Names \subseteq Seq(Nat)
  BY MemoryAssumption DEF D!DirectoryAssumption

(* The buckets of the maps lie in the array, those of different maps apart. *)
LEMMA BucketsApart ==
    ASSUME MapsPlaced
    PROVE  /\ \A m \in DOMAIN maps : /\ maps[m].offset \in Nat /\ maps[m].count \in Nat \ {0}
                                     /\ maps[m].capacity \in Int
                                     /\ \A b \in BucketsOf(m) : b <= bucketNodes.nodes[2].base
                                     /\ BucketsOf(m) \subseteq 1..NBuckets
           /\ \A m, n \in DOMAIN maps : m # n => BucketsOf(m) \cap BucketsOf(n) = {}
           /\ bucketNodes.nodes[2].base \in Nat /\ bucketNodes.nodes[2].base <= NBuckets
           /\ bucketNodes.nodes[2] \in Node /\ DOMAIN bucketNodes.nodes = {1, 2}
<1>1. /\ bucketNodes.nodes \in Seq(Node) /\ Len(bucketNodes.nodes) = 2
      /\ Below(bucketNodes.nodes, NBuckets)
  BY Zenon DEF MapsPlaced, Spans
<1>2. DOMAIN bucketNodes.nodes = {1, 2} /\ bucketNodes.nodes[2] \in Node
  BY <1>1
<1>3. /\ bucketNodes.nodes[2].base \in Nat
      /\ bucketNodes.nodes[2].base <= End(bucketNodes.nodes[2])
      /\ End(bucketNodes.nodes[2]) \in Nat
  BY <1>2, SpanIs
<1>4. End(bucketNodes.nodes[2]) <= NBuckets
  BY <1>1, <1>2 DEF Below
<1>5. bucketNodes.nodes[2].base <= NBuckets
  BY <1>3, <1>4, DirectoryConstants
<1> DEFINE top == bucketNodes.nodes[2].base
<1> HIDE DEF top
<1>6. DOMAIN maps \subseteq Nat /\ \A m \in DOMAIN maps : maps[m] \in Map
  BY DEF MapsPlaced
<1>7. \A m \in DOMAIN maps : maps[m].offset \in Nat /\ maps[m].count \in Nat \ {0}
                             /\ maps[m].capacity \in Int
  BY <1>6 DEF Map
<1>8. \A m \in DOMAIN maps : maps[m].offset + maps[m].count <= top
  BY DEF MapsPlaced, top
<1>9. top \in Nat /\ top <= NBuckets
  BY <1>3, <1>5 DEF top
<1>10. \A m \in DOMAIN maps : /\ \A b \in BucketsOf(m) : b <= top
                              /\ BucketsOf(m) \subseteq 1..NBuckets
  BY <1>7, <1>8, <1>9, DirectoryConstants DEF BucketsOf
<1>11. \A m, n \in DOMAIN maps : m < n => BucketsOf(m) \cap BucketsOf(n) = {}
  <2> SUFFICES ASSUME NEW m \in DOMAIN maps, NEW n \in DOMAIN maps, m < n,
                      NEW b \in BucketsOf(m), b \in BucketsOf(n)
               PROVE  FALSE
    OBVIOUS
  <2>1. maps[m].offset + maps[m].count <= maps[n].offset
    BY DEF MapsPlaced
  <2> QED
    BY <1>7, <2>1 DEF BucketsOf
<1>12. \A m, n \in DOMAIN maps : m # n => m < n \/ n < m
  BY <1>6
<1>13. \A m, n \in DOMAIN maps : m # n => BucketsOf(m) \cap BucketsOf(n) = {}
  BY <1>11, <1>12, Zenon
<1> QED
  BY <1>2, <1>7, <1>9, <1>10, <1>13 DEF top

(* A name belongs to a bucket of the map. *)
LEMMA BucketOfIs ==
    ASSUME MapsPlaced, NEW m \in DOMAIN maps, NEW name \in Names
    PROVE  D!BucketOf(maps[m], name) \in BucketsOf(m)
<1>1. maps[m].offset \in Nat /\ maps[m].count \in Nat \ {0}
  BY BucketsApart
<1>2. name \in Seq(Nat)
  BY DirectoryConstants
<1>3. D!HashStr(name, maps[m].count) \in 0..(maps[m].count - 1)
  BY <1>1, <1>2, HashIs
<1> QED
  BY <1>1, <1>3 DEF D!BucketOf, BucketsOf

(* The number of the slots of a map is the sum of the lengths of its buckets. *)
LEMMA SlotsIs == \A m : D!Slots(m) = Sum(maps[m].count, maps[m].offset, buckets)
  BY DEF D!Slots, Sum

(* allocate_hashmap: the new map lies behind the others, its buckets are   *)
(* empty, and what the other maps hold is left alone.                      *)
LEMMA AllocateHashmapKeeps ==
    ASSUME DirectoryState, NEW count \in MapSizes, D!AllocateHashmap(count), D!Going'
    PROVE  DirectoryState'
<1> DEFINE bb == D!AllocateAsOffset(bucketNodes, count)
           ee == D!AllocateAsOffset(entryNodes, count * Start)
           top == bucketNodes.nodes[2].base
<1>a. PICK n : n = Len(maps) + 1
  OBVIOUS
<1> DEFINE new == [offset |-> top, count |-> count, capacity |-> count * Start]
<1>1. /\ MapsPlaced /\ BucketsPlaced /\ EntriesPlaced /\ Spans(entryNodes, NEntries)
      /\ NamesPlaced /\ AllContents /\ Counted
  BY DEF DirectoryState
<1>2. /\ bb.how = "some" /\ ee.how = "some"
      /\ bucketNodes' = bb.a /\ entryNodes' = ee.a
      /\ buckets' = [i \in 1..NBuckets |->
            IF i \in (bb.offset + 1)..(bb.offset + count)
            THEN [start |-> ee.offset + (i - bb.offset - 1) * Start, len |-> Start, used |-> 0]
            ELSE buckets[i]]
      /\ maps' = Append(maps, [offset |-> bb.offset, count |-> count, capacity |-> count * Start])
      /\ inserted' = Append(inserted, <<>>)
      /\ entries' = entries /\ strings' = strings
  <2>1. running' = "yes"
    BY DEF D!Going
  <2> QED
    BY <2>1 DEF D!AllocateHashmap
<1>3. count \in Nat \ {0} /\ NBuckets \in Nat /\ NEntries \in Nat /\ Start \in Nat \ {0}
  BY DirectoryConstants
<1>4. count * Start \in Nat \ {0}
  BY <1>3
<1>5. /\ top \in Nat /\ top <= NBuckets /\ DOMAIN bucketNodes.nodes = {1, 2}
      /\ \A m \in DOMAIN maps : /\ maps[m].offset \in Nat /\ maps[m].count \in Nat \ {0}
                                /\ maps[m].capacity \in Int
                                /\ \A b \in BucketsOf(m) : b <= top
                                /\ BucketsOf(m) \subseteq 1..NBuckets
  BY <1>1, BucketsApart
<1>6. /\ Spans(bb.a, NBuckets) /\ bb.offset = top /\ top + count <= NBuckets
      /\ Len(bb.a.nodes) = 2 /\ bb.a.nodes[2].base = top + count
  <2>1. Spans(bucketNodes, NBuckets)
    BY <1>1 DEF MapsPlaced
  <2>2. /\ bb.offset + count <= NBuckets /\ Spans(bb.a, NBuckets)
        /\ \E c \in DOMAIN bucketNodes.nodes \ {1} :
             /\ bb = [how |-> "some", offset |-> bucketNodes.nodes[c].base,
                      a |-> [current |-> c, nodes |-> D!Shift(bucketNodes.nodes, c, count)]]
             /\ D!Shift(bucketNodes.nodes, c, count)[c].base = bucketNodes.nodes[c].base + count
    BY <1>2, <1>3, <2>1, AllocateKeeps
  <2>3. PICK c \in {2} :
             /\ bb = [how |-> "some", offset |-> bucketNodes.nodes[c].base,
                      a |-> [current |-> c, nodes |-> D!Shift(bucketNodes.nodes, c, count)]]
             /\ D!Shift(bucketNodes.nodes, c, count)[c].base = bucketNodes.nodes[c].base + count
    BY <1>5, <2>2
  <2>4. bb.offset = top /\ bb.a.nodes = D!Shift(bucketNodes.nodes, 2, count)
        /\ bb.a.nodes[2].base = top + count
    BY <2>3
  <2>5. Len(bb.a.nodes) = 2
    <3>1. bb.a.nodes \in Seq(Node)
      BY <2>2 DEF Spans
    <3>2. DOMAIN bb.a.nodes = DOMAIN bucketNodes.nodes
      BY <2>4 DEF D!Shift
    <3>3. DOMAIN bb.a.nodes = 1..Len(bb.a.nodes) /\ Len(bb.a.nodes) \in Nat
      BY <3>1
    <3> DEFINE L == Len(bb.a.nodes)
    <3>4. 1..L = {1, 2} /\ L \in Nat
      BY <1>5, <3>2, <3>3
    <3> HIDE DEF L
    <3>5. 2 \in 1..L /\ 3 \notin 1..L
      BY <3>4
    <3>6. L = 2
      BY <3>4, <3>5
    <3> QED
      BY <3>6 DEF L
  <2> QED
    BY <2>2, <2>4, <2>5
<1>7. /\ Spans(ee.a, NEntries) /\ ee.offset \in Nat /\ ee.offset + count * Start <= NEntries
  BY <1>1, <1>2, <1>3, <1>4, AllocateKeeps
<1> DEFINE eo == ee.offset
           N == count * Start
<1>8. buckets' = [i \in 1..NBuckets |->
            IF i \in (top + 1)..(top + count)
            THEN [start |-> eo + (i - top - 1) * Start, len |-> Start, used |-> 0]
            ELSE buckets[i]]
  BY <1>2, <1>6
<1>9. maps' = Append(maps, new)
  BY <1>2, <1>6
<1>10. eo \in Nat /\ eo + N <= NEntries /\ N \in Nat \ {0}
  BY <1>4, <1>7
<1>11. Spans(bucketNodes', NBuckets) /\ Len(bucketNodes'.nodes) = 2
       /\ bucketNodes'.nodes[2].base = top + count /\ Spans(entryNodes', NEntries)
  BY <1>2, <1>6, <1>7
<1> HIDE DEF bb, ee, eo, top
<1>12. new \in Map
  BY <1>3, <1>4, <1>5 DEF Map
<1> HIDE DEF N
<1>13. /\ maps \in Seq(Map) /\ Len(maps) \in Nat /\ DOMAIN maps = 1..Len(maps)
  BY <1>1 DEF MapsPlaced
<1>14. /\ maps' \in Seq(Map) /\ Len(maps') = n /\ DOMAIN maps' = 1..n /\ maps'[n] = new
       /\ \A m \in DOMAIN maps : maps'[m] = maps[m]
  <2> HIDE DEF new
  <2> QED
    BY <1>a, <1>9, <1>12, <1>13
<1>15. n \in Nat /\ DOMAIN maps' = DOMAIN maps \cup {n} /\ n \notin DOMAIN maps
  BY <1>a, <1>13, <1>14
<1>16. maps'[n].offset = top /\ maps'[n].count = count /\ maps'[n].capacity = count * Start
  BY <1>14
<1>17. /\ \A m \in DOMAIN maps : maps'[m].offset = maps[m].offset /\ maps'[m].count = maps[m].count
                                 /\ maps'[m].capacity = maps[m].capacity
       /\ \A m \in DOMAIN maps : BucketsOf(m)' = BucketsOf(m)
  BY <1>14 DEF BucketsOf
<1>18. BucketsOf(n)' = (top + 1)..(top + count)
  <2>1. BucketsOf(n)' = (maps'[n].offset + 1)..(maps'[n].offset + maps'[n].count)
    BY DEF BucketsOf
  <2> QED
    BY <1>16, <2>1
<1>19. \A m \in DOMAIN maps : \A b \in BucketsOf(m) : buckets'[b] = buckets[b]
  <2> SUFFICES ASSUME NEW m \in DOMAIN maps, NEW b \in BucketsOf(m) PROVE buckets'[b] = buckets[b]
    OBVIOUS
  <2>1. b \in 1..NBuckets /\ b <= top
    BY <1>5 DEF top
  <2>2. b \notin (top + 1)..(top + count)
    BY <1>3, <1>5, <2>1 DEF top
  <2> QED
    BY <1>8, <2>1, <2>2
<1>20. \A b \in (top + 1)..(top + count) :
          b \in 1..NBuckets /\ buckets'[b] = [start |-> eo + (b - top - 1) * Start,
                                            len |-> Start, used |-> 0]
  <2> SUFFICES ASSUME NEW b \in (top + 1)..(top + count)
               PROVE  b \in 1..NBuckets
    BY <1>8
  <2> QED
    BY <1>3, <1>5, <1>6 DEF top
<1>21. \A b \in (top + 1)..(top + count) :
          /\ eo + (b - top - 1) * Start \in Nat
          /\ eo + (b - top - 1) * Start + Start <= NEntries
  <2> SUFFICES ASSUME NEW b \in (top + 1)..(top + count)
               PROVE  /\ eo + (b - top - 1) * Start \in Nat
                      /\ eo + (b - top - 1) * Start + Start <= NEntries
    OBVIOUS
  <2> DEFINE k == b - top - 1
  <2>1. k \in Nat /\ k + 1 <= count
    BY <1>3, <1>5 DEF top
  <2> HIDE DEF k
  <2>2. k * Start \in Nat /\ k * Start + Start = (k + 1) * Start
    BY <1>3, <2>1
  <2>3. (k + 1) * Start <= count * Start
    BY <1>3, <2>1
  <2>4. eo + k * Start \in Nat /\ eo + k * Start + Start <= NEntries
    <3> DEFINE x == k * Start
               y == count * Start
    <3>1. x \in Nat /\ y \in Nat /\ x + Start <= y /\ eo + y <= NEntries
      BY <1>4, <1>10, <2>2, <2>3 DEF N
    <3> HIDE DEF x, y
    <3>2. eo + x \in Nat /\ eo + x + Start <= NEntries
      BY <1>3, <1>10, <3>1
    <3> QED
      BY <3>2 DEF x
  <2> QED
    BY <2>4 DEF k
<1>31. \A b \in (top + 1)..(top + count) : buckets'[b].used = 0 /\ buckets'[b].len = Start
  <2> SUFFICES ASSUME NEW b \in (top + 1)..(top + count)
               PROVE  buckets'[b].used = 0 /\ buckets'[b].len = Start
    OBVIOUS
  <2> DEFINE x == eo + (b - top - 1) * Start
  <2>1. buckets'[b] = [start |-> x, len |-> Start, used |-> 0]
    BY <1>20
  <2> HIDE DEF x
  <2> QED
    BY <2>1
<1>22. MapsPlaced'
  <2>1. \A m \in DOMAIN maps' : maps'[m].offset + maps'[m].count <= top + count
    <3> SUFFICES ASSUME NEW m \in DOMAIN maps'
                 PROVE  maps'[m].offset + maps'[m].count <= top + count
      OBVIOUS
    <3>1. CASE m = n
      BY <1>3, <1>5, <1>16, <3>1 DEF top
    <3>2. CASE m # n
      <4>1. m \in DOMAIN maps /\ maps[m].offset + maps[m].count <= top
        BY <1>1, <1>15, <3>2 DEF MapsPlaced, top
      <4> QED
        BY <1>3, <1>5, <1>17, <4>1 DEF top
    <3> QED
      BY <3>1, <3>2
  <2>2. \A k, m \in DOMAIN maps' : k < m => maps'[k].offset + maps'[k].count <= maps'[m].offset
    <3> SUFFICES ASSUME NEW k \in DOMAIN maps', NEW m \in DOMAIN maps', k < m
                 PROVE  maps'[k].offset + maps'[k].count <= maps'[m].offset
      OBVIOUS
    <3>1. k \in DOMAIN maps
      BY <1>a, <1>13, <1>14
    <3>2. CASE m = n
      <4>1. maps[k].offset + maps[k].count <= top
        BY <1>1, <3>1 DEF MapsPlaced, top
      <4> QED
        BY <1>16, <1>17, <3>1, <3>2, <4>1
    <3>3. CASE m # n
      <4>1. m \in DOMAIN maps
        BY <1>15, <3>3
      <4>2. maps[k].offset + maps[k].count <= maps[m].offset
        BY <1>1, <3>1, <4>1 DEF MapsPlaced
      <4> QED
        BY <1>17, <3>1, <4>1, <4>2
    <3> QED
      BY <3>2, <3>3
  <2> QED
    BY <1>11, <1>14, <2>1, <2>2 DEF MapsPlaced
<1>23. BucketsPlaced'
  <2>1. buckets' \in [1..NBuckets -> Bucket]
    <3>1. \A b \in 1..NBuckets : buckets[b] \in Bucket
      BY <1>1 DEF BucketsPlaced
    <3>2. \A b \in (top + 1)..(top + count) :
            [start |-> eo + (b - top - 1) * Start, len |-> Start, used |-> 0] \in Bucket
      <4> SUFFICES ASSUME NEW b \in (top + 1)..(top + count)
                   PROVE  [start |-> eo + (b - top - 1) * Start, len |-> Start, used |-> 0] \in Bucket
        OBVIOUS
      <4> DEFINE x == eo + (b - top - 1) * Start
      <4>1. x \in Nat
        BY <1>21
      <4> HIDE DEF x
      <4>2. [start |-> x, len |-> Start, used |-> 0] \in Bucket
        BY <1>3, <4>1 DEF Bucket
      <4> QED
        BY <4>2 DEF x
    <3>3. \A b \in 1..NBuckets : buckets'[b] \in Bucket
      <4> SUFFICES ASSUME NEW b \in 1..NBuckets PROVE buckets'[b] \in Bucket
        OBVIOUS
      <4>1. CASE b \in (top + 1)..(top + count)
        BY <1>20, <3>2, <4>1
      <4>2. CASE b \notin (top + 1)..(top + count)
        <5>1. buckets'[b] = buckets[b]
          BY <1>8, <4>2
        <5> QED
          BY <3>1, <5>1
      <4> QED
        BY <4>1, <4>2
    <3>4. DOMAIN buckets' = 1..NBuckets /\ buckets' = [b \in 1..NBuckets |-> buckets'[b]]
      <4> HIDE DEF new
      <4> QED
        BY <1>8
    <3> QED
      BY <3>3, <3>4
  <2>2. ASSUME NEW m \in DOMAIN maps', NEW b \in BucketsOf(m)'
        PROVE  /\ buckets'[b].len # 0 /\ buckets'[b].used <= buckets'[b].len
               /\ buckets'[b].start + buckets'[b].len <= NEntries
    <3>1. CASE m = n
      <4>1. b \in (top + 1)..(top + count)
        BY <1>18, <2>2, <3>1
      <4> DEFINE x == eo + (b - top - 1) * Start
      <4>2. buckets'[b] = [start |-> x, len |-> Start, used |-> 0] /\ x + Start <= NEntries
        BY <1>20, <1>21, <4>1
      <4> HIDE DEF x
      <4> QED
        BY <1>3, <4>2
    <3>2. CASE m # n
      <4>1. m \in DOMAIN maps
        BY <1>15, <3>2
      <4>2. b \in BucketsOf(m)
        BY <1>17, <2>2, <4>1
      <4>3. buckets'[b] = buckets[b]
        BY <1>19, <4>1, <4>2
      <4>4. buckets[b].len # 0 /\ buckets[b].used <= buckets[b].len
            /\ buckets[b].start + buckets[b].len <= NEntries
        BY <1>1, <4>1, <4>2 DEF BucketsPlaced
      <4> QED
        BY <4>3, <4>4
    <3> QED
      BY <3>1, <3>2
  <2> QED
    BY <2>1, <2>2 DEF BucketsPlaced
<1>24. EntriesPlaced'
  BY <1>1, <1>2 DEF EntriesPlaced
<1>25. inserted \in Seq(Seq(Names \X Links)) /\ Len(inserted) = Len(maps)
  BY <1>1 DEF NamesPlaced
<1>26. /\ inserted' \in Seq(Seq(Names \X Links)) /\ Len(inserted') = n /\ inserted'[n] = <<>>
       /\ \A m \in DOMAIN maps : inserted'[m] = inserted[m]
  <2>1. <<>> \in Seq(Names \X Links)
    OBVIOUS
  <2> DEFINE empty == <<>>
  <2>2. inserted' = Append(inserted, empty) /\ empty \in Seq(Names \X Links)
    BY <1>2, <2>1
  <2> HIDE DEF empty
  <2>3. /\ inserted' \in Seq(Seq(Names \X Links)) /\ Len(inserted') = n /\ inserted'[n] = empty
        /\ \A m \in DOMAIN maps : inserted'[m] = inserted[m]
    BY <1>a, <1>13, <1>25, <2>2
  <2> QED
    BY <2>3 DEF empty
<1>27. NamesPlaced'
  BY <1>1, <1>2, <1>14, <1>26 DEF NamesPlaced
<1>28. StringsStay
  <2>1. \A k \in 1..3 : Len(strings[k]) \in Nat
    BY <1>1 DEF NamesPlaced
  <2> QED
    BY <1>2, <2>1 DEF StringsStay
<1>29. AllContents'
  <2>1. ASSUME NEW m \in DOMAIN maps PROVE Contents(m)'
    <3>1. \A b \in BucketsOf(m) : buckets'[b].used = buckets[b].used
                                  /\ Stays(b, buckets[b].used)
      BY <1>2, <1>19 DEF Stays
    <3>2. MapStays(m) /\ inserted'[m] = inserted[m] /\ Contents(m)
      BY <1>1, <1>17, <1>26 DEF MapStays, AllContents
    <3> QED
      BY <1>28, <3>1, <3>2, ContentsStay
  <2>2. Contents(n)'
    <3>1. \A b \in BucketsOf(n)' : buckets'[b].used = 0
      BY <1>18, <1>31
    <3>2. Entered(n)' = {}
      <4>1. DOMAIN inserted'[n] = {}
        BY <1>26
      <4> QED
        BY <4>1 DEF Entered
    <3>3. \A j : j \notin 1..0
      OBVIOUS
    <3> QED
      BY <3>1, <3>2, <3>3 DEF Contents
  <2> QED
    BY <1>15, <2>1, <2>2 DEF AllContents
<1>30. Counted'
  <2>1. ASSUME NEW m \in DOMAIN maps PROVE maps'[m].capacity = D!Slots(m)'
    <3>1. D!Slots(m)' = Sum(maps'[m].count, maps'[m].offset, buckets')
      BY DEF D!Slots, Sum
    <3>2. maps[m].capacity = D!Slots(m)
      BY <1>1 DEF Counted
    <3> DEFINE N1 == maps[m].count
               first == maps[m].offset
    <3>3. \A k \in 1..N1 : first + k \in BucketsOf(m)
      BY <1>5 DEF BucketsOf
    <3>4. \A k \in 1..N1 : /\ buckets[first + k].len \in Int
                            /\ buckets'[first + k].len = buckets[first + k].len
      <4> SUFFICES ASSUME NEW k \in 1..N1
                   PROVE  buckets[first + k].len \in Int
                          /\ buckets'[first + k].len = buckets[first + k].len
        OBVIOUS
      <4> DEFINE b == first + k
      <4>1. b \in BucketsOf(m)
        BY <3>3
      <4>2. b \in 1..NBuckets
        BY <1>5, <4>1
      <4>3. buckets[b] \in Bucket
        BY <1>1, <4>2 DEF BucketsPlaced
      <4> QED
        BY <1>19, <4>1, <4>3 DEF Bucket
    <3>5. N1 \in Nat /\ first \in Nat
      BY <1>5
    <3> HIDE DEF N1, first
    <3>6. Sum(N1, first, buckets') = Sum(N1, first, buckets)
      <4>1. Lengths(N1, first, buckets) /\ SameLengths(N1, first, buckets, buckets')
        BY <3>4 DEF Lengths, SameLengths
      <4> QED
        BY <3>5, <4>1, SumEqual
    <3> QED
      BY <1>17, <3>1, <3>2, <3>6, SlotsIs DEF N1, first
  <2>2. maps'[n].capacity = D!Slots(n)'
    <3>1. D!Slots(n)' = Sum(count, top, buckets')
      BY <1>16 DEF D!Slots, Sum
    <3>2. \A k \in 1..count : buckets'[top + k].len = Start
      <4> SUFFICES ASSUME NEW k \in 1..count PROVE buckets'[top + k].len = Start
        OBVIOUS
      <4>1. top + k \in (top + 1)..(top + count)
        BY <1>3, <1>5 DEF top
      <4> QED
        BY <1>31, <4>1
    <3>3. Sum(count, top, buckets') = count * Start
      BY <1>3, <3>2, SumSame
    <3> QED
      BY <1>16, <3>1, <3>3
  <2> QED
    BY <1>15, <2>1, <2>2 DEF Counted
<1> QED
  BY <1>11, <1>22, <1>23, <1>24, <1>27, <1>29, <1>30 DEF DirectoryState

(* A bucket with one more entry used. *)
OneMore(bs, index) == [bs EXCEPT ![index].used = @ + 1]

(* What the end of insert does: nothing, or it stores the name and appends *)
(* an entry that refers to it.                                             *)
Appends(m, name, link, bs, es, index) ==
    /\ \A i \in 1..bs[index].used : D!AsString(es[bs[index].start + i - 1].string) # name
    /\ strings' = [strings EXCEPT ![D!Class(name)] = Append(@, name)]
    /\ entries' = [es EXCEPT ![bs[index].start + bs[index].used] =
                     [string |-> <<D!Class(name), Len(strings[D!Class(name)]) + 1>>,
                      link |-> link]]
    /\ buckets' = OneMore(bs, index)
    /\ inserted' = [inserted EXCEPT ![m] = Append(@, <<name, link>>)]

(* The end of insert: nothing, or what Appends says. *)
LEMMA EnterIs ==
    ASSUME NEW how, NEW nodes, NEW bs, NEW es, NEW m, NEW name, NEW link, NEW index,
           D!Enter(m, name, link,
                   [how |-> how, nodes |-> nodes, buckets |-> bs, entries |-> es], index)
    PROVE  \/ buckets' = bs /\ entries' = es /\ strings' = strings /\ inserted' = inserted
           \/ Appends(m, name, link, bs, es, index)
<1> DEFINE s == [how |-> how, nodes |-> nodes, buckets |-> bs, entries |-> es]
           pos == bs[index].start + bs[index].used
           e == [string |-> <<D!Class(name), Len(strings[D!Class(name)]) + 1>>, link |-> link]
           t == D!AppendTo(s, index, e)
<1>1. s.buckets = bs /\ s.entries = es
  OBVIOUS
<1>2. t = [how |-> how, nodes |-> nodes, buckets |-> OneMore(bs, index),
           entries |-> [es EXCEPT ![pos] = e]]
  <2> DEFINE y == [es EXCEPT ![pos] = e]
             r == [how |-> how, nodes |-> nodes, buckets |-> bs, entries |-> y]
  <2>1. t = [[s EXCEPT !.entries[pos] = e] EXCEPT !.buckets[index].used = @ + 1]
    BY <1>1 DEF D!AppendTo
  <2>2. [s EXCEPT !.entries[pos] = e] = r
    OBVIOUS
  <2> HIDE DEF y
  <2>3. [r EXCEPT !.buckets[index].used = @ + 1]
          = [how |-> how, nodes |-> nodes, buckets |-> OneMore(bs, index), entries |-> y]
    BY DEF OneMore
  <2> HIDE DEF r, s, t
  <2> QED
    BY <2>1, <2>2, <2>3, Zenon DEF y
<1>3. t.entries = [es EXCEPT ![pos] = e] /\ t.buckets = OneMore(bs, index)
  <2> HIDE DEF t, pos, e
  <2> QED
    BY <1>2
<1>4. CASE D!HasName(s, index, name)
  <2> HIDE DEF t, e
  <2> QED
    BY <1>1, <1>4 DEF D!Enter
<1>5. CASE ~D!HasName(s, index, name)
  <2>1. \A i \in 1..bs[index].used : D!AsString(es[bs[index].start + i - 1].string) # name
    BY <1>1, <1>5 DEF D!HasName
  <2>2. \/ buckets' = bs /\ entries' = es /\ strings' = strings /\ inserted' = inserted
        \/ /\ strings' = [strings EXCEPT ![D!Class(name)] = Append(@, name)]
           /\ \E x \in {t} : entries' = x.entries /\ buckets' = x.buckets
           /\ inserted' = [inserted EXCEPT ![m] = Append(@, <<name, link>>)]
    BY <1>1, <1>5, Zenon DEF D!Enter
  <2> HIDE DEF t, e, s
  <2> QED
    BY <1>3, <2>1, <2>2 DEF Appends, e
<1> QED
  BY <1>4, <1>5

(* The bucket has room, its entries are those it had, wherever it lies now, *)
(* and entries outside of it are untouched.                                *)
Roomy(index, bs, es) ==
    /\ bs \in [1..NBuckets -> Bucket]
    /\ \A b \in 1..NBuckets \ {index} : bs[b] = buckets[b]
    /\ bs[index].used = buckets[index].used /\ bs[index].used < bs[index].len
    /\ bs[index].start + bs[index].len <= NEntries
    /\ DOMAIN es = 0..(NEntries - 1) /\ es = [x \in 0..(NEntries - 1) |-> es[x]]
    /\ \A j \in 1..buckets[index].used : es[bs[index].start + j - 1] = EntryOf(index, j)
    /\ \A x \in 0..(NEntries - 1) : x \notin D!Slice(bs[index]) => es[x] = entries[x]

(* A step adds no map and moves none. *)
MapsStay ==
    /\ DOMAIN maps' = DOMAIN maps /\ Len(maps') = Len(maps)
    /\ \A k \in DOMAIN maps : MapStays(k)

(* Entering into a bucket that has room keeps what the maps hold, if the   *)
(* entries of the bucket are where the others have none.                   *)
LEMMA EnterKeeps ==
    ASSUME MapsPlaced, BucketsPlaced, EntriesPlaced, NamesPlaced, AllContents,
           NEW m \in DOMAIN maps, NEW name \in Names, D!Class(name) # 4, NEW link \in Links,
           NEW index, index = D!BucketOf(maps[m], name),
           NEW how, NEW nodes, NEW bs, NEW es, Roomy(index, bs, es),
           D!Enter(m, name, link,
                   [how |-> how, nodes |-> nodes, buckets |-> bs, entries |-> es], index),
           MapsStay, D!Sound'
    PROVE  /\ BucketsPlaced' /\ EntriesPlaced' /\ NamesPlaced' /\ AllContents'
           /\ \A b \in 1..NBuckets : buckets'[b].len = bs[b].len
<1>0. /\ bs \in [1..NBuckets -> Bucket]
      /\ \A b \in 1..NBuckets \ {index} : bs[b] = buckets[b]
      /\ bs[index].used = buckets[index].used /\ bs[index].used < bs[index].len
      /\ bs[index].start + bs[index].len <= NEntries
      /\ DOMAIN es = 0..(NEntries - 1) /\ es = [x \in 0..(NEntries - 1) |-> es[x]]
      /\ \A j \in 1..buckets[index].used : es[bs[index].start + j - 1] = EntryOf(index, j)
      /\ \A x \in 0..(NEntries - 1) : x \notin D!Slice(bs[index]) => es[x] = entries[x]
  BY Zenon DEF Roomy
<1>m. DOMAIN maps' = DOMAIN maps /\ Len(maps') = Len(maps) /\ \A k \in DOMAIN maps : MapStays(k)
  BY DEF MapsStay
<1> USE <1>0, <1>m
<1>1. /\ index \in BucketsOf(m) /\ index \in 1..NBuckets
      /\ \A k \in DOMAIN maps : BucketsOf(k) \subseteq 1..NBuckets
      /\ \A k, l \in DOMAIN maps : k # l => BucketsOf(k) \cap BucketsOf(l) = {}
      /\ \A k \in DOMAIN maps : BucketsOf(k)' = BucketsOf(k)
  <2>1. index \in BucketsOf(m)
    BY BucketOfIs
  <2>2. \A k \in DOMAIN maps : BucketsOf(k)' = BucketsOf(k)
    BY DEF BucketsOf, MapStays
  <2> QED
    BY <2>1, <2>2, BucketsApart
<1>2. NEntries \in Nat /\ NBuckets \in Nat
  BY DirectoryConstants
<1>3. \/ buckets' = bs /\ entries' = es /\ strings' = strings /\ inserted' = inserted
      \/ Appends(m, name, link, bs, es, index)
  BY EnterIs
<1>4. \A b \in 1..NBuckets : /\ bs[b].start \in Nat /\ bs[b].len \in Nat /\ bs[b].used \in Nat
                             /\ bs[b] = [start |-> bs[b].start, len |-> bs[b].len, used |-> bs[b].used]
  <2>1. \A b \in 1..NBuckets : bs[b] \in Bucket
    OBVIOUS
  <2> QED
    BY <2>1 DEF Bucket
<1> DEFINE more == OneMore(bs, index)
<1>5. /\ DOMAIN more = 1..NBuckets
      /\ more = [b \in 1..NBuckets |-> more[b]]
      /\ more[index] = [start |-> bs[index].start, len |-> bs[index].len, used |-> bs[index].used + 1]
      /\ \A b \in 1..NBuckets : b # index => more[b] = bs[b]
  <2>1. [bs[index] EXCEPT !.used = @ + 1]
          = [start |-> bs[index].start, len |-> bs[index].len, used |-> bs[index].used + 1]
    BY <1>1, <1>4
  <2>2. more = [bs EXCEPT ![index] = [bs[index] EXCEPT !.used = @ + 1]]
    BY DEF OneMore
  <2>3. DOMAIN bs = 1..NBuckets
    OBVIOUS
  <2> DEFINE new == [bs[index] EXCEPT !.used = @ + 1]
  <2> HIDE DEF new
  <2>4. /\ DOMAIN more = 1..NBuckets
        /\ more = [b \in 1..NBuckets |-> more[b]]
        /\ more[index] = new
        /\ \A b \in 1..NBuckets : b # index => more[b] = bs[b]
    <3>1. more = [bs EXCEPT ![index] = new]
      BY <2>2 DEF new
    <3> HIDE DEF more
    <3> QED
      BY <1>1, <2>3, <3>1
  <2> QED
    BY <2>1, <2>4 DEF new
<1> HIDE DEF more
<1>6. \A b \in 1..NBuckets : more[b].start = bs[b].start /\ more[b].len = bs[b].len
  BY <1>5
<1>7. buckets' = bs \/ buckets' = more
  BY <1>3 DEF Appends, more
<1>8. \A b \in 1..NBuckets : buckets'[b].start = bs[b].start /\ buckets'[b].len = bs[b].len
                             /\ D!Slice(buckets'[b]) = D!Slice(bs[b])
  BY <1>6, <1>7 DEF D!Slice
<1>9. \A k \in DOMAIN maps : \A b \in BucketsOf(k) : b \in D!Live'
  <2>1. D!Live' = UNION {BucketsOf(k)' : k \in DOMAIN maps'}
    BY DEF D!Live, BucketsOf
  <2> QED
    BY <1>1, <2>1
<1>10. \A k \in DOMAIN maps : \A b \in BucketsOf(k) : b # index =>
          D!Slice(bs[b]) \cap D!Slice(bs[index]) = {}
  <2> SUFFICES ASSUME NEW k \in DOMAIN maps, NEW b \in BucketsOf(k), b # index
               PROVE  D!Slice(bs[b]) \cap D!Slice(bs[index]) = {}
    OBVIOUS
  <2>1. D!Slice(buckets'[b]) \cap D!Slice(buckets'[index]) = {}
    BY <1>1, <1>9 DEF D!Sound
  <2> QED
    BY <1>1, <1>8, <2>1
<1> DEFINE at == bs[index].start + bs[index].used
<1>11. at \in D!Slice(bs[index]) /\ at \in 0..(NEntries - 1)
  BY <1>1, <1>2, <1>4 DEF D!Slice
<1>12. \A x \in 0..(NEntries - 1) : x # at => entries'[x] = es[x]
  BY <1>3 DEF Appends
<1>13. ASSUME NEW k \in DOMAIN maps, NEW b \in BucketsOf(k)
       PROVE  Stays(b, buckets[b].used) /\ buckets[b].used \in Nat
  <2>1. b \in 1..NBuckets
    BY <1>1
  <2>2. bs[b].used = buckets[b].used
    BY <2>1
  <2> SUFFICES ASSUME NEW j \in 1..buckets[b].used
               PROVE  entries'[buckets'[b].start + j - 1] = entries[buckets[b].start + j - 1]
    BY <1>4, <2>1, <2>2 DEF Stays
  <2>3. bs[b].used \in Nat /\ bs[b].len \in Nat /\ bs[b].start \in Nat
    BY <1>4, <2>1
  <2>4. CASE b = index
    <3> DEFINE x == bs[index].start + j - 1
    <3>1. x \in 0..(NEntries - 1) /\ x # at
      <4> DEFINE st == bs[index].start
                 us == bs[index].used
                 ln == bs[index].len
      <4>1. st \in Nat /\ us \in Nat /\ ln \in Nat /\ j \in 1..us /\ us < ln /\ st + ln <= NEntries
        BY <2>2, <2>3, <2>4
      <4> HIDE DEF st, us, ln
      <4>2. st + j - 1 \in 0..(NEntries - 1) /\ st + j - 1 # st + us
        BY <1>2, <4>1
      <4> QED
        BY <4>2 DEF st, us
    <3>2. entries'[x] = es[x]
      BY <1>12, <3>1
    <3>3. es[x] = entries[buckets[b].start + j - 1]
      BY <2>4 DEF EntryOf
    <3>4. buckets'[b].start = bs[index].start
      BY <1>8, <2>1, <2>4
    <3> QED
      BY <3>2, <3>3, <3>4
  <2>5. CASE b # index
    <3>1. bs[b] = buckets[b]
      BY <2>1, <2>5
    <3>2. buckets[b].used <= buckets[b].len /\ buckets[b].start + buckets[b].len <= NEntries
      BY DEF BucketsPlaced
    <3> DEFINE x == bs[b].start + j - 1
    <3>3. x \in 0..(NEntries - 1) /\ x \in D!Slice(bs[b])
      <4> DEFINE st == bs[b].start
                 us == bs[b].used
                 ln == bs[b].len
      <4>1. st \in Nat /\ us \in Nat /\ ln \in Nat /\ j \in 1..us /\ us <= ln /\ st + ln <= NEntries
        BY <2>2, <2>3, <3>1, <3>2
      <4>2. D!Slice(bs[b]) = st..(st + ln - 1)
        BY DEF D!Slice
      <4> HIDE DEF st, us, ln
      <4>3. st + j - 1 \in 0..(NEntries - 1) /\ st + j - 1 \in st..(st + ln - 1)
        BY <1>2, <4>1
      <4> QED
        BY <4>2, <4>3 DEF st
    <3> HIDE DEF x, at
    <3>4. x \notin D!Slice(bs[index])
      BY <1>10, <2>5, <3>3
    <3>5. x # at
      BY <1>11, <3>4
    <3>6. entries'[x] = entries[x]
      BY <1>12, <3>3, <3>4, <3>5
    <3>7. buckets'[b].start = bs[b].start /\ buckets[b].start = bs[b].start
      BY <1>8, <2>1, <3>1
    <3> QED
      BY <3>6, <3>7 DEF x
  <2> QED
    BY <2>4, <2>5
<1>14. BucketsPlaced'
  <2>1. buckets' \in [1..NBuckets -> Bucket]
    <3>1. CASE buckets' = bs
      BY <3>1
    <3>2. CASE buckets' = more
      <4>1. \A b \in 1..NBuckets : more[b] \in Bucket
        <5>1. more[index] \in Bucket
          BY <1>1, <1>4, <1>5 DEF Bucket
        <5>2. \A b \in 1..NBuckets : bs[b] \in Bucket
          OBVIOUS
        <5> QED
          BY <1>5, <5>1, <5>2
      <4> QED
        BY <1>5, <3>2, <4>1
    <3> QED
      BY <1>7, <3>1, <3>2
  <2>2. ASSUME NEW k \in DOMAIN maps, NEW b \in BucketsOf(k)
        PROVE  /\ buckets'[b].len # 0 /\ buckets'[b].used <= buckets'[b].len
               /\ buckets'[b].start + buckets'[b].len <= NEntries
    <3>1. b \in 1..NBuckets
      BY <1>1
    <3>2. buckets'[b].start = bs[b].start /\ buckets'[b].len = bs[b].len
      BY <1>8, <3>1
    <3>3. CASE b = index
      <4>1. buckets'[b].used = bs[b].used \/ buckets'[b].used = bs[b].used + 1
        <5>1. more[index].used = bs[index].used + 1
          BY <1>5
        <5> QED
          BY <1>7, <3>3, <5>1
      <4>2. bs[b].used < bs[b].len /\ bs[b].start + bs[b].len <= NEntries
        BY <3>3
      <4> QED
        BY <1>4, <3>1, <3>2, <4>1, <4>2
    <3>4. CASE b # index
      <4>1. buckets'[b].used = bs[b].used /\ bs[b] = buckets[b]
        BY <1>5, <1>7, <3>1, <3>4
      <4>2. /\ buckets[b].len # 0 /\ buckets[b].used <= buckets[b].len
            /\ buckets[b].start + buckets[b].len <= NEntries
        BY DEF BucketsPlaced
      <4> QED
        BY <3>2, <4>1, <4>2
    <3> QED
      BY <3>3, <3>4
  <2> QED
    BY <1>1, <2>1, <2>2 DEF BucketsPlaced
<1>15. EntriesPlaced'
  <2>1. CASE entries' = es
    BY <2>1 DEF EntriesPlaced
  <2>2. CASE entries' # es
    <3> DEFINE e == [string |-> <<D!Class(name), Len(strings[D!Class(name)]) + 1>>, link |-> link]
    <3>1. entries' = [es EXCEPT ![at] = e]
      BY <1>3, <2>2 DEF Appends
    <3> HIDE DEF e, at
    <3> QED
      BY <3>1 DEF EntriesPlaced
  <2> QED
    BY <2>1, <2>2
<1> DEFINE c == D!Class(name)
<1>16. c \in 1..3
  BY DEF D!Class
<1> HIDE DEF c
<1>17. strings \in [1..3 -> Seq(Names)] /\ inserted \in Seq(Seq(Names \X Links))
       /\ Len(inserted) = Len(maps) /\ DOMAIN inserted = DOMAIN maps
  <2>1. DOMAIN inserted = 1..Len(inserted) /\ DOMAIN maps = 1..Len(maps)
    BY DEF NamesPlaced, MapsPlaced
  <2> QED
    BY <2>1 DEF NamesPlaced
<1>18. strings[c] \in Seq(Names) /\ Len(strings[c]) \in Nat
  BY <1>16, <1>17
<1>19. inserted[m] \in Seq(Names \X Links)
  BY <1>17
<1>20. CASE buckets' = bs /\ entries' = es /\ strings' = strings /\ inserted' = inserted
  <2>1. StringsStay
    <3>1. \A k \in 1..3 : Len(strings[k]) \in Nat
      BY <1>17
    <3> QED
      BY <1>20, <3>1 DEF StringsStay
  <2>2. AllContents'
    <3> SUFFICES ASSUME NEW k \in DOMAIN maps PROVE Contents(k)'
      BY DEF AllContents
    <3>1. \A b \in BucketsOf(k) : buckets'[b].used = buckets[b].used
                                  /\ Stays(b, buckets[b].used)
      <4> SUFFICES ASSUME NEW b \in BucketsOf(k)
                   PROVE  buckets'[b].used = buckets[b].used
        BY <1>13
      <4>1. b \in 1..NBuckets
        BY <1>1
      <4> QED
        BY <1>20, <4>1
    <3>2. Contents(k) /\ MapStays(k) /\ inserted'[k] = inserted[k]
      BY <1>20 DEF AllContents
    <3> QED
      BY <2>1, <3>1, <3>2, ContentsStay
  <2>3. NamesPlaced'
    BY <1>17, <1>20 DEF NamesPlaced
  <2> QED
    BY <1>8, <1>14, <1>15, <2>2, <2>3
<1>21. CASE Appends(m, name, link, bs, es, index)
  <2> DEFINE longer == Append(strings[c], name)
             pair == <<name, link>>
             more2 == Append(inserted[m], pair)
  <2>1. strings' = [strings EXCEPT ![c] = longer] /\ inserted' = [inserted EXCEPT ![m] = more2]
    BY <1>21 DEF Appends, c
  <2>2. /\ longer \in Seq(Names) /\ Len(longer) = Len(strings[c]) + 1
        /\ longer[Len(strings[c]) + 1] = name
        /\ \A x \in 1..Len(strings[c]) : longer[x] = strings[c][x]
    BY <1>18
  <2>3. pair \in Names \X Links
    OBVIOUS
  <2> HIDE DEF longer, pair
  <2>4. /\ more2 \in Seq(Names \X Links) /\ DOMAIN more2 = DOMAIN inserted[m] \cup {Len(inserted[m]) + 1}
        /\ more2[Len(inserted[m]) + 1] = pair
        /\ \A x \in DOMAIN inserted[m] : more2[x] = inserted[m][x]
    <3> DEFINE q == inserted[m]
    <3>1. q \in Seq(Names \X Links)
      BY <1>19
    <3> HIDE DEF q
    <3>2. /\ Append(q, pair) \in Seq(Names \X Links) /\ Len(Append(q, pair)) = Len(q) + 1
          /\ Append(q, pair)[Len(q) + 1] = pair
          /\ \A x \in 1..Len(q) : Append(q, pair)[x] = q[x]
          /\ Len(q) \in Nat /\ DOMAIN q = 1..Len(q)
          /\ DOMAIN Append(q, pair) = 1..(Len(q) + 1)
      BY <2>3, <3>1
    <3> QED
      BY <3>2 DEF q
  <2> HIDE DEF more2
  <2>5. /\ strings' \in [1..3 -> Seq(Names)] /\ strings'[c] = longer
        /\ \A k \in 1..3 : k # c => strings'[k] = strings[k]
    BY <1>16, <1>17, <2>1, <2>2
  <2>6. /\ inserted' \in Seq(Seq(Names \X Links)) /\ Len(inserted') = Len(inserted)
        /\ inserted'[m] = more2
        /\ \A k \in DOMAIN maps : k # m => inserted'[k] = inserted[k]
    <3>1. m \in DOMAIN inserted
      BY <1>17
    <3>2. inserted'[m] = more2 /\ \A k \in DOMAIN maps : k # m => inserted'[k] = inserted[k]
      BY <1>17, <2>1, <3>1
    <3>3. inserted' \in Seq(Seq(Names \X Links)) /\ Len(inserted') = Len(inserted)
      BY <1>17, <2>1, <2>4, <3>1, ExceptSeq
    <3> QED
      BY <3>2, <3>3
  <2>7. NamesPlaced'
    BY <1>17, <2>5, <2>6 DEF NamesPlaced
  <2>8. StringsStay
    <3> SUFFICES ASSUME NEW k \in 1..3
                 PROVE  /\ Len(strings[k]) \in Nat /\ Len(strings'[k]) \in Nat
                        /\ Len(strings[k]) <= Len(strings'[k])
                        /\ \A x \in 1..Len(strings[k]) : strings'[k][x] = strings[k][x]
      BY DEF StringsStay
    <3>1. strings[k] \in Seq(Names) /\ Len(strings[k]) \in Nat
      BY <1>17
    <3>2. CASE k = c
      BY <2>2, <2>5, <3>1, <3>2
    <3>3. CASE k # c
      BY <2>5, <3>1, <3>3
    <3> QED
      BY <3>2, <3>3
  <2>9. buckets' = more
    BY <1>21 DEF Appends, more
  <2>10. \A k \in DOMAIN maps : \A b \in BucketsOf(k) : b # index =>
            buckets'[b].used = buckets[b].used
    <3> SUFFICES ASSUME NEW k \in DOMAIN maps, NEW b \in BucketsOf(k), b # index
                 PROVE  buckets'[b].used = buckets[b].used
      OBVIOUS
    <3>1. b \in 1..NBuckets
      BY <1>1
    <3> QED
      BY <1>5, <2>9, <3>1
  <2>11. ASSUME NEW k \in DOMAIN maps, k # m PROVE Contents(k)'
    <3>1. index \notin BucketsOf(k)
      BY <1>1, <2>11
    <3>2. \A b \in BucketsOf(k) : buckets'[b].used = buckets[b].used
                                  /\ Stays(b, buckets[b].used)
      BY <1>13, <2>10, <3>1
    <3>3. Contents(k) /\ MapStays(k) /\ inserted'[k] = inserted[k]
      BY <2>6, <2>11 DEF AllContents
    <3> QED
      BY <2>8, <3>2, <3>3, ContentsStay
  <2>12. Contents(m)'
    <3>0. PICK u : u = buckets[index].used + 1
      OBVIOUS
    <3>1. buckets'[index].used = u /\ buckets'[index].start = bs[index].start
      BY <1>1, <1>5, <2>9, <3>0
    <3>2. buckets'[index].start + u - 1 = at
      BY <1>1, <1>4, <3>0, <3>1
    <3> DEFINE L == Len(strings[c]) + 1
               e == [string |-> <<c, L>>, link |-> link]
    <3>3. entries'[at] = e
      <4>1. entries' = [es EXCEPT ![at] = e]
        BY <1>21 DEF Appends, c
      <4> HIDE DEF e, at
      <4> QED
        BY <1>11, <4>1
    <3>4. EntryOf(index, u)' = e
      BY <3>2, <3>3 DEF EntryOf
    <3>5. L \in 1..Len(strings'[c]) /\ strings'[c][L] = name
      BY <1>18, <2>2, <2>5
    <3> HIDE DEF L
    <3>6. e.string = <<c, L>> /\ e.link = link /\ <<c, L>>[1] = c /\ <<c, L>>[2] = L
      OBVIOUS
    <3> HIDE DEF e
    <3>7. Known(index, u)'
      BY <1>16, <3>4, <3>5, <3>6 DEF Known
    <3>8. NameOf(index, u)' = name
      <4>1. NameOf(index, u)' = IF e.string[2] <= Len(strings'[e.string[1]])
                                THEN strings'[e.string[1]][e.string[2]] ELSE <<>>
        BY <3>4 DEF NameOf, D!AsString
      <4>2. e.string[1] = c /\ e.string[2] = L
        BY <3>6
      <4>3. L <= Len(strings'[c])
        BY <3>5
      <4> QED
        BY <3>5, <4>1, <4>2, <4>3
    <3>9. PairOf(index, u)' = <<name, link>>
      BY <3>4, <3>6, <3>8 DEF PairOf
    <3>10. \A j \in 1..buckets[index].used : NameOf(index, j) # name
      <4> SUFFICES ASSUME NEW j \in 1..buckets[index].used PROVE NameOf(index, j) # name
        OBVIOUS
      <4>1. j \in 1..bs[index].used
        OBVIOUS
      <4>2. D!AsString(es[bs[index].start + j - 1].string) # name
        BY <1>21, <4>1 DEF Appends
      <4>3. es[bs[index].start + j - 1] = EntryOf(index, j)
        OBVIOUS
      <4> QED
        BY <4>2, <4>3 DEF NameOf
    <3>11. Entered(m)' = Entered(m) \cup {<<name, link>>}
      <4>1. Entered(m)' = {more2[i] : i \in DOMAIN more2}
        BY <2>6 DEF Entered
      <4>2. {more2[i] : i \in DOMAIN more2}
              = {inserted[m][i] : i \in DOMAIN inserted[m]} \cup {pair}
        BY <2>4
      <4> QED
        BY <4>1, <4>2 DEF Entered, pair
    <3>12. Contents(m) /\ MapStays(m)
      BY DEF AllContents
    <3>13. \A b \in BucketsOf(m) : buckets[b].used \in Nat /\ Stays(b, buckets[b].used)
      BY <1>13
    <3>14. \A b \in BucketsOf(m) \ {index} : buckets'[b].used = buckets[b].used
      BY <2>10
    <3> QED
      BY <1>1, <2>8, <3>0, <3>1, <3>7, <3>9, <3>10, <3>11, <3>12, <3>13, <3>14, ContentsGrow
  <2>13. AllContents'
    BY <2>11, <2>12 DEF AllContents
  <2> QED
    BY <1>8, <1>14, <1>15, <2>7, <2>13
<1> QED
  BY <1>3, <1>20, <1>21

(* What growing a bucket makes: the bucket lies elsewhere and is twice as  *)
(* long, and its entries have come along.                                  *)
Grown(index, nodes, bs, es) ==
    /\ Spans(nodes, NEntries)
    /\ Roomy(index, bs, es)
    /\ bs[index].len = buckets[index].len + buckets[index].len

(* Growing a bucket does what Grown says. *)
LEMMA GrowIs ==
    ASSUME EntriesPlaced, Spans(entryNodes, NEntries), buckets \in [1..NBuckets -> Bucket],
           NEW index \in 1..NBuckets, buckets[index].used = buckets[index].len,
           buckets[index].len # 0,
           D!Grow(D!Now, index).how = "ok"
    PROVE  \E nodes, bs, es :
             /\ D!Grow(D!Now, index) = [how |-> "ok", nodes |-> nodes, buckets |-> bs, entries |-> es]
             /\ Grown(index, nodes, bs, es)
<1> DEFINE s == D!Now
           st == buckets[index].start
           ln == buckets[index].len
           e == D!AllocateAsOffset(entryNodes, 2 * ln)
           eo == e.offset
           copied == D!CopyContents(entries, st, eo, ln)
           f == D!FreeOffset(e.a, st, ln)
           bs == [buckets EXCEPT ![index].start = eo, ![index].len = 2 * ln]
<1>1. s.nodes = entryNodes /\ s.buckets = buckets /\ s.entries = entries
  BY DEF D!Now
<1>2. buckets[index] \in Bucket
  OBVIOUS
<1>3. PICK a \in Nat, l \in Nat, u \in Nat : buckets[index] = [start |-> a, len |-> l, used |-> u]
  BY <1>2 DEF Bucket
<1>4. st = a /\ ln = l /\ buckets[index].used = u /\ u = l /\ l \in Nat \ {0} /\ 2 * ln = l + l
  BY <1>3
<1>5. D!Grow(s, index) =
        IF e.how # "some" THEN [s EXCEPT !.how = IF e.how = "none" THEN "full" ELSE e.how]
        ELSE [how |-> IF f.how = "assertion" THEN "assertion" ELSE "ok",
              nodes |-> f.a, entries |-> copied, buckets |-> bs]
  BY <1>1 DEF D!Grow
<1>6. e.how \in {"none", "underflow", "some"}
  BY DEF D!AllocateAsOffset
<1>7. e.how = "some"
  <2>1. ASSUME e.how # "some" PROVE FALSE
    <3>1. D!Grow(s, index).how = IF e.how = "none" THEN "full" ELSE e.how
      <4> HIDE DEF e, f, copied, bs
      <4> QED
        BY <1>5, <2>1 DEF D!Now
    <3> HIDE DEF e
    <3> QED
      BY <1>6, <2>1, <3>1
  <2> QED
    BY <2>1
<1> HIDE DEF f, copied, bs
<1>8. D!Grow(s, index) = [how |-> IF f.how = "assertion" THEN "assertion" ELSE "ok",
              nodes |-> f.a, entries |-> copied, buckets |-> bs]
  BY <1>5, <1>7
<1>9. D!Grow(s, index) = [how |-> "ok", nodes |-> f.a, buckets |-> bs, entries |-> copied]
  <2>1. f.how # "assertion"
    BY <1>8
  <2> QED
    BY <1>8, <2>1
<1>10. NEntries \in Nat /\ NBuckets \in Nat
  BY DirectoryConstants
<1>11. eo \in Nat /\ eo + (l + l) <= NEntries /\ Spans(e.a, NEntries)
  <2>1. 2 * ln \in Nat \ {0}
    BY <1>4
  <2> QED
    BY <1>4, <1>7, <1>10, <2>1, AllocateKeeps
<1>12. Spans(f.a, NEntries)
  BY <1>4, <1>10, <1>11, FreeKeeps DEF f
<1> HIDE DEF e, eo
<1> DEFINE new == [start |-> eo, len |-> l + l, used |-> u]
<1>13. bs = [buckets EXCEPT ![index] = new]
  <2>1. bs = [buckets EXCEPT ![index] = [[buckets[index] EXCEPT !.start = eo] EXCEPT !.len = 2 * ln]]
    BY DEF bs
  <2> DEFINE r == [start |-> eo, len |-> l, used |-> u]
  <2>2. [buckets[index] EXCEPT !.start = eo] = r
    BY <1>3
  <2>3. [r EXCEPT !.len = 2 * ln] = new
    BY <1>4
  <2> HIDE DEF r, new
  <2> QED
    BY <2>1, <2>2, <2>3, Zenon
<1>14. new \in Bucket
  BY <1>4, <1>11 DEF Bucket
<1>15. bs \in [1..NBuckets -> Bucket] /\ bs[index] = new
       /\ \A b \in 1..NBuckets \ {index} : bs[b] = buckets[b]
  <2> HIDE DEF new
  <2> QED
    BY <1>13, <1>14
<1>16. D!Slice(bs[index]) = eo..(eo + (l + l) - 1)
  BY <1>15 DEF D!Slice
<1>17. /\ bs[index].used = u /\ bs[index].len = l + l /\ bs[index].start = eo
  BY <1>15
<1>18. copied = [x \in 0..(NEntries - 1) |->
                   IF x \in eo..(eo + l - 1) THEN entries[a + (x - eo)] ELSE entries[x]]
  BY <1>4 DEF copied, D!CopyContents, EntriesPlaced
<1>19. DOMAIN copied = 0..(NEntries - 1) /\ copied = [x \in 0..(NEntries - 1) |-> copied[x]]
  BY <1>18
<1>20. ASSUME NEW j \in 1..l PROVE copied[eo + j - 1] = EntryOf(index, j)
  <2>1. eo + j - 1 \in 0..(NEntries - 1) /\ eo + j - 1 \in eo..(eo + l - 1)
        /\ a + ((eo + j - 1) - eo) = a + j - 1
    BY <1>4, <1>10, <1>11
  <2>2. copied[eo + j - 1] = entries[a + ((eo + j - 1) - eo)]
    BY <1>18, <2>1
  <2> QED
    BY <1>4, <2>1, <2>2 DEF EntryOf
<1>21. \A x \in 0..(NEntries - 1) : x \notin eo..(eo + (l + l) - 1) => copied[x] = entries[x]
  <2> SUFFICES ASSUME NEW x \in 0..(NEntries - 1), x \notin eo..(eo + (l + l) - 1)
               PROVE  copied[x] = entries[x]
    OBVIOUS
  <2>1. x \notin eo..(eo + l - 1)
    BY <1>4, <1>10, <1>11
  <2> QED
    BY <1>18, <2>1
<1>22. Grown(index, f.a, bs, copied)
  <2>1. u < l + l
    BY <1>4
  <2> HIDE DEF new
  <2> QED
    BY <1>4, <1>11, <1>12, <1>15, <1>16, <1>17, <1>19, <1>20, <1>21, <2>1 DEF Grown, Roomy
<1> QED
  BY <1>9, <1>22

(* The counts stay right when no bucket changes its length. *)
LEMMA CountsStay ==
    ASSUME MapsPlaced, BucketsPlaced, Counted, maps' = maps,
           \A b \in 1..NBuckets : buckets'[b].len = buckets[b].len
    PROVE  Counted'
<1> SUFFICES ASSUME NEW m \in DOMAIN maps PROVE maps[m].capacity = D!Slots(m)'
  BY DEF Counted
<1>1. D!Slots(m)' = Sum(maps[m].count, maps[m].offset, buckets')
  BY DEF D!Slots, Sum
<1>2. maps[m].capacity = Sum(maps[m].count, maps[m].offset, buckets)
  BY SlotsIs DEF Counted
<1>3. maps[m].offset \in Nat /\ maps[m].count \in Nat /\ BucketsOf(m) \subseteq 1..NBuckets
  BY BucketsApart
<1>4. \A k \in 1..maps[m].count : maps[m].offset + k \in 1..NBuckets
  BY <1>3 DEF BucketsOf
<1>5. \A b \in 1..NBuckets : buckets[b].len \in Int
  <2>1. \A b \in 1..NBuckets : buckets[b] \in Bucket
    BY DEF BucketsPlaced
  <2> QED
    BY <2>1 DEF Bucket
<1> DEFINE N == maps[m].count
           first == maps[m].offset
<1>6. Sum(N, first, buckets') = Sum(N, first, buckets)
  <2>1. N \in Nat /\ first \in Nat
    BY <1>3
  <2>2. \A n \in 1..N : buckets[first + n].len \in Int
    BY <1>4, <1>5
  <2>3. \A n \in 1..N : buckets'[first + n].len = buckets[first + n].len
    BY <1>4
  <2> HIDE DEF N, first
  <2> QED
    <3>1. Lengths(N, first, buckets) /\ SameLengths(N, first, buckets, buckets')
      BY <2>2, <2>3 DEF Lengths, SameLengths
    <3> QED
      BY <2>1, <3>1, SumEqual
<1> QED
  BY <1>1, <1>2, <1>6

(* insert into a bucket that has room. *)
LEMMA InsertThereKeeps ==
    ASSUME DirectoryState, NEW m, NEW name \in Names, NEW link \in Links,
           D!InsertThere(m, name, link), D!Going'
    PROVE  DirectoryState'
<1> DEFINE index == D!BucketOf(maps[m], name)
<1>1. /\ MapsPlaced /\ BucketsPlaced /\ EntriesPlaced /\ Spans(entryNodes, NEntries)
      /\ NamesPlaced /\ AllContents /\ Counted
  BY DEF DirectoryState
<1>2. /\ m \in DOMAIN maps /\ D!Class(name) # 4 /\ buckets[index].used # buckets[index].len
      /\ D!Enter(m, name, link, D!Now, index)
      /\ bucketNodes' = bucketNodes /\ entryNodes' = entryNodes /\ maps' = maps
  BY DEF D!InsertThere, D!Full
<1>3. D!Sound'
  BY DEF D!Going
<1>4. index \in BucketsOf(m) /\ index \in 1..NBuckets
  BY <1>1, <1>2, BucketOfIs, BucketsApart
<1>5. D!Enter(m, name, link, [how |-> "ok", nodes |-> entryNodes, buckets |-> buckets,
                              entries |-> entries], index)
  BY <1>2 DEF D!Now
<1>6. PICK i : i = index
  OBVIOUS
<1> HIDE DEF index
<1>7. /\ buckets \in [1..NBuckets -> Bucket] /\ buckets[i] \in Bucket
      /\ buckets[i].used <= buckets[i].len /\ buckets[i].start + buckets[i].len <= NEntries
  BY <1>1, <1>2, <1>4, <1>6 DEF BucketsPlaced
<1>8. buckets[i].used < buckets[i].len
  BY <1>2, <1>6, <1>7 DEF Bucket
<1>9. /\ \A b \in 1..NBuckets \ {i} : buckets[b] = buckets[b]
      /\ buckets[i].used = buckets[i].used
      /\ DOMAIN entries = 0..(NEntries - 1) /\ entries = [x \in 0..(NEntries - 1) |-> entries[x]]
      /\ \A j \in 1..buckets[i].used : entries[buckets[i].start + j - 1] = EntryOf(i, j)
      /\ \A x \in 0..(NEntries - 1) : x \notin D!Slice(buckets[i]) => entries[x] = entries[x]
  BY <1>1 DEF EntriesPlaced, EntryOf
<1>10. DOMAIN maps' = DOMAIN maps /\ Len(maps') = Len(maps) /\ \A k \in DOMAIN maps : MapStays(k)
  BY <1>2 DEF MapStays
<1>11. i = D!BucketOf(maps[m], name)
  BY <1>6 DEF index
<1>12. D!Enter(m, name, link, [how |-> "ok", nodes |-> entryNodes, buckets |-> buckets,
                              entries |-> entries], i)
  BY <1>5, <1>6
<1>13. /\ BucketsPlaced' /\ EntriesPlaced' /\ NamesPlaced' /\ AllContents'
       /\ \A b \in 1..NBuckets : buckets'[b].len = buckets[b].len
  <2>1. PICK how, nodes, bs, es : how = "ok" /\ nodes = entryNodes /\ bs = buckets /\ es = entries
    OBVIOUS
  <2>2. D!Enter(m, name, link, [how |-> how, nodes |-> nodes, buckets |-> bs, entries |-> es], i)
    BY <1>12, <2>1
  <2>3. Roomy(i, bs, es)
    BY <1>7, <1>8, <1>9, <2>1 DEF Roomy
  <2>4. MapsStay
    BY <1>10 DEF MapsStay
  <2>5. /\ BucketsPlaced' /\ EntriesPlaced' /\ NamesPlaced' /\ AllContents'
        /\ \A b \in 1..NBuckets : buckets'[b].len = bs[b].len
    BY <1>1, <1>2, <1>3, <1>11, <2>2, <2>3, <2>4, EnterKeeps
  <2> QED
    BY <2>1, <2>5
<1>14. MapsPlaced' /\ Spans(entryNodes', NEntries)
  BY <1>1, <1>2 DEF MapsPlaced
<1>15. Counted'
  BY <1>1, <1>2, <1>13, CountsStay
<1> QED
  BY <1>13, <1>14, <1>15 DEF DirectoryState

(* insert into a bucket that grows for it, or cannot. *)
LEMMA InsertGrowingKeeps ==
    ASSUME DirectoryState, NEW m, NEW name \in Names, NEW link \in Links,
           D!InsertGrowing(m, name, link), D!Going'
    PROVE  DirectoryState'
<1> DEFINE index == D!BucketOf(maps[m], name)
           s == D!Grow(D!Now, index)
<1>1. /\ MapsPlaced /\ BucketsPlaced /\ EntriesPlaced /\ Spans(entryNodes, NEntries)
      /\ NamesPlaced /\ AllContents /\ Counted
  BY DEF DirectoryState
<1>2. /\ m \in DOMAIN maps /\ D!Class(name) # 4 /\ buckets[index].used = buckets[index].len
      /\ entryNodes' = s.nodes
      /\ running' = IF s.how \in {"ok", "full"} THEN "yes" ELSE s.how
      /\ IF s.how = "ok"
         THEN D!Enter(m, name, link, s, index) /\ D!CountSlots(m, buckets[index].len)
         ELSE entries' = s.entries /\ buckets' = s.buckets
              /\ strings' = strings /\ inserted' = inserted /\ maps' = maps
      /\ bucketNodes' = bucketNodes
  BY DEF D!InsertGrowing, D!Full
<1>3. D!Sound' /\ running' = "yes"
  BY DEF D!Going
<1>4. index \in BucketsOf(m) /\ index \in 1..NBuckets
  BY <1>1, <1>2, BucketOfIs, BucketsApart
<1>5. PICK i : i = index
  OBVIOUS
<1>6. i = D!BucketOf(maps[m], name) /\ s = D!Grow(D!Now, i)
  BY <1>5
<1> HIDE DEF index, s
<1>7. /\ buckets \in [1..NBuckets -> Bucket] /\ buckets[i].len # 0
  BY <1>1, <1>2, <1>4, <1>5 DEF BucketsPlaced
<1>8. CASE s.how = "ok"
  <2>1. PICK nodes, bs, es :
             /\ s = [how |-> "ok", nodes |-> nodes, buckets |-> bs, entries |-> es]
             /\ Grown(i, nodes, bs, es)
    BY <1>1, <1>2, <1>4, <1>5, <1>6, <1>7, <1>8, GrowIs
  <2>2. PICK how : how = "ok"
    OBVIOUS
  <2>3. D!Enter(m, name, link, [how |-> how, nodes |-> nodes, buckets |-> bs, entries |-> es], i)
    BY <1>2, <1>5, <1>8, <2>1, <2>2
  <2>4. entryNodes' = nodes /\ Spans(nodes, NEntries)
    BY <1>2, <2>1 DEF Grown
  <2> DEFINE ln == buckets[i].len
  <2>5. maps' = [maps EXCEPT ![m].capacity = @ + ln]
    BY <1>2, <1>5, <1>8 DEF D!CountSlots
  <2>6. buckets[i] \in Bucket
    BY <1>4, <1>5, <1>7
  <2>7. ln \in Nat
    BY <2>6 DEF Bucket
  <2> HIDE DEF ln
  <2>8. maps \in Seq(Map) /\ maps[m] \in Map
    BY <1>1, <1>2 DEF MapsPlaced
  <2>9. PICK o \in Nat, c \in Nat \ {0}, cap \in Int : maps[m] = [offset |-> o, count |-> c, capacity |-> cap]
    BY <2>8 DEF Map
  <2> DEFINE new == [offset |-> o, count |-> c, capacity |-> cap + ln]
  <2>10. maps' = [maps EXCEPT ![m] = new]
    <3>1. [maps[m] EXCEPT !.capacity = @ + ln] = new
      BY <2>9
    <3>2. maps' = [maps EXCEPT ![m] = [maps[m] EXCEPT !.capacity = @ + ln]]
      BY <2>5
    <3> HIDE DEF new
    <3> QED
      BY <3>1, <3>2, Zenon
  <2>11. new \in Map
    BY <2>7 DEF Map
  <2>12. /\ maps' \in Seq(Map) /\ Len(maps') = Len(maps) /\ DOMAIN maps' = DOMAIN maps
         /\ maps'[m] = new /\ \A k \in DOMAIN maps : k # m => maps'[k] = maps[k]
    <3> HIDE DEF new
    <3>1. maps' \in Seq(Map) /\ Len(maps') = Len(maps)
      BY <1>2, <2>8, <2>10, <2>11, ExceptSeq
    <3> QED
      BY <1>2, <2>10, <3>1
  <2>13. \A k \in DOMAIN maps : MapStays(k)
    <3>1. MapStays(m)
      BY <2>9, <2>12 DEF MapStays
    <3> QED
      BY <2>12, <3>1 DEF MapStays
  <2>14. /\ BucketsPlaced' /\ EntriesPlaced' /\ NamesPlaced' /\ AllContents'
         /\ \A b \in 1..NBuckets : buckets'[b].len = bs[b].len
    <3>1. Roomy(i, bs, es)
      BY <2>1 DEF Grown
    <3>2. MapsStay
      BY <2>12, <2>13 DEF MapsStay
    <3> QED
      BY <1>1, <1>2, <1>3, <1>6, <2>3, <3>1, <3>2, EnterKeeps
  <2>15. MapsPlaced'
    <3>1. \A k \in DOMAIN maps' : maps'[k].offset = maps[k].offset /\ maps'[k].count = maps[k].count
      BY <2>12, <2>13 DEF MapStays
    <3> QED
      BY <1>1, <1>2, <2>12, <3>1 DEF MapsPlaced
  <2>16. \A b \in 1..NBuckets : buckets[b].len \in Int
    <3>1. \A b \in 1..NBuckets : buckets[b] \in Bucket
      BY <1>7
    <3> QED
      BY <3>1 DEF Bucket
  <2>17. \A b \in 1..NBuckets : /\ b = i => buckets'[b].len = buckets[b].len + ln
                                /\ b # i => buckets'[b].len = buckets[b].len
    BY <2>1, <2>14 DEF Grown, Roomy, ln
  <2>18. Counted'
    <3> SUFFICES ASSUME NEW k \in DOMAIN maps PROVE maps'[k].capacity = D!Slots(k)'
      BY <2>12 DEF Counted
    <3>1. D!Slots(k)' = Sum(maps[k].count, maps[k].offset, buckets')
      BY <2>13 DEF D!Slots, Sum, MapStays
    <3>2. maps[k].capacity = Sum(maps[k].count, maps[k].offset, buckets)
      BY <1>1, SlotsIs DEF Counted
    <3>3. maps[k].offset \in Nat /\ maps[k].count \in Nat /\ BucketsOf(k) \subseteq 1..NBuckets
      BY <1>1, BucketsApart
    <3>4. \A x \in 1..maps[k].count : maps[k].offset + x \in 1..NBuckets
                                      /\ maps[k].offset + x \in BucketsOf(k)
      BY <3>3 DEF BucketsOf
    <3>5. CASE k = m
      <4>1. i \in (maps[k].offset + 1)..(maps[k].offset + maps[k].count)
        BY <1>4, <1>5, <3>5 DEF BucketsOf
      <4> DEFINE N == maps[k].count
                 first == maps[k].offset
      <4>2. Sum(N, first, buckets') = Sum(N, first, buckets) + ln
        <5>1. N \in Nat /\ first \in Nat /\ i \in (first + 1)..(first + N)
          BY <3>3, <4>1
        <5>2. \A n \in 1..N : buckets[first + n].len \in Int
          BY <2>16, <3>4
        <5>3. \A n \in 1..N : first + n = i => buckets'[first + n].len = buckets[first + n].len + ln
          BY <2>17, <3>4
        <5>4. \A n \in 1..N : first + n # i => buckets'[first + n].len = buckets[first + n].len
          BY <2>17, <3>4
        <5>5. ln \in Int
          BY <2>7
        <5> HIDE DEF N, first
        <5> QED
          <6>1. Lengths(N, first, buckets) /\ OneLonger(N, first, buckets, buckets', i, ln)
            BY <5>2, <5>3, <5>4 DEF Lengths, OneLonger
          <6> QED
            BY <5>1, <5>5, <6>1, SumGrows
      <4>3. maps'[k].capacity = maps[k].capacity + ln
        BY <2>9, <2>12, <3>5
      <4> QED
        BY <3>1, <3>2, <4>2, <4>3
    <3>6. CASE k # m
      <4>1. i \notin BucketsOf(k)
        BY <1>1, <1>2, <1>4, <1>5, <3>6, BucketsApart
      <4>2. \A x \in 1..maps[k].count :
              buckets'[maps[k].offset + x].len = buckets[maps[k].offset + x].len
        BY <2>17, <3>4, <4>1
      <4> DEFINE N == maps[k].count
                 first == maps[k].offset
      <4>3. Sum(N, first, buckets') = Sum(N, first, buckets)
        <5>1. N \in Nat /\ first \in Nat
          BY <3>3
        <5>2. \A n \in 1..N : buckets[first + n].len \in Int
          BY <2>16, <3>4
        <5>3. \A n \in 1..N : buckets'[first + n].len = buckets[first + n].len
          BY <4>2
        <5> HIDE DEF N, first
        <5> QED
          <6>1. Lengths(N, first, buckets) /\ SameLengths(N, first, buckets, buckets')
            BY <5>2, <5>3 DEF Lengths, SameLengths
          <6> QED
            BY <5>1, <6>1, SumEqual
      <4>4. maps'[k] = maps[k]
        BY <2>12, <3>6
      <4> QED
        BY <3>1, <3>2, <4>3, <4>4
    <3> QED
      BY <3>5, <3>6
  <2> QED
    BY <2>4, <2>14, <2>15, <2>18 DEF DirectoryState
<1>9. CASE s.how # "ok"
  <2>1. s.how = "full"
    <3>1. s.how \in {"ok", "full"} \/ s.how = "yes"
      BY <1>2, <1>3
    <3>2. s.how # "yes"
      <4> DEFINE e == D!AllocateAsOffset(entryNodes, 2 * buckets[i].len)
      <4>1. e.how \in {"none", "underflow", "some"}
        BY DEF D!AllocateAsOffset
      <4>2. s.how \in {"ok", "assertion", "full", e.how} \/ s.how # "yes"
        <5> HIDE DEF e
        <5> QED
          BY <1>6 DEF D!Grow, D!Now, e
      <4> QED
        BY <4>1, <4>2
    <3> QED
      BY <1>9, <3>1, <3>2
  <2>2. s.nodes = entryNodes /\ s.buckets = buckets /\ s.entries = entries
    <3> DEFINE e == D!AllocateAsOffset(entryNodes, 2 * buckets[i].len)
    <3>1. e.how = "some" => s.how \in {"ok", "assertion"}
      BY <1>6 DEF D!Grow, D!Now
    <3>2. e.how # "some" => s = [D!Now EXCEPT !.how = IF e.how = "none" THEN "full" ELSE e.how]
      BY <1>6 DEF D!Grow, D!Now
    <3> HIDE DEF e
    <3> QED
      BY <2>1, <3>1, <3>2 DEF D!Now
  <2>3. /\ entryNodes' = entryNodes /\ entries' = entries /\ buckets' = buckets
        /\ strings' = strings /\ inserted' = inserted /\ maps' = maps /\ bucketNodes' = bucketNodes
    BY <1>2, <1>9, <2>2
  <2>4. MapsPlaced' /\ BucketsPlaced' /\ EntriesPlaced' /\ Spans(entryNodes', NEntries) /\ NamesPlaced'
    BY <1>1, <2>3 DEF MapsPlaced, BucketsPlaced, EntriesPlaced, NamesPlaced, BucketsOf
  <2>5. AllContents'
    <3>1. StringsStay
      <4>1. \A k \in 1..3 : Len(strings[k]) \in Nat
        BY <1>1 DEF NamesPlaced
      <4> QED
        BY <2>3, <4>1 DEF StringsStay
    <3> SUFFICES ASSUME NEW k \in DOMAIN maps PROVE Contents(k)'
      BY <2>3 DEF AllContents
    <3>2. \A b \in BucketsOf(k) : buckets'[b].used = buckets[b].used /\ Stays(b, buckets[b].used)
      BY <2>3 DEF Stays
    <3>3. Contents(k) /\ MapStays(k) /\ inserted'[k] = inserted[k]
      BY <1>1, <2>3 DEF AllContents, MapStays
    <3> QED
      BY <3>1, <3>2, <3>3, ContentsStay
  <2>6. Counted'
    BY <1>1, <2>3, CountsStay
  <2> QED
    BY <2>4, <2>5, <2>6 DEF DirectoryState
<1> QED
  BY <1>8, <1>9

(* At the start there is no map, and the arrays are free. *)
LEMMA NewSpans ==
    ASSUME NEW n \in Nat
    PROVE  Spans(D!NewNodes(n), n) /\ Len(D!NewNodes(n).nodes) = 2
           /\ D!NewNodes(n).nodes[2].base = 0
<1> DEFINE one == [len |-> 0, base |-> 0, reserving |-> TRUE]
           two == [len |-> n, base |-> 0, reserving |-> FALSE]
           s == <<one, two>>
<1>1. D!NewNodes(n) = [nodes |-> s, current |-> 2]
  BY DEF D!NewNodes
<1>2. one \in Node /\ two \in Node
  BY DEF Node
<1>3. End(one) = 0 /\ End(two) = n /\ two.base = 0 /\ one.base = 0
  BY DEF End
<1>4. one # D!ZeroNode
  BY DEF D!ZeroNode
<1> HIDE DEF one, two
<1>5. s \in Seq(Node) /\ Len(s) = 2 /\ DOMAIN s = {1, 2} /\ s[1] = one /\ s[2] = two
  BY <1>2
<1> HIDE DEF s
<1>6. InOrder(s)
  <2> SUFFICES ASSUME NEW i \in DOMAIN s, NEW j \in DOMAIN s, i < j
               PROVE  s[i] # D!ZeroNode /\ End(s[i]) <= s[j].base
    BY DEF InOrder
  <2>1. i = 1 /\ j = 2
    BY <1>5
  <2> QED
    BY <1>3, <1>4, <1>5, <2>1
<1>7. Below(s, n)
  <2>1. 0 <= n /\ n <= n
    OBVIOUS
  <2> QED
    BY <1>3, <1>5, <2>1 DEF Below
<1>8. D!NewNodes(n).nodes = s /\ D!NewNodes(n).current = 2
  BY <1>1
<1>9. D!NewNodes(n) = [nodes |-> D!NewNodes(n).nodes, current |-> D!NewNodes(n).current]
  BY <1>1
<1> QED
  BY <1>3, <1>5, <1>6, <1>7, <1>8, <1>9 DEF Spans

(* The invariant holds at the start. *)
LEMMA DirectoryStarts == InitMemory => DirectoryInv
<1> SUFFICES ASSUME D!Init PROVE DirectoryState
  BY DEF InitMemory, DirectoryInv
<1>1. NBuckets \in Nat /\ NEntries \in Nat
  BY DirectoryConstants
<1>2. /\ bucketNodes = D!NewNodes(NBuckets) /\ entryNodes = D!NewNodes(NEntries)
      /\ buckets = [i \in 1..NBuckets |-> [start |-> 0, len |-> 0, used |-> 0]]
      /\ entries = [i \in 0..(NEntries - 1) |-> D!NoEntry]
      /\ maps = <<>> /\ inserted = <<>> /\ strings = [c \in 1..3 |-> <<>>]
  BY DEF D!Init
<1>3. Spans(bucketNodes, NBuckets) /\ Len(bucketNodes.nodes) = 2 /\ Spans(entryNodes, NEntries)
  BY <1>1, <1>2, NewSpans
<1>4. DOMAIN maps = {} /\ maps \in Seq(Map)
  BY <1>2
<1>5. MapsPlaced
  BY <1>3, <1>4 DEF MapsPlaced
<1>6. BucketsPlaced
  <2>1. [start |-> 0, len |-> 0, used |-> 0] \in Bucket
    BY DEF Bucket
  <2> DEFINE none == [start |-> 0, len |-> 0, used |-> 0]
  <2>2. buckets = [i \in 1..NBuckets |-> none]
    BY <1>2
  <2> HIDE DEF none
  <2>3. buckets \in [1..NBuckets -> Bucket]
    BY <2>1, <2>2 DEF none
  <2> QED
    BY <1>4, <2>3 DEF BucketsPlaced
<1>7. EntriesPlaced
  BY <1>2 DEF EntriesPlaced
<1>8. NamesPlaced
  <2>1. <<>> \in Seq(Names) /\ inserted \in Seq(Seq(Names \X Links)) /\ Len(inserted) = Len(maps)
    BY <1>2
  <2>2. strings \in [1..3 -> Seq(Names)]
    BY <1>2, <2>1
  <2> QED
    BY <2>1, <2>2 DEF NamesPlaced
<1>9. AllContents /\ Counted
  BY <1>4 DEF AllContents, Counted
<1> QED
  BY <1>3, <1>5, <1>6, <1>7, <1>8, <1>9 DEF DirectoryState

(* A step of another part changes nothing here. *)
LEMMA DirectoryStutters ==
    ASSUME DirectoryInv, UNCHANGED directoryVars
    PROVE  DirectoryInv'
<1>1. /\ bucketNodes' = bucketNodes /\ entryNodes' = entryNodes /\ buckets' = buckets
      /\ entries' = entries /\ maps' = maps /\ strings' = strings /\ running' = running
      /\ inserted' = inserted
  BY DEF directoryVars
<1>2. D!Going' <=> D!Going
  BY <1>1 DEF D!Going, D!Sound, D!Live, D!Slice
<1> SUFFICES ASSUME DirectoryState PROVE DirectoryState'
  BY <1>2 DEF DirectoryInv
<1>3. /\ MapsPlaced /\ BucketsPlaced /\ EntriesPlaced /\ Spans(entryNodes, NEntries)
      /\ NamesPlaced /\ AllContents /\ Counted
  BY DEF DirectoryState
<1>4. MapsPlaced' /\ BucketsPlaced' /\ EntriesPlaced' /\ Spans(entryNodes', NEntries) /\ NamesPlaced'
  BY <1>1, <1>3 DEF MapsPlaced, BucketsPlaced, EntriesPlaced, NamesPlaced, BucketsOf
<1>5. AllContents'
  <2>1. StringsStay
    <3>1. \A k \in 1..3 : Len(strings[k]) \in Nat
      BY <1>3 DEF NamesPlaced
    <3> QED
      BY <1>1, <3>1 DEF StringsStay
  <2> SUFFICES ASSUME NEW k \in DOMAIN maps PROVE Contents(k)'
    BY <1>1 DEF AllContents
  <2>2. \A b \in BucketsOf(k) : buckets'[b].used = buckets[b].used /\ Stays(b, buckets[b].used)
    BY <1>1 DEF Stays
  <2>3. Contents(k) /\ MapStays(k) /\ inserted'[k] = inserted[k]
    BY <1>1, <1>3 DEF AllContents, MapStays
  <2> QED
    BY <2>1, <2>2, <2>3, ContentsStay
<1>6. Counted'
  BY <1>1, <1>3, CountsStay
<1> QED
  BY <1>1, <1>4, <1>5, <1>6 DEF DirectoryState

(* Every step keeps the state of the directories. *)
LEMMA DirectoryStep ==
    ASSUME DirectoryInv, [NextMemory]_<<which, allVars, pagerVars, directoryVars>>
    PROVE  DirectoryInv'
<1>1. CASE UNCHANGED directoryVars
  BY <1>1, DirectoryStutters
<1>2. CASE D!Next
  <2> SUFFICES ASSUME D!Going' PROVE DirectoryState'
    BY DEF DirectoryInv
  <2>1. running' = "yes"
    BY DEF D!Going
  <2>2. ASSUME D!Runs PROVE DirectoryState
    BY <2>2 DEF DirectoryInv, D!Going, D!Runs
  <2>3. ASSUME NEW count \in MapSizes, D!AllocateHashmap(count) PROVE DirectoryState'
    <3>1. DirectoryState
      BY <2>2, <2>3 DEF D!AllocateHashmap
    <3> QED
      BY <2>3, <3>1, AllocateHashmapKeeps
  <2>4. ASSUME NEW m \in 1..MaxMaps, NEW name \in Names, D!InsertLong(m, name)
        PROVE  DirectoryState'
    BY <2>1, <2>4 DEF D!InsertLong
  <2>5. ASSUME NEW m \in 1..MaxMaps, NEW name \in Names, NEW link \in Links,
               D!InsertThere(m, name, link)
        PROVE  DirectoryState'
    <3>1. DirectoryState
      BY <2>2, <2>5 DEF D!InsertThere
    <3> QED
      BY <2>5, <3>1, InsertThereKeeps
  <2>6. ASSUME NEW m \in 1..MaxMaps, NEW name \in Names, NEW link \in Links,
               D!InsertGrowing(m, name, link)
        PROVE  DirectoryState'
    <3>1. DirectoryState
      BY <2>2, <2>6 DEF D!InsertGrowing
    <3> QED
      BY <2>6, <3>1, InsertGrowingKeeps
  <2> QED
    BY <1>2, <2>3, <2>4, <2>5, <2>6 DEF D!Next
<1> QED
  BY <1>1, <1>2 DEF NextMemory

(* The invariant holds throughout. *)
LEMMA DirectoryInvariant == SpecMemory => []DirectoryInv
<1>1. DirectoryInv /\ [NextMemory]_<<which, allVars, pagerVars, directoryVars>> => DirectoryInv'
  BY DirectoryStep
<1> QED
  BY <1>1, DirectoryStarts, PTL DEF SpecMemory

-----------------------------------------------------------------------------
(* What lookup goes through is the bucket of the name. *)
LEMMA EntriesOfIs ==
    ASSUME MapsPlaced, NEW m \in DOMAIN maps, NEW i \in Int
    PROVE  LET b == maps[m].offset + i IN
           /\ DOMAIN D!EntriesOf(m, i) = 1..buckets[b].used
           /\ \A j \in 1..buckets[b].used : D!EntriesOf(m, i)[j] = EntryOf(b, j)
  BY DEF D!EntriesOf, EntryOf

(* In a state of the invariant every name that was entered is found. *)
LEMMA StateFinds ==
    ASSUME DirectoryState, NEW m \in DOMAIN maps, NEW i \in DOMAIN inserted[m]
    PROVE  D!Found(m, inserted[m][i][1]) = {inserted[m][i][2]}
<1> DEFINE p == inserted[m][i]
           name == p[1]
           b == D!BucketOf(maps[m], name)
           off == maps[m].offset
           bucket == D!EntriesOf(m, b - off)
<1>1. MapsPlaced /\ NamesPlaced /\ Contents(m)
  BY DEF DirectoryState, AllContents
<1>2. p \in Names \X Links
  <2>1. inserted \in Seq(Seq(Names \X Links)) /\ DOMAIN inserted = DOMAIN maps
    <3>1. DOMAIN inserted = 1..Len(inserted) /\ DOMAIN maps = 1..Len(maps)
      BY <1>1 DEF NamesPlaced, MapsPlaced
    <3> QED
      BY <1>1, <3>1 DEF NamesPlaced
  <2>2. inserted[m] \in Seq(Names \X Links)
    BY <2>1
  <2> QED
    BY <2>2
<1>3. name \in Names /\ p = <<p[1], p[2]>>
  BY <1>2
<1>4. p \in Entered(m)
  BY DEF Entered
<1>5. PICK j \in 1..buckets[b].used : PairOf(b, j) = p
  BY <1>1, <1>4 DEF Contents
<1>6. NameOf(b, j) = name /\ EntryOf(b, j).link = p[2]
  BY <1>5 DEF PairOf
<1>7. b \in BucketsOf(m) /\ off \in Nat
  BY <1>1, <1>3, BucketOfIs, BucketsApart
<1>8. b \in Int /\ b - off \in Int /\ off + (b - off) = b
  BY <1>7, BucketsApart, <1>1 DEF BucketsOf
<1>9. /\ DOMAIN bucket = 1..buckets[b].used
      /\ \A k \in 1..buckets[b].used : bucket[k] = EntryOf(b, k)
  <2> DEFINE d == b - off
  <2>1. d \in Int /\ maps[m].offset + d = b
    BY <1>8
  <2> HIDE DEF d
  <2>2. LET c == maps[m].offset + d IN
        /\ DOMAIN D!EntriesOf(m, d) = 1..buckets[c].used
        /\ \A k \in 1..buckets[c].used : D!EntriesOf(m, d)[k] = EntryOf(c, k)
    BY <1>1, <2>1, EntriesOfIs
  <2>3. /\ DOMAIN D!EntriesOf(m, d) = 1..buckets[b].used
        /\ \A k \in 1..buckets[b].used : D!EntriesOf(m, d)[k] = EntryOf(b, k)
    BY <2>1, <2>2
  <2> QED
    BY <2>3 DEF d
<1>10. D!Found(m, name) = {bucket[k].link : k \in {k \in DOMAIN bucket :
                              /\ D!AsString(bucket[k].string) = name
                              /\ \A l \in 1..(k - 1) : D!AsString(bucket[l].string) # name}}
  BY DEF D!Found
<1> HIDE DEF bucket, b, name, off
<1>11. \A k \in 1..buckets[b].used : D!AsString(bucket[k].string) = name <=> k = j
  <2> SUFFICES ASSUME NEW k \in 1..buckets[b].used
               PROVE  D!AsString(bucket[k].string) = name <=> k = j
    OBVIOUS
  <2>1. D!AsString(bucket[k].string) = NameOf(b, k)
    BY <1>9 DEF NameOf
  <2>2. NameOf(b, k) = NameOf(b, j) => k = j
    BY <1>1, <1>7 DEF Contents
  <2> QED
    BY <1>6, <2>1, <2>2
<1>12. \A l \in 1..(j - 1) : l \in 1..buckets[b].used /\ l # j
  <2>1. b \in 1..NBuckets
    BY <1>1, <1>7, BucketsApart
  <2>2. buckets[b] \in Bucket
    BY <2>1 DEF DirectoryState, BucketsPlaced
  <2>3. buckets[b].used \in Nat
    BY <2>2 DEF Bucket
  <2> QED
    BY <2>3
<1>13. {k \in DOMAIN bucket : /\ D!AsString(bucket[k].string) = name
                              /\ \A l \in 1..(k - 1) : D!AsString(bucket[l].string) # name} = {j}
  BY <1>9, <1>11, <1>12
<1>14. bucket[j].link = p[2]
  BY <1>6, <1>9
<1>15. D!Found(m, name) = {p[2]}
  BY <1>10, <1>13, <1>14
<1> QED
  BY <1>15 DEF name

(* In a state of the invariant no name is listed twice. *)
LEMMA StateLists ==
    ASSUME DirectoryState, NEW m \in DOMAIN maps
    PROVE  /\ \A p, q \in D!Listed(m) : D!NameAt(m, p) = D!NameAt(m, q) => p = q
           /\ {D!NameAt(m, p) : p \in D!Listed(m)} = {x[1] : x \in D!ToSet(inserted[m])}
<1> DEFINE off == maps[m].offset
<1>1. MapsPlaced /\ NamesPlaced /\ Contents(m)
  BY DEF DirectoryState, AllContents
<1>2. off \in Nat /\ maps[m].count \in Nat /\ BucketsOf(m) = (off + 1)..(off + maps[m].count)
  BY <1>1, BucketsApart DEF BucketsOf
<1>3. \A p \in D!Listed(m) : /\ p = <<p[1], p[2]>> /\ p[1] \in 1..maps[m].count
                             /\ p[2] \in 1..buckets[off + p[1]].used
  BY DEF D!Listed
<1>4. \A i \in 1..maps[m].count : \A j \in 1..buckets[off + i].used : <<i, j>> \in D!Listed(m)
  BY DEF D!Listed
<1>5. \A p \in D!Listed(m) : off + p[1] \in BucketsOf(m)
  BY <1>2, <1>3
<1>6. \A i \in 1..maps[m].count : \A j \in 1..buckets[off + i].used :
         D!NameAt(m, <<i, j>>) = NameOf(off + i, j)
  <2> SUFFICES ASSUME NEW i \in 1..maps[m].count, NEW j \in 1..buckets[off + i].used
               PROVE  D!NameAt(m, <<i, j>>) = NameOf(off + i, j)
    OBVIOUS
  <2>1. D!EntriesOf(m, i)[j] = EntryOf(off + i, j)
    BY DEF D!EntriesOf, EntryOf
  <2>2. D!NameAt(m, <<i, j>>) = D!AsString(D!EntriesOf(m, i)[j].string)
    BY DEF D!NameAt
  <2> QED
    BY <2>1, <2>2 DEF NameOf
<1>7. \A p \in D!Listed(m) : D!NameAt(m, p) = NameOf(off + p[1], p[2])
  BY <1>3, <1>6
<1> HIDE DEF off
<1>8. ASSUME NEW p \in D!Listed(m), NEW q \in D!Listed(m), D!NameAt(m, p) = D!NameAt(m, q)
      PROVE  p = q
  <2>1. /\ D!BucketOf(maps[m], NameOf(off + p[1], p[2])) = off + p[1]
        /\ D!BucketOf(maps[m], NameOf(off + q[1], q[2])) = off + q[1]
    BY <1>1, <1>3, <1>5 DEF Contents
  <2>2. NameOf(off + p[1], p[2]) = NameOf(off + q[1], q[2])
    BY <1>7, <1>8
  <2>3. off + p[1] = off + q[1]
    BY <2>1, <2>2
  <2>4. p[1] = q[1]
    BY <1>2, <1>3, <2>3
  <2>5. p[2] = q[2]
    BY <1>1, <1>3, <1>5, <2>2, <2>4 DEF Contents
  <2> QED
    BY <1>3, <2>4, <2>5
<1>9. D!ToSet(inserted[m]) = Entered(m)
  BY DEF D!ToSet, Entered
<1>10. ASSUME NEW p \in D!Listed(m) PROVE \E x \in Entered(m) : x[1] = D!NameAt(m, p)
  <2>1. PairOf(off + p[1], p[2]) \in Entered(m)
    BY <1>1, <1>3, <1>5 DEF Contents
  <2>2. PairOf(off + p[1], p[2])[1] = NameOf(off + p[1], p[2])
    BY DEF PairOf
  <2> QED
    BY <1>7, <2>1, <2>2
<1>11. ASSUME NEW x \in Entered(m) PROVE \E p \in D!Listed(m) : D!NameAt(m, p) = x[1]
  <2>1. PICK b \in BucketsOf(m) : \E j \in 1..buckets[b].used : PairOf(b, j) = x
    BY <1>1 DEF Contents
  <2>2. PICK j \in 1..buckets[b].used : PairOf(b, j) = x
    BY <2>1
  <2>3. NameOf(b, j) = x[1]
    BY <2>2 DEF PairOf
  <2>4. b - off \in 1..maps[m].count /\ off + (b - off) = b
    BY <1>2
  <2> DEFINE i == b - off
  <2> HIDE DEF i
  <2>5. i \in 1..maps[m].count /\ off + i = b
    BY <2>4 DEF i
  <2>6. <<i, j>> \in D!Listed(m) /\ D!NameAt(m, <<i, j>>) = NameOf(b, j)
    <3>1. j \in 1..buckets[off + i].used
      BY <2>5
    <3> QED
      BY <1>4, <1>6, <2>5, <3>1 DEF off
  <2> QED
    BY <2>3, <2>6
<1> QED
  BY <1>8, <1>9, <1>10, <1>11

(***************************************************************************)
(* The theorems.                                                           *)
(***************************************************************************)
(* lookup finds every name that was entered with its link, and for_each    *)
(* lists it once and no other, whatever buckets have grown since.          *)
THEOREM NamesKept == SpecMemory => []DirectoryNamesKept
<1>1. DirectoryInv => DirectoryNamesKept
  <2> SUFFICES ASSUME DirectoryInv, D!Going PROVE D!LookupFinds /\ D!ListedOnce
    BY DEF DirectoryNamesKept, D!LookupFinds, D!ListedOnce
  <2>1. DirectoryState
    BY DEF DirectoryInv
  <2>2. D!LookupFinds
    BY <2>1, StateFinds DEF D!LookupFinds
  <2>3. D!ListedOnce
    BY <2>1, StateLists DEF D!ListedOnce
  <2> QED
    BY <2>2, <2>3
<1> QED
  BY <1>1, DirectoryInvariant, PTL

(* num_entries_used is the number of slots the buckets of a map have. *)
THEOREM SlotsCounted == SpecMemory => []DirectorySlotsCounted
<1>1. DirectoryInv => DirectorySlotsCounted
  BY DEF DirectorySlotsCounted, DirectoryInv, DirectoryState, Counted, D!SlotsCounted
<1> QED
  BY <1>1, DirectoryInvariant, PTL

-----------------------------------------------------------------------------
(* The pagers.  PagerProofs is about one specification, SpecMemory chooses *)
(* among three parts: here the operators of the pager in MCMemory (P) are  *)
(* shown to be those the theorems of PagerProofs (PP) are about, from the  *)
(* tables upwards.                                                         *)
PP == INSTANCE PagerProofs

(* Tables, and what an operation starts from. *)
LEMMA SameTables ==
    /\ P!Pagers = PP!Pagers /\ P!Idx = PP!Idx /\ P!Zero = PP!Zero
    /\ P!ZeroTable = PP!ZeroTable /\ P!Indices = PP!Indices /\ P!MapLarge = PP!MapLarge
    /\ P!State = PP!State
  BY DEF P!Pagers, PP!Pagers, P!Idx, PP!Idx, P!Zero, PP!Zero, P!ZeroTable, PP!ZeroTable,
         P!Indices, PP!Indices, P!Virtual, PP!Virtual, P!MapLarge, PP!MapLarge, P!State, PP!State

(* The page that is taken next. *)
LEMMA SameAllocation ==
    /\ \A st : P!FreeFrames(st) = PP!FreeFrames(st)
    /\ \A st : P!LowestFree(st) = PP!LowestFree(st)
    /\ \A st, e : P!Fail(st, e) = PP!Fail(st, e)
  BY DEF P!FreeFrames, PP!FreeFrames, P!LowestFree, PP!LowestFree, P!Fail, PP!Fail

(* The pages that are accounted for. *)
LEMMA SameExact == P!TablesExact <=> PP!TablesExact
  BY DEF P!TablesExact, PP!TablesExact, P!Roots, PP!Roots, P!Pagers, PP!Pagers, P!Tables,
         PP!Tables, P!TableEntries, PP!TableEntries, P!Idx, PP!Idx, P!Zero, PP!Zero

(* The pagers start empty. *)
LEMMA PagerStarts == InitMemory => PP!Init
  BY DEF InitMemory, P!Init, PP!Init, P!Pagers, PP!Pagers, P!Idx, PP!Idx, P!Zero, PP!Zero,
         P!ZeroTable, PP!ZeroTable

(* Indices, pointers and flags. *)
LEMMA SameHelpers ==
    /\ \A v : P!Translate(v) = PP!Translate(v)
    /\ \A m, root, a : P!PdOf(m, root, a) = PP!PdOf(m, root, a)
    /\ \A m, root, a : P!CreatesPd(m, root, a) = PP!CreatesPd(m, root, a)
    /\ \A flags : P!LeafFlags(flags) = PP!LeafFlags(flags)
    /\ \A flags, b : P!Toggle(flags, b) = PP!Toggle(flags, b)
  BY SameTables DEF P!Translate, PP!Translate, P!PdOf, PP!PdOf, P!CreatesPd, PP!CreatesPd,
              P!LeafFlags, PP!LeafFlags, P!Toggle, PP!Toggle

(* A new table. *)
LEMMA SameTable ==
    /\ \A st, t, i, c, flags : P!AllocateTable(st, t, i, c, flags) = PP!AllocateTable(st, t, i, c, flags)
  BY DEF P!AllocateTable, PP!AllocateTable, P!FreeFrames, PP!FreeFrames, P!LowestFree,
         PP!LowestFree, P!Fail, PP!Fail

(* allocate_if_necessary. *)
LEMMA SameIfNecessary ==
    /\ \A st, t, i, flags : P!AllocateIfNecessary(st, t, i, flags) = PP!AllocateIfNecessary(st, t, i, flags)
  BY DEF P!AllocateIfNecessary, PP!AllocateIfNecessary, P!AllocateTable, PP!AllocateTable,
         P!FreeFrames, PP!FreeFrames, P!LowestFree, PP!LowestFree, P!Fail, PP!Fail, P!Idx,
         PP!Idx, P!Zero, PP!Zero, P!ZeroTable, PP!ZeroTable

(* unfold. *)
LEMMA SameUnfold ==
     \A st, t, i : P!Unfold(st, t, i) = PP!Unfold(st, t, i)
  BY DEF P!Unfold, PP!Unfold, P!AllocateTable, PP!AllocateTable, P!FreeFrames,
         PP!FreeFrames, P!LowestFree, PP!LowestFree, P!Fail, PP!Fail, P!Idx, PP!Idx,
         P!Zero, PP!Zero, P!ZeroTable, PP!ZeroTable

(* deallocate. *)
LEMMA SameDeallocate ==
     \A st, t, i : P!Deallocate(st, t, i) = PP!Deallocate(st, t, i)
  BY DEF P!Deallocate, PP!Deallocate, P!Toggle, PP!Toggle, P!Fail, PP!Fail

(* One level of the way down. *)
LEMMA SameDescend ==
    \A st, t, i, flags : P!Descend(st, t, i, flags) = PP!Descend(st, t, i, flags)
<1> TAKE st, t, i, flags
<1>1. P!AllocateIfNecessary(st, t, i, flags) = PP!AllocateIfNecessary(st, t, i, flags)
  BY SameIfNecessary
<1> QED
  BY <1>1 DEF P!Descend, PP!Descend

(* get_pd_allocated. *)
LEMMA SameGetPd ==
    \A st, root, a, flags : P!GetPdAllocated(st, root, a, flags) = PP!GetPdAllocated(st, root, a, flags)
<1> TAKE st, root, a, flags
<1>1. P!Descend(st, root, a.pdp, flags) = PP!Descend(st, root, a.pdp, flags)
  BY SameDescend
<1> DEFINE s == PP!Descend(st, root, a.pdp, flags)
<1>2. P!Descend(s, s.mem[root][a.pdp].addr, a.pd, flags) = PP!Descend(s, s.mem[root][a.pdp].addr, a.pd, flags)
  BY SameDescend
<1> QED
  BY <1>1, <1>2 DEF P!GetPdAllocated, PP!GetPdAllocated, P!Fail, PP!Fail

(* page_4_kb. *)
LEMMA SamePage4K ==
    \A st, root, v, p, flags : P!Page4K(st, root, v, p, flags) = PP!Page4K(st, root, v, p, flags)
<1> TAKE st, root, v, p, flags
<1> DEFINE a == PP!Translate(v)
           upper == flags \ {"PAT"}
           s == PP!GetPdAllocated(st, root, a, upper)
           pd == PP!PdOf(s.mem, root, a)
<1>1. P!Translate(v) = a
  BY SameHelpers
<1>2. P!GetPdAllocated(st, root, a, upper) = s
  BY SameGetPd
<1>3. P!PdOf(s.mem, root, a) = pd
  BY SameHelpers
<1>4. P!Unfold(s, pd, a.pt) = PP!Unfold(s, pd, a.pt)
  BY SameUnfold
<1>5. P!AllocateIfNecessary(s, pd, a.pt, upper) = PP!AllocateIfNecessary(s, pd, a.pt, upper)
  BY SameIfNecessary
<1>6. P!LeafFlags(flags) = PP!LeafFlags(flags)
  BY SameHelpers
<1> QED
  BY <1>1, <1>2, <1>3, <1>4, <1>5, <1>6 DEF P!Page4K, PP!Page4K, P!Fail, PP!Fail

(* The store of a large page. *)
LEMMA SameSetLarge ==
    \A s, pd, i, p, flags : P!SetLarge(s, pd, i, p, flags) = PP!SetLarge(s, pd, i, p, flags)
<1> TAKE s, pd, i, p, flags
<1>1. P!Deallocate(s, pd, i) = PP!Deallocate(s, pd, i)
  BY SameDeallocate
<1> QED
  BY <1>1 DEF P!SetLarge, PP!SetLarge, P!Toggle, PP!Toggle

(* page_2_mb. *)
LEMMA SamePage2M ==
    \A st, root, v, p, flags : P!Page2M(st, root, v, p, flags) = PP!Page2M(st, root, v, p, flags)
  BY SameSetLarge, SameGetPd, SameHelpers, SameAllocation DEF P!Page2M, PP!Page2M

(* unpage_4_kb. *)
LEMMA SameUnpage ==
    \A st, root, v : P!Unpage4K(st, root, v) = PP!Unpage4K(st, root, v)
<1> TAKE st, root, v
<1>1. P!Translate(v) = PP!Translate(v)
  BY SameHelpers
<1> QED
  BY <1>1 DEF P!Unpage4K, PP!Unpage4K, P!Fail, PP!Fail, P!Zero, PP!Zero

(* What an operation leaves in memory. *)
LEMMA SameApply == \A st : P!Apply(st) <=> PP!Apply(st)
  BY SameTables DEF P!Apply, PP!Apply

(* The pt of an address. *)
LEMMA SamePtOf == \A m, root, v : P!PtOf(m, root, v) = PP!PtOf(m, root, v)
  BY SameHelpers DEF P!PtOf, PP!PtOf

(* So a step of the one is a step of the other, where there are no guests. *)
LEMMA SameNext == Guests = {} /\ P!Next => PP!Next
<1>1. \A x : P!New(x) => PP!New(x)
  BY SameTables, SameAllocation DEF P!New, PP!New
<1>2. \A x, v, p, flags : P!DoPage4K(x, v, p, flags) => PP!DoPage4K(x, v, p, flags)
  BY SameTables, SamePage4K, SameApply DEF P!DoPage4K, PP!DoPage4K
<1>3. \A x, v, p, flags : P!DoPage2M(x, v, p, flags) => PP!DoPage2M(x, v, p, flags)
  BY SameTables, SamePage2M, SameApply, SamePtOf DEF P!DoPage2M, PP!DoPage2M
<1>4. \A x, v : P!DoUnpage4K(x, v) => PP!DoUnpage4K(x, v)
  BY SameTables, SameUnpage, SameApply DEF P!DoUnpage4K, PP!DoUnpage4K
<1> QED
  BY <1>1, <1>2, <1>3, <1>4, SameTables DEF P!Next, PP!Next

(* No page is lost: what the allocator has given away is what the pagers   *)
(* reach, also after a call of page_4_kb or page_2_mb that ran out of      *)
(* pages half way down.                                                    *)
THEOREM MemoryPagesKept == Guests = {} => (SpecMemory => []PagerTablesExact)
<1> SUFFICES ASSUME Guests = {} PROVE SpecMemory => []PagerTablesExact
  OBVIOUS
<1>1. InitMemory => PP!Init
  BY PagerStarts
<1>2. [NextMemory]_<<which, allVars, pagerVars, directoryVars>> => [PP!Next]_PP!vars
  BY SameNext DEF NextMemory, pagerVars, PP!vars
<1>3. PP!Spec => []PP!TablesExact
  BY PagersAssumption, PP!NoPageLost, PTL
<1>4. PP!TablesExact => PagerTablesExact
  BY SameExact DEF PagerTablesExact
<1> QED
  BY <1>1, <1>2, <1>3, <1>4, PTL DEF SpecMemory, PP!Spec

(* The walk of the tables. *)
LEMMA SameWalk ==
    \A m, root, v :
      /\ P!Present(m, root, v) <=> PP!Present(m, root, v)
      /\ P!IsLarge(m, root, v) <=> PP!IsLarge(m, root, v)
      /\ P!LeafOf(m, root, v) = PP!LeafOf(m, root, v)
<1> TAKE m, root, v
<1>1. P!Translate(v) = PP!Translate(v)
  BY SameHelpers
<1>2. P!PtOf(m, root, v) = PP!PtOf(m, root, v)
  BY SamePtOf
<1> QED
  BY <1>1, <1>2 DEF P!Present, PP!Present, P!IsLarge, PP!IsLarge, P!LeafOf, PP!LeafOf

(* Where it ends, before a step ... *)
LEMMA SamePhysical == \A x, v : P!PhysicalOf(x, v) = PP!PhysicalOf(x, v)
  BY SameWalk DEF P!PhysicalOf, PP!PhysicalOf

(* ... and after it. *)
LEMMA SamePhysicalNext == \A x, v : P!PhysicalOf(x, v)' = PP!PhysicalOf(x, v)'
  BY SameWalk DEF P!PhysicalOf, PP!PhysicalOf

(* The address spaces as the two describe them. *)
PMap == [x \in P!Pagers |-> [v \in P!Virtual |-> P!PhysicalOf(x, v)]]
PPMap == [x \in PP!Pagers |-> [v \in PP!Virtual |-> PP!PhysicalOf(x, v)]]

(* The address spaces before a step ... *)
LEMMA SameMap == PMap = PPMap
<1>1. PMap = [x \in PP!Pagers |-> [v \in PP!Virtual |-> P!PhysicalOf(x, v)]]
  BY DEF PMap, P!Virtual, PP!Virtual, P!Pagers, PP!Pagers
<1> QED
  BY <1>1, SamePhysical DEF PPMap

(* ... and after it. *)
LEMMA SameMapNext == PMap' = PPMap'
<1>1. PMap' = [x \in PP!Pagers |-> [v \in PP!Virtual |-> P!PhysicalOf(x, v)']]
  BY DEF PMap, P!Virtual, PP!Virtual, P!Pagers, PP!Pagers
<1>2. PPMap' = [x \in PP!Pagers |-> [v \in PP!Virtual |-> PP!PhysicalOf(x, v)']]
  BY DEF PPMap, P!Virtual, PP!Virtual, P!Pagers, PP!Pagers
<1> QED
  BY <1>1, <1>2, SamePhysicalNext

(* Nothing is mapped. *)
Empty(m) == m = [x \in PP!Pagers |-> [v \in PP!Virtual |-> -1]]

(* The abstract address spaces start empty. *)
LEMMA SameStart == PP!AS!Init => P!AS!Init
<1>1. PP!AS!Init => Empty(PPMap)
  BY DEF PP!AS!Init, Empty, PPMap, PP!AS!Unmapped
<1>2. Empty(PMap) => P!AS!Init
  BY DEF P!AS!Init, Empty, PMap, P!AS!Unmapped, P!Virtual, PP!Virtual, P!Pagers, PP!Pagers
<1> QED
  BY <1>1, <1>2, SameMap

(* A step of AddressSpace between two values of the map, in either's words. *)
SpaceStep(b, a) ==
  \E before \in {b}, after \in {a} : \E x \in PP!Pagers :
      /\ \A y \in PP!Pagers \ {x} : after[y] = before[y]
      /\ \/ PP!AS!Drop(after[x])
         \/ \E v \in PP!Virtual : \/ PP!AS!Map(before[x], after[x], v)
                             \/ PP!AS!Unmap(before[x], after[x], v)
                             \/ PP!AS!MapLarge(before[x], after[x], v)
         \/ \E y \in PP!Pagers, base \in PP!Virtual : PP!AS!Join(before[x], after[x], before[y], base)

PSpaceStep(b, a) ==
  \E before \in {b}, after \in {a} : \E x \in P!Pagers :
      /\ \A y \in P!Pagers \ {x} : after[y] = before[y]
      /\ \/ P!AS!Drop(after[x])
         \/ \E v \in P!Virtual : \/ P!AS!Map(before[x], after[x], v)
                             \/ P!AS!Unmap(before[x], after[x], v)
                             \/ P!AS!MapLarge(before[x], after[x], v)
         \/ \E y \in P!Pagers, base \in P!Virtual : P!AS!Join(before[x], after[x], before[y], base)

(* A step of the one set of address spaces is a step of the other. *)
LEMMA SameSpaceNext == PP!AS!Next => P!AS!Next
<1>1. PP!AS!Next => SpaceStep(PPMap, PPMap')
  BY Zenon DEF PP!AS!Next, SpaceStep, PPMap
<1>2. \A b, a : SpaceStep(b, a) => PSpaceStep(b, a)
  BY DEF SpaceStep, PSpaceStep, PP!AS!Unmapped, P!AS!Unmapped, P!Virtual, PP!Virtual, P!Pagers,
         PP!Pagers, P!AS!Map, PP!AS!Map, P!AS!Unmap, PP!AS!Unmap, P!AS!MapLarge,
         PP!AS!MapLarge, P!AS!Join, PP!AS!Join, P!AS!Drop, PP!AS!Drop, P!AS!SameOutside,
         PP!AS!SameOutside
<1>3. PSpaceStep(PMap, PMap') => P!AS!Next
  BY Zenon DEF P!AS!Next, PSpaceStep, PMap
<1> QED
  BY <1>1, <1>2, <1>3, SameMap, SameMapNext

(* The page tables are address spaces: a call changes where the walk of    *)
(* the pages it names ends and no other page of any pager.                 *)
THEOREM MemoryPagesAsAsked == Guests = {} => (SpecMemory => PagerImplementsAddressSpace)
<1> SUFFICES ASSUME Guests = {} PROVE SpecMemory => P!AS!Spec
  BY DEF PagerImplementsAddressSpace, P!ImplementsAddressSpace
<1>1. InitMemory => PP!Init
  BY PagerStarts
<1>2. [NextMemory]_<<which, allVars, pagerVars, directoryVars>> => [PP!Next]_PP!vars
  BY SameNext DEF NextMemory, pagerVars, PP!vars
<1>3. PP!Spec => PP!ImplementsAddressSpace
  BY PagersAssumption, PP!PagesAsAsked, PTL
<1>4. PP!AS!Init => P!AS!Init
  BY SameStart
<1>5. [PP!AS!Next]_PPMap => [P!AS!Next]_PMap
  BY SameSpaceNext, SameMap, SameMapNext
<1> QED
  BY <1>1, <1>2, <1>3, <1>4, <1>5, PTL DEF SpecMemory, PP!Spec, PP!ImplementsAddressSpace,
              P!AS!Spec, PP!AS!Spec, PMap, PPMap
=============================================================================
