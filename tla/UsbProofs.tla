----------------------------- MODULE UsbProofs ------------------------------
(***************************************************************************)
(* Proofs about the machine with one USB controller (MCUsb): the share of  *)
(* xHCI, carried over from XhciProofs, and EHCI with one high speed        *)
(* device.                                                                 *)
(*                                                                         *)
(* The invariant EhciState follows a control transfer from its chain of    *)
(* descriptors (Built) over the controller's work (Sent, Finished) to the  *)
(* handler's answer (Replied), and a poller from one armed descriptor to   *)
(* the other (Polling); it needs to know whose every structure is (Owned), *)
(* what the boot core will still do (Left, Within) and what a set cause    *)
(* says (Causes).  ScheduleState adds the two schedules to it.             *)
(***************************************************************************)
EXTENDS MCUsb, XhciProofs, SequenceTheorems, WellFoundedInduction

-----------------------------------------------------------------------------
(***************************************************************************)
(* Sequences that are put together from others.                            *)
(***************************************************************************)

(* A set of numbers has a least one. *)
LEMMA LeastNumber ==
    ASSUME NEW S, S \subseteq Nat, S # {}
    PROVE  \E n \in S : \A m \in S : n <= m
<1>1. PICK n \in S : \A m \in S : <<m, n>> \notin OpToRel(<, Nat)
  BY WFMin, NatLessThanWellFounded, Zenon
<1>2. ASSUME NEW m \in S PROVE ~(m < n)
  BY <1>1, <1>2, Zenon DEF OpToRel
<1> QED
  BY <1>2

(* FlattenSeq, part by part. *)
Flattens(f, seqs) ==
    f = [n \in 1..Len(seqs) |-> IF n = 1 THEN seqs[n] ELSE f[n - 1] \o seqs[n]]

FlattensUpto(k, f, seqs) ==
    /\ DOMAIN f = 1..k
    /\ \A n \in 1..k : f[n] = IF n = 1 THEN seqs[n] ELSE f[n - 1] \o seqs[n]

LEMMA FlattenExists ==
    ASSUME NEW seqs, Len(seqs) \in Nat
    PROVE  \E f : Flattens(f, seqs)
<1> DEFINE N == Len(seqs)
           Bad == {k \in 0..N : ~\E f : FlattensUpto(k, f, seqs)}
<1>1. N \in Nat
  OBVIOUS
<1> HIDE DEF N
<1>2. ASSUME Bad # {} PROVE FALSE
  <2>1. Bad \subseteq Nat
    BY <1>1
  <2>2. PICK k \in Bad : \A m \in Bad : k <= m
    BY <1>2, <2>1, LeastNumber
  <2>3. k \in 0..N /\ ~\E f : FlattensUpto(k, f, seqs)
    OBVIOUS
  <2>4. k # 0
    <3>1. FlattensUpto(0, [n \in 1..0 |-> <<>>], seqs)
      BY DEF FlattensUpto
    <3> QED
      BY <2>3, <3>1
  <2>5. k - 1 \in 0..N /\ ~(k <= k - 1) /\ k \in Nat
    BY <2>3, <2>4, <1>1
  <2>6. k - 1 \notin Bad
    BY <2>2, <2>5
  <2>7. PICK g : FlattensUpto(k - 1, g, seqs)
    BY <2>5, <2>6
  <2> DEFINE f == [n \in 1..k |-> IF n = k THEN IF k = 1 THEN seqs[1] ELSE g[k - 1] \o seqs[k]
                                  ELSE g[n]]
  <2>8. \A n \in 1..k : f[n] = IF n = 1 THEN seqs[n] ELSE f[n - 1] \o seqs[n]
    <3>1. ASSUME NEW n \in 1..k, n # k PROVE f[n] = IF n = 1 THEN seqs[n] ELSE f[n - 1] \o seqs[n]
      <4>1. n \in 1..(k - 1) /\ (n # 1 => n - 1 \in 1..(k - 1) /\ n - 1 # k /\ n - 1 \in 1..k)
        BY <3>1, <2>4, <2>5
      <4>2. g[n] = IF n = 1 THEN seqs[n] ELSE g[n - 1] \o seqs[n]
        BY <2>7, <4>1 DEF FlattensUpto
      <4> QED
        BY <4>1, <4>2, <3>1
    <3>2. f[k] = IF k = 1 THEN seqs[k] ELSE f[k - 1] \o seqs[k]
      <4>1. k \in 1..k /\ (k # 1 => k - 1 \in 1..k /\ k - 1 # k)
        BY <2>4, <2>5
      <4> QED
        BY <4>1
    <3> QED
      BY <3>1, <3>2
  <2>9. DOMAIN f = 1..k
    OBVIOUS
  <2> HIDE DEF f
  <2>10. FlattensUpto(k, f, seqs)
    BY <2>8, <2>9 DEF FlattensUpto
  <2> QED
    BY <2>3, <2>10
<1>3. N \in 0..N
  BY <1>1
<1>4. PICK f : FlattensUpto(N, f, seqs)
  BY <1>2, <1>3
<1>5. DOMAIN f = 1..N /\ \A n \in 1..N : f[n] = IF n = 1 THEN seqs[n] ELSE f[n - 1] \o seqs[n]
  BY <1>4 DEF FlattensUpto
<1> DEFINE h == [n \in 1..N |-> f[n]]
<1>6. \A n \in 1..N : h[n] = IF n = 1 THEN seqs[n] ELSE h[n - 1] \o seqs[n]
  <2> SUFFICES ASSUME NEW n \in 1..N PROVE h[n] = IF n = 1 THEN seqs[n] ELSE h[n - 1] \o seqs[n]
    OBVIOUS
  <2>1. n = 1 \/ n - 1 \in 1..N
    BY <1>1
  <2> QED
    BY <2>1, <1>5
<1>7. h = [n \in 1..N |-> IF n = 1 THEN seqs[n] ELSE h[n - 1] \o seqs[n]]
  <2>1. h = [n \in 1..N |-> h[n]]
    OBVIOUS
  <2> HIDE DEF h
  <2> QED
    BY <1>6, <2>1
<1> QED
  BY <1>7, Zenon DEF Flattens, N

(* A flattened sequence, if adding the k-th part leads from T[k - 1] to    *)
(* T[k].                                                                   *)
LEMMA FlattenIn ==
    ASSUME NEW seqs, Len(seqs) \in Nat, Len(seqs) # 0, NEW T,
           seqs[1] \in T[1],
           \A k \in 2..Len(seqs) : \A s \in T[k - 1] : s \o seqs[k] \in T[k]
    PROVE  FlattenSeq(seqs) \in T[Len(seqs)]
<1> DEFINE N == Len(seqs)
           f == CHOOSE g : Flattens(g, seqs)
<1>1. N \in Nat /\ N # 0 /\ N \in 1..N
  OBVIOUS
<1>2. FlattenSeq(seqs) = f[N]
  BY <1>1 DEF FlattenSeq, Flattens
<1>3. Flattens(f, seqs)
  BY FlattenExists, Zenon
<1> HIDE DEF f
<1>4. \A n \in 1..N : f[n] = IF n = 1 THEN seqs[n] ELSE f[n - 1] \o seqs[n]
  BY <1>3 DEF Flattens
<1> HIDE DEF N
<1> DEFINE Bad == {n \in 1..N : f[n] \notin T[n]}
<1>5. ASSUME Bad # {} PROVE FALSE
  <2>1. Bad \subseteq Nat
    BY <1>1
  <2>2. PICK n \in Bad : \A m \in Bad : n <= m
    BY <1>5, <2>1, LeastNumber
  <2>3. n \in 1..N /\ f[n] \notin T[n]
    OBVIOUS
  <2>4. n # 1
    BY <2>3, <1>4
  <2>5. n - 1 \in 1..N /\ ~(n <= n - 1) /\ n \in 2..N
    BY <2>3, <2>4, <1>1
  <2>6. f[n - 1] \in T[n - 1]
    BY <2>2, <2>5
  <2>7. f[n] = f[n - 1] \o seqs[n]
    BY <2>3, <2>4, <1>4
  <2> QED
    BY <2>3, <2>5, <2>6, <2>7 DEF N
<1> QED
  BY <1>1, <1>2, <1>5 DEF N

(* The same for parts that are all in one set. *)
LEMMA FlattenWithin ==
    ASSUME NEW seqs, Len(seqs) \in Nat, Len(seqs) # 0, NEW T,
           \A k \in 1..Len(seqs) : seqs[k] \in T,
           \A s, t \in T : s \o t \in T
    PROVE  FlattenSeq(seqs) \in T
<1> DEFINE F == [k \in 1..Len(seqs) |-> T]
<1>1. \A k \in 1..Len(seqs) : F[k] = T
  OBVIOUS
<1>2. 1 \in 1..Len(seqs) /\ Len(seqs) \in 1..Len(seqs)
      /\ \A k \in 2..Len(seqs) : k \in 1..Len(seqs) /\ k - 1 \in 1..Len(seqs)
  OBVIOUS
<1> HIDE DEF F
<1>3. seqs[1] \in F[1] /\ \A k \in 2..Len(seqs) : \A s \in F[k - 1] : s \o seqs[k] \in F[k]
  BY <1>1, <1>2
<1>4. FlattenSeq(seqs) \in F[Len(seqs)]
  BY <1>3, FlattenIn
<1> QED
  BY <1>1, <1>2, <1>4

(* Where an element of a concatenation comes from. *)
LEMMA Concatenated ==
    ASSUME NEW S, NEW s \in Seq(S), NEW t \in Seq(S)
    PROVE  /\ s \o t \in Seq(S) /\ Len(s \o t) = Len(s) + Len(t)
           /\ Len(s) \in Nat /\ Len(t) \in Nat
           /\ DOMAIN s = 1..Len(s) /\ DOMAIN t = 1..Len(t)
           /\ DOMAIN (s \o t) = 1..(Len(s) + Len(t))
           /\ \A i \in 1..Len(s) : (s \o t)[i] = s[i]
           /\ \A i \in 1..Len(t) : (s \o t)[Len(s) + i] = t[i]
           /\ \A i \in 1..(Len(s) + Len(t)) :
                i \in 1..Len(s) \/ (i - Len(s) \in 1..Len(t) /\ i = Len(s) + (i - Len(s)))
BY ConcatProperties

(* The rest of a sequence. *)
LEMMA RestOf ==
    ASSUME NEW S, NEW s \in Seq(S), NEW k \in Nat, k <= Len(s)
    PROVE  LET t == SubSeq(s, k + 1, Len(s)) IN
           /\ t \in Seq(S) /\ Len(t) = Len(s) - k
           /\ DOMAIN t = 1..(Len(s) - k)
           /\ \A i \in 1..(Len(s) - k) : t[i] = s[k + i] /\ k + i \in 1..Len(s)
<1> DEFINE n == Len(s)
           t == SubSeq(s, k + 1, n)
<1>1. n \in Nat /\ DOMAIN s = 1..n /\ k <= n /\ k + 1 \in Int
  OBVIOUS
<1>2. \A i \in (k + 1)..n : s[i] \in S
  OBVIOUS
<1> HIDE DEF n
<1>3. t \in Seq(S) /\ Len(t) = (IF k + 1 <= n THEN n - (k + 1) + 1 ELSE 0)
      /\ \A i \in 1..(n - (k + 1) + 1) : t[i] = s[(k + 1) + i - 1]
  BY <1>1, <1>2, SubSeqProperties
<1> HIDE DEF t
<1>4. n - (k + 1) + 1 = n - k /\ (k + 1 <= n \/ n - k = 0)
  BY <1>1
<1>5. Len(t) = n - k
  BY <1>3, <1>4
<1>6. \A i \in 1..(n - k) : (k + 1) + i - 1 = k + i /\ k + i \in 1..n
  BY <1>1
<1>7. DOMAIN t = 1..(n - k)
  BY <1>3, <1>5
<1> QED
  BY <1>3, <1>4, <1>5, <1>6, <1>7 DEF t, n

LEMMA TailIsRest ==
    ASSUME NEW S, NEW s \in Seq(S), s # <<>>
    PROVE  Tail(s) = SubSeq(s, 1 + 1, Len(s)) /\ 1 <= Len(s) /\ Len(s) \in Nat
OBVIOUS
-----------------------------------------------------------------------------
(***************************************************************************)
(* Scripts: what the boot core does for one port after the other.  A step  *)
(* is <<operation, port>>; a pair of brings says that the second operation *)
(* follows the first, for the same port, and comes in no other way.        *)
(***************************************************************************)
Distinct(s) == \A i, j \in DOMAIN s : s[i] = s[j] => i = j

Chained(s, brings) ==
    \A i \in DOMAIN s : \A x \in brings :
        /\ s[i][1] = x[1] => i + 1 \in DOMAIN s /\ s[i + 1] = <<x[2], s[i][2]>>
        /\ (i + 1 \in DOMAIN s /\ s[i + 1][1] = x[2]) => s[i] = <<x[1], s[i + 1][2]>>

(* The first step is brought by none. *)
Unbrought(s, brings) == 1 \in DOMAIN s => \A x \in brings : s[1][1] # x[2]

Block(X, brings) ==
    {s \in Seq(X) : Distinct(s) /\ Chained(s, brings) /\ Unbrought(s, brings)}

LEMMA BlocksJoin ==
    ASSUME NEW brings, NEW X, NEW Y, X \cap Y = {},
           NEW s \in Block(X, brings), NEW t \in Block(Y, brings)
    PROVE  s \o t \in Block(X \cup Y, brings)
<1> DEFINE b == s \o t
           m == Len(s)
           n == Len(t)
<1>1. s \in Seq(X) /\ t \in Seq(Y) /\ s \in Seq(X \cup Y) /\ t \in Seq(X \cup Y)
  BY DEF Block
<1>2. /\ b \in Seq(X \cup Y) /\ m \in Nat /\ n \in Nat
      /\ DOMAIN s = 1..m /\ DOMAIN t = 1..n /\ DOMAIN b = 1..(m + n)
      /\ \A i \in 1..m : b[i] = s[i]
      /\ \A i \in 1..n : b[m + i] = t[i]
      /\ \A i \in 1..(m + n) : i \in 1..m \/ (i - m \in 1..n /\ i = m + (i - m))
  BY <1>1, Concatenated
<1> HIDE DEF b, m, n
<1>3. /\ \A i \in 1..m : s[i] \in X
      /\ \A i \in 1..n : t[i] \in Y
  BY <1>1, <1>2
<1>4. ASSUME NEW i \in 1..(m + n)
      PROVE  \/ i \in 1..m /\ b[i] = s[i] /\ b[i] \in X
             \/ i - m \in 1..n /\ b[i] = t[i - m] /\ b[i] \in Y /\ i > m
  BY <1>2, <1>3
<1>5. Distinct(b)
  <2> SUFFICES ASSUME NEW i \in 1..(m + n), NEW j \in 1..(m + n), b[i] = b[j] PROVE i = j
    BY <1>2 DEF Distinct
  <2>1. CASE i \in 1..m /\ j \in 1..m
    BY <1>2, <2>1 DEF Distinct, Block
  <2>2. CASE i \notin 1..m /\ j \notin 1..m
    <3>1. i - m \in DOMAIN t /\ j - m \in DOMAIN t /\ t[i - m] = t[j - m]
      BY <1>2, <1>4, <2>2
    <3>2. i - m = j - m
      BY <3>1 DEF Distinct, Block
    <3> QED
      BY <1>2, <3>2
  <2>3. CASE i \in 1..m /\ j \notin 1..m
    <3>1. b[i] \in X
      BY <1>2, <1>3, <2>3
    <3>2. b[j] \in Y
      BY <1>4, <2>3
    <3> QED
      BY <3>1, <3>2
  <2>4. CASE i \notin 1..m /\ j \in 1..m
    <3>1. b[j] \in X
      BY <1>2, <1>3, <2>4
    <3>2. b[i] \in Y
      BY <1>4, <2>4
    <3> QED
      BY <3>1, <3>2
  <2> QED
    BY <2>1, <2>2, <2>3, <2>4
<1>6. Chained(b, brings)
  <2> SUFFICES ASSUME NEW i \in 1..(m + n), NEW x \in brings
               PROVE  /\ b[i][1] = x[1] => i + 1 \in 1..(m + n) /\ b[i + 1] = <<x[2], b[i][2]>>
                      /\ (i + 1 \in 1..(m + n) /\ b[i + 1][1] = x[2]) => b[i] = <<x[1], b[i + 1][2]>>
    BY <1>2 DEF Chained
  <2>1. CASE i \in 1..m
    <3>1. s[i][1] = x[1] => i + 1 \in 1..m /\ s[i + 1] = <<x[2], s[i][2]>>
      BY <1>2, <2>1 DEF Chained, Block
    <3>2. (i + 1 \in 1..m /\ s[i + 1][1] = x[2]) => s[i] = <<x[1], s[i + 1][2]>>
      BY <1>2, <2>1 DEF Chained, Block
    <3>3. ASSUME i + 1 \notin 1..m, i + 1 \in 1..(m + n)
          PROVE  b[i + 1][1] # x[2]
      <4>1. i = m /\ 1 \in 1..n /\ i + 1 = m + 1
        BY <1>2, <2>1, <3>3
      <4>2. b[i + 1] = t[1]
        BY <1>2, <4>1
      <4>3. t[1][1] # x[2]
        BY <1>2, <4>1 DEF Unbrought, Block
      <4> QED
        BY <4>2, <4>3
    <3>4. b[i] = s[i] /\ (i + 1 \in 1..m => b[i + 1] = s[i + 1] /\ i + 1 \in 1..(m + n))
      BY <1>2, <2>1
    <3> QED
      BY <3>1, <3>2, <3>3, <3>4
  <2>2. CASE i \notin 1..m
    <3>1. i - m \in 1..n /\ b[i] = t[i - m] /\ (i - m) + 1 = (i + 1) - m
      BY <1>2, <1>4, <2>2
    <3>2. /\ t[i - m][1] = x[1] =>
               (i - m) + 1 \in 1..n /\ t[(i - m) + 1] = <<x[2], t[i - m][2]>>
          /\ ((i - m) + 1 \in 1..n /\ t[(i - m) + 1][1] = x[2]) =>
               t[i - m] = <<x[1], t[(i - m) + 1][2]>>
      BY <1>2, <3>1 DEF Chained, Block
    <3>3. (i - m) + 1 \in 1..n <=> i + 1 \in 1..(m + n)
      BY <1>2, <3>1
    <3>4. i + 1 \in 1..(m + n) => b[i + 1] = t[(i - m) + 1]
      BY <1>2, <1>4, <3>1, <3>3
    <3> QED
      BY <3>1, <3>2, <3>3, <3>4
  <2> QED
    BY <2>1, <2>2
<1>7. Unbrought(b, brings)
  <2> SUFFICES ASSUME 1 \in 1..(m + n), NEW x \in brings PROVE b[1][1] # x[2]
    BY <1>2 DEF Unbrought
  <2>1. CASE 1 \in 1..m
    BY <1>2, <2>1 DEF Unbrought, Block
  <2>2. CASE 1 \notin 1..m
    <3>1. m = 0 /\ 1 \in 1..n /\ 1 - m = 1
      BY <1>2, <2>2
    <3>2. b[1] = t[1]
      BY <1>4, <2>2, <3>1
    <3> QED
      BY <1>2, <3>1, <3>2 DEF Unbrought, Block
  <2> QED
    BY <2>1, <2>2
<1> QED
  BY <1>2, <1>5, <1>6, <1>7 DEF Block, b

LEMMA EmptyBlock ==
    ASSUME NEW brings, NEW X
    PROVE  <<>> \in Block(X, brings)
BY DEF Block, Distinct, Chained, Unbrought

LEMMA BlockWithin ==
    ASSUME NEW brings, NEW X, NEW Y, X \subseteq Y, NEW s \in Block(X, brings)
    PROVE  s \in Block(Y, brings)
<1>1. s \in Seq(Y)
  BY DEF Block
<1> QED
  BY <1>1 DEF Block

(* One round after the other, each for a port of its own: the n-th for     *)
(* port n - c.                                                             *)
LEMMA RoundsBlock ==
    ASSUME NEW brings, NEW A, NEW c \in {0, 1}, NEW N \in Nat, N # 0,
           NEW rounds, Len(rounds) = N,
           \A k \in 1..N : rounds[k] \in Block(A \X {k - c}, brings)
    PROVE  FlattenSeq(rounds) \in Block(A \X ((1 - c)..(N - c)), brings)
<1> DEFINE T == [k \in 1..N |-> Block(A \X ((1 - c)..(k - c)), brings)]
<1>1. \A k \in 1..N : T[k] = Block(A \X ((1 - c)..(k - c)), brings)
  OBVIOUS
<1> HIDE DEF T
<1>2. 1 \in 1..N /\ N \in 1..N /\ \A k \in 2..N : k \in 1..N /\ k - 1 \in 1..N
  OBVIOUS
<1>3. rounds[1] \in T[1]
  <2>1. (1 - c)..(1 - c) = {1 - c}
    OBVIOUS
  <2>2. rounds[1] \in Block(A \X {1 - c}, brings)
    BY <1>2
  <2> QED
    BY <1>1, <1>2, <2>1, <2>2
<1>4. ASSUME NEW k \in 2..N, NEW s \in T[k - 1]
      PROVE  s \o rounds[k] \in T[k]
  <2> DEFINE P == (1 - c)..((k - 1) - c)
  <2>1. (1 - c)..(k - c) = P \cup {k - c} /\ P \cap {k - c} = {}
    OBVIOUS
  <2>2. s \in Block(A \X P, brings)
    BY <1>1, <1>2
  <2>3. rounds[k] \in Block(A \X {k - c}, brings)
    BY <1>2
  <2> HIDE DEF P
  <2>4. (A \X P) \cap (A \X {k - c}) = {} /\ (A \X P) \cup (A \X {k - c}) = A \X (P \cup {k - c})
    BY <2>1
  <2>5. s \o rounds[k] \in Block(A \X (P \cup {k - c}), brings)
    BY <2>2, <2>3, <2>4, BlocksJoin
  <2> QED
    BY <1>1, <1>2, <2>1, <2>5
<1>5. FlattenSeq(rounds) \in T[N]
  <2>1. Len(rounds) \in Nat /\ Len(rounds) # 0
    OBVIOUS
  <2>2. \A k \in 2..Len(rounds) : \A s \in T[k - 1] : s \o rounds[k] \in T[k]
    BY <1>4
  <2>3. FlattenSeq(rounds) \in T[Len(rounds)]
    BY <1>3, <2>1, <2>2, FlattenIn
  <2> QED
    BY <2>3
<1> QED
  BY <1>1, <1>2, <1>5

(* What is left of a script. *)
LEMMA RestOfScript ==
    ASSUME NEW X, NEW s \in Seq(X), NEW brings, Distinct(s), Chained(s, brings),
           NEW k \in Nat, k <= Len(s)
    PROVE  LET t == SubSeq(s, k + 1, Len(s)) IN
           t \in Seq(X) /\ Distinct(t) /\ Chained(t, brings)
<1> DEFINE t == SubSeq(s, k + 1, Len(s))
           n == Len(s)
<1>1. /\ t \in Seq(X) /\ DOMAIN t = 1..(n - k) /\ n \in Nat /\ DOMAIN s = 1..n
      /\ \A i \in 1..(n - k) : t[i] = s[k + i] /\ k + i \in 1..n
  BY RestOf
<1>2. k <= n
  OBVIOUS
<1> HIDE DEF t, n
<1>3. Distinct(t)
  <2> SUFFICES ASSUME NEW i \in 1..(n - k), NEW j \in 1..(n - k), t[i] = t[j] PROVE i = j
    BY <1>1 DEF Distinct
  <2>1. k + i = k + j
    BY <1>1 DEF Distinct
  <2> QED
    BY <1>1, <2>1
<1>4. Chained(t, brings)
  <2> SUFFICES ASSUME NEW i \in 1..(n - k), NEW x \in brings
               PROVE  /\ t[i][1] = x[1] => i + 1 \in 1..(n - k) /\ t[i + 1] = <<x[2], t[i][2]>>
                      /\ (i + 1 \in 1..(n - k) /\ t[i + 1][1] = x[2]) => t[i] = <<x[1], t[i + 1][2]>>
    BY <1>1 DEF Chained
  <2>1. /\ s[k + i][1] = x[1] => (k + i) + 1 \in 1..n /\ s[(k + i) + 1] = <<x[2], s[k + i][2]>>
        /\ ((k + i) + 1 \in 1..n /\ s[(k + i) + 1][1] = x[2]) =>
             s[k + i] = <<x[1], s[(k + i) + 1][2]>>
    BY <1>1 DEF Chained
  <2>2. (k + i) + 1 = k + (i + 1) /\ ((k + i) + 1 \in 1..n <=> i + 1 \in 1..(n - k))
    BY <1>1, <1>2
  <2> QED
    BY <1>1, <2>1, <2>2
<1> QED
  BY <1>1, <1>3, <1>4 DEF t
-----------------------------------------------------------------------------
(***************************************************************************)
(* EHCI, one high speed device.                                            *)
(***************************************************************************)

(* What the boot core does before another thing, for the same port.        *)
Brings == {<<"attach", "set_address">>, <<"config9", "set_configuration">>,
           <<"set_configuration", "config">>, <<"set_protocol", "poller">>}
Brought == {"set_address", "set_configuration", "config", "poller"}
ClosingOps == {"set_protocol", "poller"}
Ops == {"attach", "set_address", "ports", "device", "config9", "set_configuration", "config",
        "update", "set_protocol", "poller"}

High(p) == attached[p].speed = "high"

(* The records. *)
Known ==
    /\ devices \in [E!Ports -> [state : {"detached", "reset", "address"}, address : Nat,
                                setup : Nat]]
    /\ DOMAIN attached = E!Ports /\ DOMAIN bus = E!Ports
    /\ \A p \in E!Ports :
         /\ attached[p] = [speed |-> attached[p].speed, endpoints |-> attached[p].endpoints,
                           interval |-> attached[p].interval, on |-> attached[p].on]
         /\ bus[p] = [address |-> bus[p].address, request |-> bus[p].request,
                      reports |-> bus[p].reports]
    /\ \A q \in DOMAIN qh : qh[q] = [next |-> qh[q].next, current |-> qh[q].current]
    /\ \A t \in DOMAIN td : td[t] = [active |-> td[t].active, next |-> td[t].next,
                                     ioc |-> td[t].ioc, offset |-> td[t].offset]

(* Whose the structures are. *)
Owned ==
    /\ \A p, r \in E!Ports : High(p) /\ High(r) => p = r
    /\ \A q \in DOMAIN qh : \E p \in E!Ports : High(p) /\ q \in {E!ControlQh(p), E!PollQh(p)}
    /\ \A p \in E!Ports : devices[p].state # "detached" => E!ControlQh(p) \in DOMAIN qh
    /\ \A p \in E!Ports : E!PollQh(p) \in DOMAIN qh <=> p \in DOMAIN pollers
    /\ DOMAIN pollers \subseteq E!Ports
    /\ \A p \in DOMAIN pollers : High(p)
    /\ \A t \in DOMAIN td :
         \/ \E p \in E!Ports, i \in Nat : t = E!ControlTd(p, i)
         \/ \E p \in DOMAIN pollers, i \in {0, 1} : t = E!PollTd(p, i)

LastAtEnd(s) ==
    \A i, j \in DOMAIN s : i < j /\ s[i][1] \in ClosingOps => s[j][1] \in ClosingOps
BootSteps(s) ==
    /\ s \in Seq(Ops \X E!Ports)
    /\ Distinct(s) /\ Chained(s, Brings) /\ LastAtEnd(s)

(* What is left to do fits what has been made: qhs are the queue heads, ps *)
(* the ports with a poller.                                                *)
Left(s, qhs, ps) ==
    /\ BootSteps(s)
    /\ \A p \in E!Ports : E!ControlQh(p) \in qhs => \A i \in DOMAIN s : s[i] # <<"attach", p>>
    /\ ps # {} => \A i \in DOMAIN s : s[i][1] \in ClosingOps
    /\ \A p \in ps : \A i \in DOMAIN s : s[i] \notin {<<"set_protocol", p>>, <<"poller", p>>}
    /\ (s # <<>> /\ s[1][1] \in Brought) => E!ControlQh(s[1][2]) \in qhs

Within ==
    \/ step = "fill"
    \/ step \in {"stopping", "starting"} /\ ~E!Booted /\ E!Op = "update"
    \/ step \in {"link", "count", "store", "check", "await"} /\ ~E!Booted
       /\ E!Op \in E!Requests /\ E!ControlQh(E!Port) \in DOMAIN qh

Causes ==
    /\ usbint \subseteq {"int", "error", "port"}
    /\ isr \in {"idle", "scan", "clear", "ports"}
    /\ isr \in {"scan", "clear"} => usbint = {"int"}
    /\ isr = "ports" => usbint = {"port"}
    /\ step = "store" => isr = "idle"
    /\ "port" \in usbint => \A p \in E!Ports : High(p) => ~attached[p].on
    /\ {"int", "port"} \subseteq usbint => "error" \in usbint
    /\ "error" \in usbint => \E p \in E!Ports :
          ~attached[p].on /\ (E!Ready(E!ControlQh(p)) \/ E!Ready(E!PollQh(p)))
    /\ halted # "" => "error" \in usbint

Unmarked == "int" \in usbint => "error" \in usbint
Stopped(p) == E!ControlQh(p) \in DOMAIN qh => qh[E!ControlQh(p)].next = E!Stop
Unasked == interrupted = FALSE /\ queue = <<>> /\ inserted = 0 /\ preinserted = 0

Resting ==
    /\ step \in {"fill", "stopping", "starting"} /\ DOMAIN pollers = {}
    /\ Unasked /\ "int" \notin usbint
    /\ \A p \in E!Ports : Stopped(p)

Linked(p, c, n) ==
    \A j \in 0..n :
      /\ E!ControlTd(p, c + j) \in DOMAIN td
      /\ td[E!ControlTd(p, c + j)] =
            [active |-> TRUE, offset |-> 0, ioc |-> j = n,
             next |-> IF j = n THEN E!Stop ELSE E!ControlTd(p, c + j + 1)]

Built ==
    /\ step = "link" /\ DOMAIN pollers = {}
    /\ Unasked /\ "int" \notin usbint
    /\ \A p \in E!Ports : Stopped(p)
    /\ \E n \in 1..2 : Linked(E!Port, devices[E!Port].setup, n)

Requesting == step \in {"count", "store", "check", "await"} /\ DOMAIN pollers = {}
Unanswered ==
    /\ interrupted = FALSE /\ preinserted = 0 /\ inserted = Len(queue)
    /\ queue = CASE step = "count" -> <<>> [] step = "store" -> <<E!Null>>
                 [] OTHER -> <<E!ControlQh(E!Port)>>
Sent ==
    /\ Requesting /\ Unanswered /\ Unmarked
    /\ \E n \in 0..2, c \in Nat :
          /\ qh[E!ControlQh(E!Port)].next = E!ControlTd(E!Port, c)
          /\ Linked(E!Port, c, n)
Over == /\ qh[E!ControlQh(E!Port)].next = E!Stop
        /\ bus[E!Port].request = "none"
Finished ==
    /\ Requesting /\ Unanswered /\ Over
    /\ isr # "clear"
Replied ==
    /\ Requesting /\ Over
    /\ interrupted = TRUE /\ inserted = Len(queue)
    /\ "int" \in usbint => isr = "clear"
    /\ \/ step = "count" /\ preinserted = 1 /\ queue = <<>>
       \/ step = "store" /\ preinserted = 1 /\ queue = <<E!Null>>
       \/ step = "check" /\ preinserted = 1 /\ queue = <<E!ControlQh(E!Port)>>
       \/ step \in {"check", "await"} /\ preinserted = 0 /\ queue = <<>>

PollTds(p) ==
    /\ pollers[p] \in {0, 1}
    /\ \A i \in {0, 1} :
        /\ E!PollTd(p, i) \in DOMAIN td
        /\ td[E!PollTd(p, i)].next = E!Stop /\ td[E!PollTd(p, i)].ioc = TRUE
Armed(p) ==
    /\ isr = "clear" \/ Unmarked
    /\ isr # "scan"
    /\ qh[E!PollQh(p)].next = E!PollTd(p, pollers[p])
    /\ td[E!PollTd(p, pollers[p])].active = TRUE
    /\ \A i \in {0, 1} : td[E!PollTd(p, i)].offset = 0
Used(p) ==
    /\ isr # "clear"
    /\ qh[E!PollQh(p)] = [next |-> E!Stop, current |-> E!PollTd(p, pollers[p])]
    /\ td[E!PollTd(p, pollers[p])].active = FALSE
    /\ td[E!PollTd(p, pollers[p])].offset = 1
    /\ td[E!PollTd(p, 1 - pollers[p])].offset = 0
Polling ==
    /\ step = "fill" /\ DOMAIN pollers # {}
    /\ Unasked
    /\ \A p \in E!Ports : Stopped(p)
    /\ \A p \in DOMAIN pollers : PollTds(p) /\ (Armed(p) \/ Used(p))

Stages == Resting \/ Built \/ Sent \/ Finished \/ Replied \/ Polling

EhciState ==
    Known /\ Owned /\ Left(script, DOMAIN qh, DOMAIN pollers) /\ Within /\ Causes /\ Stages


-----------------------------------------------------------------------------
(* The script of the boot core.                                            *)

LEMMA SameFlatten == \A s : E!FlattenSeq(s) = FlattenSeq(s)
BY DEF E!FlattenSeq, FlattenSeq

(* The steps of a phase. *)
Phase(ops, c, A) ==
    /\ DOMAIN ops = 1..c
    /\ \A k \in E!Ports : [i \in 1..c |-> <<ops[i], k>>] \in Block(A \X {k}, Brings)

LEMMA PhaseIsBlock ==
    ASSUME NEW ops, NEW A, NEW c, Phase(ops, c, A)
    PROVE  E!ForEach(ops) \in Block(A \X E!Ports, Brings)
<1> DEFINE rounds == [p \in 1..NPorts |-> [i \in DOMAIN ops |-> <<ops[i], p - 1>>]]
<1>1. NPorts \in Nat /\ NPorts # 0 /\ Len(rounds) = NPorts
  BY UsbAssumption
<1>2. ASSUME NEW k \in 1..NPorts PROVE rounds[k] \in Block(A \X {k - 1}, Brings)
  <2>1. k - 1 \in E!Ports
    BY <1>1 DEF E!Ports
  <2>2. rounds[k] = [i \in 1..c |-> <<ops[i], k - 1>>]
    BY DEF Phase
  <2> QED
    BY <2>1, <2>2 DEF Phase
<1>3. (1 - 1)..(NPorts - 1) = E!Ports
  BY <1>1 DEF E!Ports
<1>4. E!ForEach(ops) = FlattenSeq(rounds)
  BY SameFlatten DEF E!ForEach
<1> HIDE DEF rounds
<1>5. FlattenSeq(rounds) \in Block(A \X ((1 - 1)..(NPorts - 1)), Brings)
  BY <1>1, <1>2, RoundsBlock
<1> QED
  BY <1>3, <1>4, <1>5

LEMMA OneStep ==
    ASSUME NEW a, a \in {"ports", "device", "update"}, NEW k
    PROVE  <<<<a, k>>>> \in Block({a} \X {k}, Brings)
BY DEF Block, Distinct, Chained, Unbrought, Brings
LEMMA AttachSteps ==
    ASSUME NEW k
    PROVE  <<<<"attach", k>>, <<"set_address", k>>>>
              \in Block({"attach", "set_address"} \X {k}, Brings)
BY DEF Block, Distinct, Chained, Unbrought, Brings
LEMMA ConfigSteps ==
    ASSUME NEW k
    PROVE  <<<<"config9", k>>, <<"set_configuration", k>>, <<"config", k>>>>
              \in Block({"config9", "set_configuration", "config"} \X {k}, Brings)
BY DEF Block, Distinct, Chained, Unbrought, Brings
LEMMA ClosingSteps ==
    ASSUME NEW k
    PROVE  <<<<"set_protocol", k>>, <<"poller", k>>>> \in Block(ClosingOps \X {k}, Brings)
BY DEF Block, Distinct, Chained, Unbrought, Brings, ClosingOps

LEMMA ScriptIs ==
    /\ BootSteps(E!Script)
    /\ E!Script # <<>> => E!Script[1][1] \notin Brought
<1> DEFINE A == FlattenSeq([p \in 1..NPorts |-> <<<<"attach", p - 1>>, <<"set_address", p - 1>>>>])
           S2 == A \o <<<<"ports", 0>>>>
           S3 == S2 \o E!ForEach(<<"device">>)
           S4 == S3 \o E!ForEach(<<"config9", "set_configuration", "config">>)
           S5 == S4 \o <<<<"update", 0>>>>
           F == E!ForEach(<<"set_protocol", "poller">>)
           P == E!Ports
           B(X) == Block(X \X P, Brings)
<1>1. E!Script = S5 \o F
  BY SameFlatten DEF E!Script
<1>2. NPorts \in Nat /\ NPorts # 0 /\ P = (1 - 1)..(NPorts - 1) /\ 0 \in P
  BY UsbAssumption DEF E!Ports
<1>3. A \in B({"attach", "set_address"})
  <2> DEFINE rounds == [p \in 1..NPorts |-> <<<<"attach", p - 1>>, <<"set_address", p - 1>>>>]
  <2>1. Len(rounds) = NPorts
    BY <1>2
  <2>2. \A k \in 1..NPorts : rounds[k] \in Block({"attach", "set_address"} \X {k - 1}, Brings)
    BY AttachSteps
  <2> HIDE DEF rounds
  <2>3. FlattenSeq(rounds) \in Block({"attach", "set_address"} \X ((1 - 1)..(NPorts - 1)), Brings)
    BY <1>2, <2>1, <2>2, RoundsBlock
  <2> QED
    BY <1>2, <2>3 DEF rounds
<1>4. \A a \in {"ports", "device", "update"} : \A k \in P : <<<<a, k>>>> \in B({a})
  <2> SUFFICES ASSUME NEW a \in {"ports", "device", "update"}, NEW k \in P
               PROVE  <<<<a, k>>>> \in B({a})
    OBVIOUS
  <2>1. {a} \X {k} \subseteq {a} \X P
    OBVIOUS
  <2>2. <<<<a, k>>>> \in Block({a} \X {k}, Brings)
    BY OneStep
  <2> QED
    BY <2>1, <2>2, BlockWithin
<1>5. E!ForEach(<<"device">>) \in B({"device"})
  <2>1. \A k \in P : [i \in 1..1 |-> <<<<"device">>[i], k>>] = <<<<"device", k>>>>
    OBVIOUS
  <2>2. \A k \in P : [i \in 1..1 |-> <<<<"device">>[i], k>>] \in Block({"device"} \X {k}, Brings)
    BY <2>1, OneStep
  <2>3. Phase(<<"device">>, 1, {"device"})
    BY <2>2 DEF Phase
  <2> QED
    BY <2>3, PhaseIsBlock
<1>6. E!ForEach(<<"config9", "set_configuration", "config">>)
        \in B({"config9", "set_configuration", "config"})
  <2> DEFINE o == <<"config9", "set_configuration", "config">>
  <2>1. \A k \in P : [i \in 1..3 |-> <<o[i], k>>]
            = <<<<"config9", k>>, <<"set_configuration", k>>, <<"config", k>>>>
    OBVIOUS
  <2>2. \A k \in P : [i \in 1..3 |-> <<o[i], k>>]
            \in Block({"config9", "set_configuration", "config"} \X {k}, Brings)
    BY <2>1, ConfigSteps
  <2>3. DOMAIN o = 1..3
    OBVIOUS
  <2> HIDE DEF o
  <2>4. Phase(o, 3, {"config9", "set_configuration", "config"})
    BY <2>2, <2>3 DEF Phase
  <2>5. E!ForEach(o) \in B({"config9", "set_configuration", "config"})
    BY <2>4, PhaseIsBlock
  <2> QED
    BY <2>5 DEF o
<1>7. F \in B(ClosingOps)
  <2> DEFINE o == <<"set_protocol", "poller">>
  <2>1. \A k \in P : [i \in 1..2 |-> <<o[i], k>>] = <<<<"set_protocol", k>>, <<"poller", k>>>>
    OBVIOUS
  <2>2. \A k \in P : [i \in 1..2 |-> <<o[i], k>>] \in Block(ClosingOps \X {k}, Brings)
    BY <2>1, ClosingSteps
  <2>3. DOMAIN o = 1..2
    OBVIOUS
  <2> HIDE DEF o
  <2>4. Phase(o, 2, ClosingOps)
    BY <2>2, <2>3 DEF Phase
  <2>5. E!ForEach(o) \in B(ClosingOps)
    BY <2>4, PhaseIsBlock
  <2> QED
    BY <2>5 DEF o
<1> HIDE DEF A, F
<1>8. ASSUME NEW X, NEW Y, X \cap Y = {}, NEW s \in B(X), NEW t \in B(Y)
      PROVE  s \o t \in B(X \cup Y)
  <2>1. (X \X P) \cap (Y \X P) = {} /\ (X \X P) \cup (Y \X P) = (X \cup Y) \X P
    BY <1>8
  <2>2. s \o t \in Block((X \X P) \cup (Y \X P), Brings)
    BY <2>1, BlocksJoin
  <2> QED
    BY <2>1, <2>2
<1> DEFINE X2 == {"attach", "set_address"} \cup {"ports"}
           X3 == X2 \cup {"device"}
           X4 == X3 \cup {"config9", "set_configuration", "config"}
           X5 == X4 \cup {"update"}
<1>9. S2 \in B(X2)
  <2>1. {"attach", "set_address"} \cap {"ports"} = {}
    OBVIOUS
  <2> QED
    BY <1>2, <1>3, <1>4, <1>8, <2>1
<1>10. S3 \in B(X3)
  <2>1. X2 \cap {"device"} = {}
    OBVIOUS
  <2> HIDE DEF X2, S2, B
  <2> QED
    BY <1>5, <1>8, <1>9, <2>1
<1>11. S4 \in B(X4)
  <2>1. X3 \cap {"config9", "set_configuration", "config"} = {}
    OBVIOUS
  <2> HIDE DEF X3, S3, B
  <2> QED
    BY <1>6, <1>8, <1>10, <2>1
<1>12. S5 \in B(X5)
  <2>1. X4 \cap {"update"} = {}
    OBVIOUS
  <2>2. <<<<"update", 0>>>> \in B({"update"})
    BY <1>2, <1>4
  <2> HIDE DEF X4, S4, B
  <2> QED
    BY <1>8, <1>11, <2>1, <2>2
<1>13. X5 \cap ClosingOps = {} /\ X5 \cup ClosingOps = Ops
  BY DEF ClosingOps, Ops
<1> HIDE DEF S5, X5
<1>14. S5 \o F \in B(Ops)
  <2> HIDE DEF B
  <2> QED
    BY <1>7, <1>8, <1>12, <1>13
<1>15. LastAtEnd(S5 \o F)
  <2>1. S5 \in Seq(X5 \X P) /\ F \in Seq(ClosingOps \X P)
    BY <1>7, <1>12 DEF Block
  <2>2. S5 \in Seq(Ops \X P) /\ F \in Seq(Ops \X P)
    BY <2>1, <1>13
  <2> DEFINE m == Len(S5)
             n == Len(F)
             s == S5 \o F
  <2>3. /\ m \in Nat /\ n \in Nat /\ DOMAIN S5 = 1..m /\ DOMAIN F = 1..n /\ DOMAIN s = 1..(m + n)
        /\ \A i \in 1..m : s[i] = S5[i]
        /\ \A i \in 1..n : s[m + i] = F[i]
        /\ \A i \in 1..(m + n) : i \in 1..m \/ (i - m \in 1..n /\ i = m + (i - m))
    BY <2>2, Concatenated
  <2>4. \A i \in 1..m : S5[i][1] \in X5
    BY <2>1, <2>3
  <2>5. \A i \in 1..n : F[i][1] \in ClosingOps
    BY <2>1, <2>3
  <2> HIDE DEF m, n, s
  <2>6. \A i \in 1..(m + n) : s[i][1] \in ClosingOps => i \notin 1..m
    BY <2>3, <2>4, <1>13
  <2>7. ASSUME NEW i \in 1..(m + n), i \notin 1..m PROVE s[i][1] \in ClosingOps
    <3>1. i - m \in 1..n /\ i = m + (i - m)
      BY <2>3, <2>7
    <3>2. s[i] = F[i - m]
      BY <2>3, <3>1
    <3> QED
      BY <2>5, <3>1, <3>2
  <2>8. ASSUME NEW i \in 1..(m + n), NEW j \in 1..(m + n), i < j, s[i][1] \in ClosingOps
        PROVE  s[j][1] \in ClosingOps
    <3>1. i \notin 1..m
      BY <2>6, <2>8
    <3>2. j \notin 1..m
      BY <2>3, <2>8, <3>1
    <3> QED
      BY <2>7, <3>2
  <2>9. LastAtEnd(s)
    BY <2>3, <2>8 DEF LastAtEnd
  <2> QED
    BY <2>9 DEF s
<1>16. E!Script # <<>> => E!Script[1][1] \notin Brought
  <2> SUFFICES ASSUME E!Script # <<>> PROVE E!Script[1][1] \notin Brought
    OBVIOUS
  <2>1. E!Script \in B(Ops)
    BY <1>1, <1>14
  <2>2. E!Script \in Seq(Ops \X P) /\ Unbrought(E!Script, Brings)
    BY <2>1 DEF Block
  <2>3. 1 \in DOMAIN E!Script
    BY <2>2
  <2> QED
    BY <2>2, <2>3 DEF Unbrought, Brings, Brought
<1> QED
  BY <1>1, <1>14, <1>15, <1>16 DEF Block, BootSteps

(* What is left after the first k steps. *)
LEMMA RestOfSteps ==
    ASSUME NEW s, BootSteps(s), NEW k \in 1..Len(s)
    PROVE  LET t == SubSeq(s, k + 1, Len(s)) IN
           /\ BootSteps(t) /\ DOMAIN t = 1..(Len(s) - k) /\ Len(s) \in Nat /\ DOMAIN s = 1..Len(s)
           /\ t # <<>> => 1 \in DOMAIN t
           /\ \A i \in DOMAIN t : k + i \in DOMAIN s /\ t[i] = s[k + i]
           /\ \A i \in DOMAIN t, j \in 1..k : t[i] # s[j]
           /\ (1 \in DOMAIN t /\ t[1][1] \in Brought) =>
                 \E x : <<x, t[1][1]>> \in Brings /\ s[k] = <<x, t[1][2]>>
<1> DEFINE n == Len(s)
           t == SubSeq(s, k + 1, n)
<1>1. s \in Seq(Ops \X E!Ports) /\ Distinct(s) /\ Chained(s, Brings) /\ LastAtEnd(s)
  BY DEF BootSteps
<1>2. k \in Nat /\ k <= Len(s) /\ Len(s) \in Nat /\ DOMAIN s = 1..Len(s)
  BY <1>1
<1>3. /\ t \in Seq(Ops \X E!Ports) /\ DOMAIN t = 1..(n - k)
      /\ \A i \in 1..(n - k) : t[i] = s[k + i] /\ k + i \in 1..n
  BY <1>1, <1>2, RestOf
<1>4. Distinct(t) /\ Chained(t, Brings)
  BY <1>1, <1>2, RestOfScript
<1> HIDE DEF t
<1>5. n \in Nat /\ k \in 1..n /\ DOMAIN s = 1..n
  BY <1>2
<1> HIDE DEF n
<1>6. LastAtEnd(t)
  <2> SUFFICES ASSUME NEW i \in 1..(n - k), NEW j \in 1..(n - k), i < j, t[i][1] \in ClosingOps
               PROVE  t[j][1] \in ClosingOps
    BY <1>3 DEF LastAtEnd
  <2>1. k + i \in DOMAIN s /\ k + j \in DOMAIN s /\ k + i < k + j
    BY <1>3, <1>5
  <2> QED
    BY <1>1, <1>3, <2>1 DEF LastAtEnd
<1>7. ASSUME NEW i \in 1..(n - k), NEW j \in 1..k, t[i] = s[j] PROVE FALSE
  <2>1. k + i \in DOMAIN s /\ j \in DOMAIN s /\ k + i # j
    BY <1>5
  <2> QED
    BY <1>1, <1>3, <1>7, <2>1 DEF Distinct
<1>8. ASSUME 1 \in DOMAIN t, t[1][1] \in Brought
      PROVE  \E x : <<x, t[1][1]>> \in Brings /\ s[k] = <<x, t[1][2]>>
  <2>1. k \in DOMAIN s /\ k + 1 \in DOMAIN s /\ t[1] = s[k + 1]
    BY <1>3, <1>5, <1>8
  <2>2. PICK x : <<x, t[1][1]>> \in Brings
    BY <1>8 DEF Brought, Brings
  <2>3. s[k] = <<x, s[k + 1][2]>>
    <3>1. s[k + 1][1] = <<x, t[1][1]>>[2]
      BY <2>1
    <3> QED
      BY <1>1, <2>1, <2>2, <3>1 DEF Chained
  <2> QED
    BY <2>1, <2>2, <2>3
<1>9. t # <<>> => 1 \in DOMAIN t
  <2>1. t \in Seq(Ops \X E!Ports)
    BY <1>3
  <2> QED
    BY <2>1
<1> QED
  BY <1>3, <1>4, <1>5, <1>6, <1>7, <1>8, <1>9 DEF BootSteps, t, n

(* The boot core goes on. *)
LEMMA LeftKept ==
    ASSUME NEW s, NEW qhs, NEW ps, Left(s, qhs, ps), NEW k \in 1..Len(s),
           NEW qhs2, NEW ps2, qhs \subseteq qhs2,
           \A p \in E!Ports : E!ControlQh(p) \in qhs2 \ qhs => s[1] = <<"attach", p>>,
           \A p \in ps2 \ ps : s[1] = <<"poller", p>>,
           s[k][1] \in {"attach", "config9", "set_configuration", "set_protocol"} =>
               E!ControlQh(s[k][2]) \in qhs2
    PROVE  Left(SubSeq(s, k + 1, Len(s)), qhs2, ps2)
<1> DEFINE t == SubSeq(s, k + 1, Len(s))
<1>1. BootSteps(s)
  BY DEF Left
<1>2. /\ BootSteps(t) /\ Len(s) \in Nat /\ DOMAIN s = 1..Len(s) /\ DOMAIN t = 1..(Len(s) - k)
      /\ t # <<>> => 1 \in DOMAIN t
      /\ \A i \in DOMAIN t : k + i \in DOMAIN s /\ t[i] = s[k + i]
      /\ \A i \in DOMAIN t, j \in 1..k : t[i] # s[j]
      /\ (1 \in DOMAIN t /\ t[1][1] \in Brought) =>
            \E x : <<x, t[1][1]>> \in Brings /\ s[k] = <<x, t[1][2]>>
  BY <1>1, RestOfSteps
<1> HIDE DEF t
<1>3. 1 \in 1..k /\ 1 \in DOMAIN s
  BY <1>2
<1>4. ASSUME NEW p \in E!Ports, E!ControlQh(p) \in qhs2, NEW i \in DOMAIN t
      PROVE  t[i] # <<"attach", p>>
  BY <1>2, <1>3, <1>4 DEF Left
<1>5. ASSUME NEW p \in ps2 \ ps, NEW i \in DOMAIN t
      PROVE  t[i] \notin {<<"set_protocol", p>>, <<"poller", p>>} /\ t[i][1] \in ClosingOps
  <2>1. s[1] = <<"poller", p>> /\ k + i \in DOMAIN s /\ t[i] = s[k + i] /\ 1 < k + i /\ i \in Nat
    BY <1>2, <1>5
  <2>2. t[i][1] \in ClosingOps
    BY <1>1, <1>3, <2>1 DEF BootSteps, LastAtEnd, ClosingOps
  <2>3. t[i] # <<"poller", p>>
    BY <1>2, <1>3, <2>1
  <2>4. ASSUME t[i] = <<"set_protocol", p>> PROVE FALSE
    <3>1. (k + i) + 1 \in DOMAIN s /\ s[(k + i) + 1] = <<"poller", p>>
      <4>1. <<"set_protocol", "poller">> \in Brings
        BY DEF Brings
      <4>2. Chained(s, Brings) /\ k + i \in DOMAIN s /\ s[k + i] = <<"set_protocol", p>>
        BY <1>1, <2>1, <2>4 DEF BootSteps
      <4>3. s[k + i][1] = <<"set_protocol", "poller">>[1] =>
              /\ (k + i) + 1 \in DOMAIN s
              /\ s[(k + i) + 1] = <<<<"set_protocol", "poller">>[2], s[k + i][2]>>
        BY <4>1, <4>2, Zenon DEF Chained
      <4> QED
        BY <4>2, <4>3
    <3>2. (k + i) + 1 # 1
      BY <1>2, <2>1
    <3> QED
      BY <1>1, <1>3, <2>1, <3>1, <3>2 DEF BootSteps, Distinct
  <2> QED
    BY <2>2, <2>3, <2>4
<1>6. ASSUME NEW p \in ps, NEW i \in DOMAIN t
      PROVE  t[i] \notin {<<"set_protocol", p>>, <<"poller", p>>} /\ t[i][1] \in ClosingOps
  BY <1>2, <1>6 DEF Left
<1>7. ASSUME t # <<>>, t[1][1] \in Brought PROVE E!ControlQh(t[1][2]) \in qhs2
  <2>1. PICK x : <<x, t[1][1]>> \in Brings /\ s[k] = <<x, t[1][2]>>
    BY <1>2, <1>7
  <2>2. x \in {"attach", "config9", "set_configuration", "set_protocol"}
    BY <2>1 DEF Brings
  <2>3. s[k][1] = x /\ s[k][2] = t[1][2]
    BY <2>1
  <2> QED
    BY <2>2, <2>3
<1> QED
  BY <1>2, <1>4, <1>5, <1>6, <1>7 DEF Left, t

-----------------------------------------------------------------------------
(* The invariant at the start.                                             *)

LEMMA SameCardinality == \A S : E!Cardinality(S) = Cardinality(S)
BY DEF E!Cardinality, Cardinality

LEMMA OneIsHigh ==
    ASSUME MaxHigh \in {0, 1}, Cardinality({p \in E!Ports : High(p)}) <= MaxHigh,
           NEW p \in E!Ports, NEW r \in E!Ports, High(p), High(r)
    PROVE  p = r
<1> DEFINE highs == {x \in E!Ports : High(x)}
<1>1. IsFiniteSet(E!Ports)
  BY UsbAssumption, FS_Interval DEF E!Ports
<1>2. IsFiniteSet(highs)
  BY <1>1, FS_Subset
<1>3. {p, r} \subseteq highs
  OBVIOUS
<1>4. Cardinality({p, r}) <= Cardinality(highs) /\ Cardinality({p, r}) \in Nat
      /\ Cardinality(highs) \in Nat
  BY <1>2, <1>3, FS_Subset, FS_CardinalityType
<1>5. Cardinality(highs) <= 1
  BY <1>4
<1>6. p # r => Cardinality({p, r}) = 2
  <2>1. IsFiniteSet({r}) /\ Cardinality({r}) = 1
    BY FS_Singleton
  <2>2. p # r => Cardinality({r} \cup {p}) = Cardinality({r}) + 1
    BY <2>1, FS_AddElement
  <2>3. {r} \cup {p} = {p, r}
    OBVIOUS
  <2> QED
    BY <2>1, <2>2, <2>3
<1> HIDE DEF highs
<1> QED
  BY <1>4, <1>5, <1>6

LEMMA EhciStarts ==
    ASSUME E!Init, MaxHigh \in {0, 1}
    PROVE  EhciState
<1>1. DOMAIN qh = {} /\ DOMAIN td = {} /\ DOMAIN pollers = {}
  <2>1. qh = <<>> /\ td = <<>> /\ pollers = <<>>
    BY DEF E!Init
  <2>2. \A f : f = <<>> => DOMAIN f = {}
    OBVIOUS
  <2> QED
    BY <2>1, <2>2
<1>2. Known
  <2>1. devices \in [E!Ports -> [state : {"detached", "reset", "address"}, address : Nat,
                                 setup : Nat]]
    <3>1. 0 \in Nat
      BY UsbAssumption
    <3>2. devices = [p \in E!Ports |-> [state |-> "detached", address |-> 0, setup |-> 0]]
      BY DEF E!Init
    <3> QED
      BY <3>1, <3>2
  <2>2. DOMAIN attached = E!Ports /\ DOMAIN bus = E!Ports
    BY DEF E!Init
  <2>3. ASSUME NEW p \in E!Ports
        PROVE  attached[p] = [speed |-> attached[p].speed, endpoints |-> attached[p].endpoints,
                              interval |-> attached[p].interval, on |-> attached[p].on]
    <3>1. attached[p] \in
            {[speed |-> "none", endpoints |-> 0, interval |-> 0, on |-> FALSE],
             [speed |-> "low", endpoints |-> 1, interval |-> 0, on |-> TRUE]}
            \cup [speed : {"high"}, endpoints : 1..MaxEndpoints,
                  interval : EIntervals \cup {0}, on : {TRUE}]
      BY DEF E!Init
    <3> DEFINE a == attached[p]
    <3>2. \/ a = [speed |-> "none", endpoints |-> 0, interval |-> 0, on |-> FALSE]
          \/ a = [speed |-> "low", endpoints |-> 1, interval |-> 0, on |-> TRUE]
          \/ a \in [speed : {"high"}, endpoints : 1..MaxEndpoints,
                    interval : EIntervals \cup {0}, on : {TRUE}]
      BY <3>1
    <3> HIDE DEF a
    <3>3. a = [speed |-> a.speed, endpoints |-> a.endpoints, interval |-> a.interval, on |-> a.on]
      BY <3>2
    <3> QED
      BY <3>3 DEF a
  <2>4. \A p \in E!Ports :
            bus[p] = [address |-> bus[p].address, request |-> bus[p].request,
                      reports |-> bus[p].reports]
    BY DEF E!Init
  <2> QED
    BY <1>1, <2>1, <2>2, <2>3, <2>4 DEF Known
<1>3. Owned
  <2>1. \A p, r \in E!Ports : High(p) /\ High(r) => p = r
    <3>1. Cardinality({p \in E!Ports : High(p)}) <= MaxHigh
      BY SameCardinality DEF E!Init, High
    <3> QED
      BY <3>1, OneIsHigh
  <2>2. \A p \in E!Ports : devices[p].state = "detached"
    BY DEF E!Init
  <2> QED
    BY <1>1, <2>1, <2>2 DEF Owned
<1>4. Left(script, DOMAIN qh, DOMAIN pollers)
  BY <1>1, ScriptIs DEF Left, E!Init
<1>5. Within /\ Causes
  BY DEF Within, Causes, E!Init, E!Idle
<1>6. Resting
  BY <1>1 DEF Resting, Unasked, Stopped, E!Init
<1> QED
  BY <1>2, <1>3, <1>4, <1>5, <1>6 DEF EhciState, Stages

-----------------------------------------------------------------------------
(* What the steps of the boot core have in common.                         *)

LEMMA SameStructures ==
    ASSUME Known, Owned, UNCHANGED <<attached, devices, td, qh, pollers, bus>>
    PROVE  Known' /\ Owned'
BY DEF Known, Owned, High

LEMMA FirstOf ==
    ASSUME NEW S, NEW s \in Seq(S), s # <<>>
    PROVE  DOMAIN s = 1..Len(s) /\ Head(s) = s[1] /\ s[1] \in S
OBVIOUS

LEMMA Runs ==
    ASSUME BootSteps(script), E!Running
    PROVE  /\ isr = "idle" /\ halted = "" /\ script # <<>> /\ ~E!Booted
           /\ Len(script) \in Nat /\ Len(script) >= 1 /\ DOMAIN script = 1..Len(script)
           /\ E!Op = script[1][1] /\ E!Port = script[1][2]
           /\ E!Op \in Ops /\ E!Port \in E!Ports /\ script[1] = <<E!Op, E!Port>>
           /\ Tail(script) = SubSeq(script, 1 + 1, Len(script)) /\ 1 \in 1..Len(script)
<1>1. script \in Seq(Ops \X E!Ports) /\ script # <<>> /\ isr = "idle" /\ halted = ""
  BY DEF E!Running, E!Booted, E!Idle, BootSteps
<1>2. /\ Head(script) = script[1] /\ Len(script) \in Nat /\ Len(script) >= 1
      /\ DOMAIN script = 1..Len(script) /\ script[1] \in Ops \X E!Ports
      /\ Tail(script) = SubSeq(script, 1 + 1, Len(script)) /\ 1 \in 1..Len(script)
  <2>1. Tail(script) = SubSeq(script, 1 + 1, Len(script)) /\ 1 <= Len(script) /\ Len(script) \in Nat
    BY <1>1, TailIsRest
  <2>2. DOMAIN script = 1..Len(script) /\ Head(script) = script[1] /\ script[1] \in Ops \X E!Ports
    BY <1>1, FirstOf
  <2>3. 1 \in 1..Len(script)
    BY <2>1
  <2> QED
    BY <2>1, <2>2, <2>3
<1>3. E!Op = script[1][1] /\ E!Port = script[1][2] /\ ~E!Booted
  BY <1>1, <1>2 DEF E!Booted, E!Op, E!Port
<1>4. \A x \in Ops \X E!Ports : x[1] \in Ops /\ x[2] \in E!Ports /\ x = <<x[1], x[2]>>
  OBVIOUS
<1> QED
  BY <1>1, <1>2, <1>3, <1>4

LEMMA NextStep ==
    ASSUME NEW s, BootSteps(s), s # <<>>, NEW y, <<s[1][1], y>> \in Brings
    PROVE  2 \in DOMAIN s /\ s[2] = <<y, s[1][2]>> /\ Len(s) >= 2
           /\ Tail(Tail(s)) = SubSeq(s, 2 + 1, Len(s))
<1>1. s \in Seq(Ops \X E!Ports) /\ 1 \in DOMAIN s /\ Chained(s, Brings)
  BY DEF BootSteps
<1>2. 1 + 1 \in DOMAIN s /\ s[1 + 1] = <<<<s[1][1], y>>[2], s[1][2]>>
  BY <1>1, Zenon DEF Chained
<1>3. 2 \in DOMAIN s /\ Len(s) >= 2
  BY <1>1, <1>2
<1> QED
  BY <1>1, <1>2, <1>3

(* Between two operations nothing is under way, or a poll is. *)
LEMMA AtFill ==
    ASSUME Stages, step = "fill"
    PROVE  Resting \/ Polling
BY DEF Stages, Built, Sent, Finished, Replied, Requesting

LEMMA RestingBefore ==
    ASSUME EhciState, E!Running, step \in {"fill", "stopping", "starting"},
           E!Op \notin ClosingOps
    PROVE  Resting
<1>1. DOMAIN pollers = {}
  BY Runs DEF EhciState, Left
<1> QED
  BY <1>1 DEF EhciState, Stages, Built, Sent, Finished, Replied, Requesting, Polling

LEMMA BootCauses ==
    ASSUME Causes, isr = "idle", UNCHANGED <<attached, usbint, isr, halted>>,
           "error" \in usbint => UNCHANGED <<td, qh>>
    PROVE  Causes'
<1>1. /\ usbint' \subseteq {"int", "error", "port"}
      /\ isr' \in {"idle", "scan", "clear", "ports"}
      /\ isr' \in {"scan", "clear"} => usbint' = {"int"}
      /\ isr' = "ports" => usbint' = {"port"}
      /\ step' = "store" => isr' = "idle"
      /\ {"int", "port"} \subseteq usbint' => "error" \in usbint'
      /\ halted' # "" => "error" \in usbint'
  BY DEF Causes
<1>2. "port" \in usbint' => \A p \in E!Ports : High(p)' => ~attached'[p].on
  BY DEF Causes, High
<1>3. "error" \in usbint' => \E p \in E!Ports :
          ~attached'[p].on /\ (E!Ready(E!ControlQh(p))' \/ E!Ready(E!PollQh(p))')
  BY DEF Causes, E!Ready, E!ControlQh, E!PollQh
<1> QED
  BY <1>1, <1>2, <1>3 DEF Causes, High

(* The operation is over, and nothing was made. *)
LEMMA OperationEnds ==
    ASSUME EhciState, E!Running, NEW k \in 1..Len(script),
           script' = SubSeq(script, k + 1, Len(script)), step' = "fill",
           script[k][1] \notin {"attach", "config9", "set_configuration", "set_protocol"},
           UNCHANGED <<attached, devices, td, qh, pollers, bus, usbint, isr, halted>>,
           Resting' \/ Polling'
    PROVE  EhciState'
<1>1. Known' /\ Owned'
  BY SameStructures DEF EhciState
<1>2. isr = "idle"
  BY Runs DEF EhciState, Left
<1>3. Causes'
  BY <1>2, BootCauses DEF EhciState
<1>4. Left(script', DOMAIN qh, DOMAIN pollers)
  <2>1. Left(script, DOMAIN qh, DOMAIN pollers)
    BY DEF EhciState
  <2> QED
    BY <2>1, LeftKept
<1>5. Left(script, DOMAIN qh, DOMAIN pollers)'
  BY <1>4
<1>6. Within'
  BY DEF Within
<1> QED
  BY <1>1, <1>3, <1>5, <1>6 DEF EhciState, Stages

-----------------------------------------------------------------------------
(* Steps that leave the structures alone, and the new asynchronous list.   *)

LEMMA StepAfter ==
    ASSUME NEW s, BootSteps(s), NEW i \in DOMAIN s, NEW y, <<s[i][1], y>> \in Brings
    PROVE  i + 1 \in DOMAIN s /\ s[i + 1] = <<y, s[i][2]>>
<1>1. i + 1 \in DOMAIN s /\ s[i + 1] = <<<<s[i][1], y>>[2], s[i][2]>>
  BY Zenon DEF BootSteps, Chained
<1> QED
  BY <1>1

(* The end of a list is no descriptor. *)
LEMMA StopIsNone == Owned => E!Stop \notin DOMAIN td
<1> SUFFICES ASSUME Owned, E!Stop \in DOMAIN td PROVE FALSE
  OBVIOUS
<1>1. \A p, i : E!ControlTd(p, i)[1] = "control" /\ E!PollTd(p, i)[1] = "poll"
  BY DEF E!ControlTd, E!PollTd
<1>2. E!Stop[1] = "terminate"
  BY DEF E!Stop
<1> QED
  BY <1>1, <1>2 DEF Owned

(* A device answers no more than what it was asked. *)
LEMMA NoErrorYet ==
    ASSUME EhciState, DOMAIN pollers = {}, \A p \in E!Ports : Stopped(p)
    PROVE  "error" \notin usbint
<1> SUFFICES ASSUME "error" \in usbint PROVE FALSE
  OBVIOUS
<1>1. PICK p \in E!Ports : E!Ready(E!ControlQh(p)) \/ E!Ready(E!PollQh(p))
  BY DEF EhciState, Causes
<1>2. ~E!Ready(E!PollQh(p))
  BY DEF EhciState, Owned, E!Ready
<1>3. ~E!Ready(E!ControlQh(p))
  BY StopIsNone DEF EhciState, Stopped, E!Ready
<1> QED
  BY <1>1, <1>2, <1>3

LEMMA SkipAttachKeeps ==
    ASSUME EhciState, E!SkipAttach
    PROVE  EhciState'
<1>1. E!Running /\ E!Op = "attach" /\ step = "fill" /\ script' = Tail(Tail(script))
      /\ UNCHANGED <<attached, step, devices, td, qh, pollers, interrupted, queue, inserted,
                     preinserted, usbint, isr, halted, bus>>
  BY DEF E!SkipAttach, E!At
<1>2. BootSteps(script)
  BY DEF EhciState, Left
<1>3. Resting
  BY <1>1, RestingBefore DEF ClosingOps
<1>4. 2 \in 1..Len(script) /\ script[2][1] = "set_address"
      /\ script' = SubSeq(script, 2 + 1, Len(script))
  <2>1. <<script[1][1], "set_address">> \in Brings /\ script # <<>>
    BY <1>1, <1>2, Runs DEF Brings
  <2>2. script[2] = <<"set_address", script[1][2]>> /\ Len(script) >= 2
        /\ Tail(Tail(script)) = SubSeq(script, 2 + 1, Len(script))
    BY <1>2, <2>1, NextStep
  <2>3. Len(script) \in Nat
    BY <1>1, <1>2, Runs
  <2> QED
    BY <1>1, <2>2, <2>3
<1>5. Resting'
  BY <1>1, <1>3 DEF Resting, Unasked, Stopped
<1> QED
  BY <1>1, <1>4, <1>5, OperationEnds

LEMMA EnablePortChangeKeeps ==
    ASSUME EhciState, E!EnablePortChange
    PROVE  EhciState'
<1>1. E!Running /\ E!Op = "ports" /\ step = "fill" /\ script' = Tail(script)
      /\ UNCHANGED <<attached, step, devices, td, qh, pollers, interrupted, queue, inserted,
                     preinserted, usbint, isr, halted, bus>>
  BY DEF E!EnablePortChange, E!At
<1>2. BootSteps(script)
  BY DEF EhciState, Left
<1>3. Resting
  BY <1>1, RestingBefore DEF ClosingOps
<1>4. 1 \in 1..Len(script) /\ script[1][1] = "ports"
      /\ script' = SubSeq(script, 1 + 1, Len(script))
  BY <1>1, <1>2, Runs
<1>5. Resting'
  BY <1>1, <1>3 DEF Resting, Unasked, Stopped
<1> QED
  BY <1>1, <1>4, <1>5, OperationEnds

(* What Skip leaves out is a whole phase. *)
LEMMA SkippedPhase ==
    ASSUME BootSteps(script), E!Running, E!Op \in {"device", "config9", "set_protocol"}
    PROVE  E!PhaseLength \in 1..Len(script)
           /\ script[E!PhaseLength][1] \in {"device", "config", "poller"}
<1>1. 1 \in 1..Len(script) /\ DOMAIN script = 1..Len(script) /\ script[1][1] = E!Op
      /\ script # <<>>
  BY Runs
<1>2. CASE E!Op = "device"
  BY <1>1, <1>2 DEF E!PhaseLength
<1>3. CASE E!Op = "config9"
  <2>1. <<script[1][1], "set_configuration">> \in Brings
    BY <1>1, <1>3 DEF Brings
  <2>2. 1 + 1 \in DOMAIN script /\ script[1 + 1] = <<"set_configuration", script[1][2]>>
    BY <1>1, <2>1, StepAfter
  <2>3. <<script[2][1], "config">> \in Brings
    BY <2>2 DEF Brings
  <2>4. 2 + 1 \in DOMAIN script /\ script[2 + 1] = <<"config", script[2][2]>>
    BY <2>2, <2>3, StepAfter
  <2>5. E!PhaseLength = 3
    BY <1>3 DEF E!PhaseLength
  <2> QED
    BY <1>1, <2>4, <2>5
<1>4. CASE E!Op = "set_protocol"
  <2>1. <<script[1][1], "poller">> \in Brings
    BY <1>1, <1>4 DEF Brings
  <2>2. 1 + 1 \in DOMAIN script /\ script[1 + 1] = <<"poller", script[1][2]>>
    BY <1>1, <2>1, StepAfter
  <2>3. E!PhaseLength = 2
    BY <1>4 DEF E!PhaseLength
  <2> QED
    BY <1>1, <2>2, <2>3
<1> QED
  BY <1>2, <1>3, <1>4

LEMMA SkipKeeps ==
    ASSUME EhciState, E!Skip
    PROVE  EhciState'
<1>1. E!Running /\ step = "fill" /\ E!Op \in {"device", "config9", "set_protocol"}
      /\ script' = SubSeq(script, E!PhaseLength + 1, Len(script))
      /\ UNCHANGED <<attached, step, devices, td, qh, pollers, interrupted, queue, inserted,
                     preinserted, usbint, isr, halted, bus>>
  BY DEF E!Skip, E!Skips
<1>2. BootSteps(script)
  BY DEF EhciState, Left
<1>3. 1 \in 1..Len(script) /\ DOMAIN script = 1..Len(script) /\ script[1][1] = E!Op
      /\ script # <<>>
  BY <1>1, <1>2, Runs
<1>4. E!PhaseLength \in 1..Len(script) /\ script[E!PhaseLength][1] \in {"device", "config", "poller"}
  BY <1>1, <1>2, SkippedPhase
<1>5. Resting' \/ Polling'
  <2>1. Resting \/ Polling
    BY <1>1, AtFill DEF EhciState
  <2>2. Resting => Resting'
    BY <1>1 DEF Resting, Unasked, Stopped
  <2>3. Polling => Polling'
    BY <1>1 DEF Polling, Unasked, Stopped, PollTds, Armed, Used, Unmarked
  <2> QED
    BY <2>1, <2>2, <2>3
<1> HIDE DEF E!PhaseLength
<1>6. PICK k \in 1..Len(script) : k = E!PhaseLength
  BY <1>4
<1> QED
  BY <1>1, <1>4, <1>5, <1>6, OperationEnds

LEMMA StopAsyncKeeps ==
    ASSUME EhciState, E!StopAsync
    PROVE  EhciState'
<1>1. E!Running /\ step = "fill" /\ E!Op = "update" /\ step' = "stopping"
      /\ UNCHANGED <<attached, script, devices, td, qh, pollers, interrupted, queue, inserted,
                     preinserted, usbint, isr, halted, bus>>
  BY DEF E!StopAsync, E!At
<1>2. Known' /\ Owned'
  BY <1>1, SameStructures DEF EhciState
<1>3. Left(script, DOMAIN qh, DOMAIN pollers)'
  <2>1. Left(script', DOMAIN qh', DOMAIN pollers')
    BY <1>1 DEF EhciState
  <2> QED
    BY <2>1
<1>4. Within'
  BY <1>1 DEF Within, E!Running, E!Booted, E!Op
<1>5. Causes'
  BY <1>1, BootCauses DEF EhciState, E!Running, E!Idle
<1>6. Resting'
  <2>1. Resting
    BY <1>1, RestingBefore DEF ClosingOps
  <2> QED
    BY <1>1, <2>1 DEF Resting, Unasked, Stopped
<1> QED
  BY <1>2, <1>3, <1>4, <1>5, <1>6 DEF EhciState, Stages

LEMMA StartAsyncKeeps ==
    ASSUME EhciState, E!StartAsync
    PROVE  EhciState'
<1>1. E!Running /\ step = "starting" /\ step' = "fill" /\ script' = Tail(script)
      /\ UNCHANGED <<attached, devices, td, qh, pollers, interrupted, queue, inserted,
                     preinserted, usbint, isr, halted, bus>>
  BY DEF E!StartAsync
<1>2. BootSteps(script)
  BY DEF EhciState, Left
<1>3. E!Op = "update"
  BY <1>1 DEF EhciState, Within
<1>4. Resting
  BY <1>1, <1>3, RestingBefore DEF ClosingOps
<1>5. 1 \in 1..Len(script) /\ script[1][1] = "update"
      /\ script' = SubSeq(script, 1 + 1, Len(script))
  BY <1>1, <1>2, <1>3, Runs
<1>6. Resting'
  BY <1>1, <1>4 DEF Resting, Unasked, Stopped
<1> QED
  BY <1>1, <1>5, <1>6, OperationEnds

LEMMA UpdateAsyncKeeps ==
    ASSUME EhciState, E!UpdateAsync
    PROVE  EhciState'
<1>1. E!Running /\ step = "stopping"
      /\ UNCHANGED <<attached, devices, td, pollers, interrupted, queue, inserted,
                     preinserted, usbint, isr, halted, bus>>
  BY DEF E!UpdateAsync
<1>2. BootSteps(script)
  BY DEF EhciState, Left
<1>3. E!Op = "update" /\ ~E!Booted
  BY <1>1, Runs, <1>2 DEF EhciState, Within
<1>4. Resting
  BY <1>1, <1>3, RestingBefore DEF ClosingOps
<1>5. CASE E!Active = {}
  <2>1. script' = Tail(script) /\ step' = "fill" /\ UNCHANGED qh
    BY <1>5 DEF E!UpdateAsync
  <2>2. 1 \in 1..Len(script) /\ script[1][1] = "update"
        /\ script' = SubSeq(script, 1 + 1, Len(script))
    BY <1>1, <1>2, <1>3, <2>1, Runs
  <2>3. Resting'
    BY <1>1, <1>4, <2>1 DEF Resting, Unasked, Stopped
  <2> QED
    BY <1>1, <2>1, <2>2, <2>3, OperationEnds
<1>6. CASE E!Active # {}
  <2>1. /\ qh' = [q \in DOMAIN qh |-> [next |-> E!Stop, current |-> E!Null]]
        /\ step' = "starting" /\ UNCHANGED script
    BY <1>6 DEF E!UpdateAsync
  <2>2. DOMAIN qh' = DOMAIN qh
    BY <2>1
  <2>3. Known'
    BY <1>1, <2>1 DEF EhciState, Known
  <2>4. Owned'
    BY <1>1, <2>2 DEF EhciState, Owned, High
  <2>5. Left(script, DOMAIN qh, DOMAIN pollers)'
    <3>1. Left(script', DOMAIN qh', DOMAIN pollers')
      BY <1>1, <2>1, <2>2 DEF EhciState
    <3> QED
      BY <3>1
  <2>6. Within'
    BY <1>3, <2>1 DEF Within, E!Booted, E!Op
  <2>7. "error" \notin usbint /\ isr = "idle"
    <3>1. DOMAIN pollers = {} /\ \A p \in E!Ports : Stopped(p)
      BY <1>4 DEF Resting
    <3> QED
      BY <1>1, <1>2, <3>1, NoErrorYet, Runs
  <2>8. Causes'
    BY <1>1, <2>7, BootCauses DEF EhciState
  <2>9. Resting'
    BY <1>1, <1>4, <2>1 DEF Resting, Unasked, Stopped
  <2> QED
    BY <2>3, <2>4, <2>5, <2>6, <2>8, <2>9 DEF EhciState, Stages
<1> QED
  BY <1>5, <1>6

-----------------------------------------------------------------------------
(* A device is attached, a poller installed.                               *)

(* A port with a queue head has the high speed device. *)
LEMMA ControlHigh ==
    ASSUME Owned, NEW p \in E!Ports, E!ControlQh(p) \in DOMAIN qh
    PROVE  High(p)
<1>1. PICK r \in E!Ports : High(r) /\ E!ControlQh(p) \in {E!ControlQh(r), E!PollQh(r)}
  BY DEF Owned
<1>2. E!ControlQh(p) # E!PollQh(r)
  BY DEF E!ControlQh, E!PollQh
<1>3. E!ControlQh(p) = E!ControlQh(r) => p = r
  BY DEF E!ControlQh
<1> QED
  BY <1>1, <1>2, <1>3

LEMMA OnlyPort ==
    ASSUME Owned, NEW p \in E!Ports, NEW r \in E!Ports, High(r),
           E!ControlQh(p) \in DOMAIN qh
    PROVE  p = r
BY ControlHigh DEF Owned

LEMMA QhNames ==
    ASSUME NEW p, NEW r
    PROVE  /\ E!ControlQh(p) # E!PollQh(r)
           /\ E!ControlQh(p) = E!ControlQh(r) => p = r
           /\ E!PollQh(p) = E!PollQh(r) => p = r
BY DEF E!ControlQh, E!PollQh

LEMMA AttachKeeps ==
    ASSUME EhciState, E!Attach
    PROVE  EhciState'
<1> DEFINE b == E!Port
           new == [next |-> E!Stop, current |-> E!Null]
<1>1. E!Running /\ E!Op = "attach" /\ step = "fill" /\ attached[b].speed = "high"
      /\ UNCHANGED <<attached, step, td, pollers, interrupted, queue, inserted,
                     preinserted, usbint, isr>>
  BY DEF E!Attach, E!At
<1>2. BootSteps(script) /\ Known /\ Owned
  BY DEF EhciState, Left
<1>3. /\ b \in E!Ports /\ script[1] = <<"attach", b>> /\ 1 \in 1..Len(script) /\ isr = "idle"
      /\ Tail(script) = SubSeq(script, 1 + 1, Len(script)) /\ 1 \in DOMAIN script
  BY <1>1, <1>2, Runs
<1>4. Resting
  BY <1>1, RestingBefore DEF ClosingOps
<1>5. E!ControlQh(b) \notin DOMAIN qh
  BY <1>3 DEF EhciState, Left
<1>6. E!Addressed = {}
  <2> SUFFICES ASSUME NEW p \in E!Ports, devices[p].state = "address" PROVE FALSE
    BY DEF E!Addressed
  <2>1. E!ControlQh(p) \in DOMAIN qh
    BY <1>2 DEF Owned
  <2>2. p = b
    BY <1>1, <1>2, <1>3, <2>1, OnlyPort DEF High
  <2> QED
    BY <1>5, <2>1, <2>2
<1>7. E!Joins(b)
  BY <1>6 DEF E!Joins
<1>8. /\ devices' = [devices EXCEPT ![b].state = "reset"]
      /\ qh' = E!With(qh, E!ControlQh(b), new)
      /\ bus' = [bus EXCEPT ![b].address = 0]
      /\ script' = Tail(script) /\ UNCHANGED halted
  BY <1>7 DEF E!Attach
<1>9. /\ DOMAIN qh' = DOMAIN qh \cup {E!ControlQh(b)}
      /\ \A q \in DOMAIN qh' : qh'[q] = IF q = E!ControlQh(b) THEN new ELSE qh[q]
  BY <1>8 DEF E!With
<1>10. Known'
  <2>1. devices' \in [E!Ports -> [state : {"detached", "reset", "address"}, address : Nat,
                                  setup : Nat]]
    BY <1>2, <1>3, <1>8 DEF Known
  <2>2. DOMAIN attached' = E!Ports /\ DOMAIN bus' = E!Ports
    BY <1>1, <1>2, <1>8 DEF Known
  <2>3. \A p \in E!Ports :
            bus'[p] = [address |-> bus'[p].address, request |-> bus'[p].request,
                       reports |-> bus'[p].reports]
    BY <1>2, <1>8 DEF Known
  <2>4. \A q \in DOMAIN qh' : qh'[q] = [next |-> qh'[q].next, current |-> qh'[q].current]
    BY <1>2, <1>9 DEF Known
  <2> QED
    BY <1>1, <1>2, <2>1, <2>2, <2>3, <2>4 DEF Known
<1>11. Owned'
  <2>1. \A p \in E!Ports : devices'[p].state # "detached" => E!ControlQh(p) \in DOMAIN qh'
    BY <1>2, <1>3, <1>8, <1>9 DEF Owned, Known
  <2>2. \A p \in E!Ports : E!PollQh(p) \in DOMAIN qh' <=> p \in DOMAIN pollers'
    BY <1>1, <1>2, <1>9, QhNames DEF Owned
  <2>3. \A q \in DOMAIN qh' : \E p \in E!Ports : High(p) /\ q \in {E!ControlQh(p), E!PollQh(p)}
    BY <1>1, <1>2, <1>3, <1>9 DEF Owned, High
  <2> QED
    BY <1>1, <1>2, <2>1, <2>2, <2>3 DEF Owned, High
<1>12. Left(script, DOMAIN qh, DOMAIN pollers)'
  <2>1. \A p \in E!Ports : E!ControlQh(p) \in DOMAIN qh' \ DOMAIN qh => script[1] = <<"attach", p>>
    BY <1>3, <1>9, QhNames
  <2>2. Left(script, DOMAIN qh, DOMAIN pollers) /\ DOMAIN qh \subseteq DOMAIN qh'
        /\ E!ControlQh(script[1][2]) \in DOMAIN qh'
    BY <1>3, <1>9 DEF EhciState
  <2>3. Left(SubSeq(script, 1 + 1, Len(script)), DOMAIN qh', DOMAIN pollers)
    BY <1>3, <2>1, <2>2, LeftKept
  <2>4. Left(script', DOMAIN qh', DOMAIN pollers')
    BY <1>1, <1>3, <1>8, <2>3
  <2> QED
    BY <2>4
<1>13. Within'
  BY <1>1 DEF Within
<1>14. Causes'
  <2>1. "error" \notin usbint
    BY <1>4, NoErrorYet DEF Resting
  <2> QED
    BY <1>1, <1>3, <1>8, <2>1, BootCauses DEF EhciState
<1>15. Resting'
  <2>1. \A p \in E!Ports : Stopped(p)'
    BY <1>4, <1>9, QhNames DEF Resting, Stopped
  <2> QED
    BY <1>1, <1>4, <2>1 DEF Resting, Unasked
<1> QED
  BY <1>10, <1>11, <1>12, <1>13, <1>14, <1>15 DEF EhciState, Stages

LEMMA PollTdNames ==
    ASSUME NEW p, NEW r, NEW i, NEW j
    PROVE  /\ E!ControlTd(p, i) # E!PollTd(r, j)
           /\ E!PollTd(p, i) = E!PollTd(r, j) => p = r /\ i = j
           /\ E!PollTd(p, i) # E!Null /\ E!PollTd(p, i) # E!Stop
           /\ E!ControlTd(p, i) # E!Null /\ E!ControlTd(p, i) # E!Stop
<1>1. /\ E!ControlTd(p, i) # E!PollTd(r, j)
      /\ E!PollTd(p, i) = E!PollTd(r, j) => p = r /\ i = j
  BY DEF E!ControlTd, E!PollTd
<1>2. E!PollTd(p, i)[1] = "poll" /\ E!ControlTd(p, i)[1] = "control"
      /\ E!Null[1] = "null" /\ E!Stop[1] = "terminate"
  BY DEF E!ControlTd, E!PollTd, E!Null, E!Stop
<1> QED
  BY <1>1, <1>2

LEMMA InstallKeeps ==
    ASSUME EhciState, E!InstallInterruptPoller
    PROVE  EhciState'
<1> DEFINE b == E!Port
           q == E!PollQh(b)
           fresh == [active |-> TRUE, next |-> E!Stop, ioc |-> TRUE, offset |-> 0]
           two == {E!PollTd(b, 0), E!PollTd(b, 1)}
<1>1. /\ E!Running /\ E!Op = "poller" /\ step = "fill"
      /\ td' = [t \in DOMAIN td \cup two |-> IF t \in DOMAIN td THEN td[t] ELSE fresh]
      /\ qh' = E!With(qh, q, [next |-> E!PollTd(b, 0), current |-> E!Null])
      /\ pollers' = E!With(pollers, b, 0)
      /\ script' = Tail(script)
      /\ UNCHANGED <<attached, step, devices, interrupted, queue, inserted, preinserted, usbint,
                     isr, halted, bus>>
  BY DEF E!InstallInterruptPoller, E!At
<1>2. BootSteps(script) /\ Known /\ Owned
  BY DEF EhciState, Left
<1>3. /\ b \in E!Ports /\ script[1] = <<"poller", b>> /\ 1 \in 1..Len(script) /\ isr = "idle"
      /\ Tail(script) = SubSeq(script, 1 + 1, Len(script)) /\ 1 \in DOMAIN script
      /\ script # <<>>
  BY <1>1, <1>2, Runs
<1>4. E!ControlQh(b) \in DOMAIN qh
  BY <1>3 DEF EhciState, Left, Brought
<1>5. High(b)
  BY <1>2, <1>3, <1>4, ControlHigh
<1>6. DOMAIN pollers = {}
  <2> SUFFICES ASSUME NEW p \in DOMAIN pollers PROVE FALSE
    OBVIOUS
  <2>1. p = b
    BY <1>2, <1>3, <1>5 DEF Owned
  <2> QED
    BY <1>3, <2>1 DEF EhciState, Left
<1>7. Resting
  BY <1>1, <1>6, AtFill DEF EhciState, Polling
<1>8. /\ DOMAIN qh' = DOMAIN qh \cup {q} /\ DOMAIN pollers' = {b} /\ pollers'[b] = 0
      /\ \A x \in DOMAIN qh' : qh'[x] = IF x = q THEN [next |-> E!PollTd(b, 0), current |-> E!Null]
                                        ELSE qh[x]
  BY <1>1, <1>6 DEF E!With
<1>9. E!PollTd(b, 0) \notin DOMAIN td /\ E!PollTd(b, 1) \notin DOMAIN td
  BY <1>2, <1>6, PollTdNames DEF Owned
<1>10. /\ DOMAIN td' = DOMAIN td \cup two
       /\ \A t \in DOMAIN td : td'[t] = td[t]
       /\ \A t \in two : td'[t] = fresh
  BY <1>1, <1>9
<1>11. Known'
  <2>1. \A x \in DOMAIN qh' : qh'[x] = [next |-> qh'[x].next, current |-> qh'[x].current]
    BY <1>2, <1>8 DEF Known
  <2>2. \A t \in DOMAIN td' : td'[t] = [active |-> td'[t].active, next |-> td'[t].next,
                                        ioc |-> td'[t].ioc, offset |-> td'[t].offset]
    BY <1>2, <1>10 DEF Known
  <2> QED
    BY <1>1, <1>2, <2>1, <2>2 DEF Known
<1>12. Owned'
  <2>1. \A p \in E!Ports : E!PollQh(p) \in DOMAIN qh' <=> p \in DOMAIN pollers'
    BY <1>2, <1>6, <1>8, QhNames DEF Owned
  <2>2. \A x \in DOMAIN qh' : \E p \in E!Ports : High(p) /\ x \in {E!ControlQh(p), E!PollQh(p)}
    BY <1>2, <1>3, <1>5, <1>8 DEF Owned
  <2>3. \A t \in DOMAIN td' :
         \/ \E p \in E!Ports, i \in Nat : t = E!ControlTd(p, i)
         \/ \E p \in DOMAIN pollers', i \in {0, 1} : t = E!PollTd(p, i)
    BY <1>2, <1>6, <1>8, <1>10 DEF Owned
  <2>4. \A p \in E!Ports : devices'[p].state # "detached" => E!ControlQh(p) \in DOMAIN qh'
    BY <1>1, <1>2, <1>8 DEF Owned
  <2>5. DOMAIN pollers' \subseteq E!Ports /\ \A p \in DOMAIN pollers' : High(p)
    BY <1>3, <1>5, <1>8
  <2> QED
    BY <1>1, <1>2, <2>1, <2>2, <2>3, <2>4, <2>5 DEF Owned, High
<1>13. Left(script, DOMAIN qh, DOMAIN pollers)'
  <2>1. \A p \in E!Ports : E!ControlQh(p) \notin DOMAIN qh' \ DOMAIN qh
    BY <1>8, QhNames
  <2>2. Left(script, DOMAIN qh, DOMAIN pollers) /\ DOMAIN qh \subseteq DOMAIN qh'
        /\ script[1][1] = "poller" /\ \A p \in DOMAIN pollers' \ DOMAIN pollers : script[1] = <<"poller", p>>
    BY <1>3, <1>8 DEF EhciState
  <2>3. Left(SubSeq(script, 1 + 1, Len(script)), DOMAIN qh', DOMAIN pollers')
    BY <1>3, <2>1, <2>2, LeftKept
  <2>4. Left(script', DOMAIN qh', DOMAIN pollers')
    BY <1>1, <1>3, <2>3
  <2> QED
    BY <2>4
<1>14. Within'
  BY <1>1 DEF Within
<1>15. Causes'
  <2>1. "error" \notin usbint
    BY <1>7, NoErrorYet DEF Resting
  <2> QED
    BY <1>1, <1>3, <2>1, BootCauses DEF EhciState
<1>16. Polling'
  <2>1. \A p \in E!Ports : Stopped(p)'
    BY <1>7, <1>8, QhNames DEF Resting, Stopped
  <2>2. /\ E!PollTd(b, 0) \in DOMAIN td' /\ E!PollTd(b, 1) \in DOMAIN td'
        /\ td'[E!PollTd(b, 0)] = fresh /\ td'[E!PollTd(b, 1)] = fresh
        /\ qh'[E!PollQh(b)] = [next |-> E!PollTd(b, 0), current |-> E!Null]
    BY <1>8, <1>10
  <2>5. ASSUME NEW p \in DOMAIN pollers' PROVE PollTds(p)' /\ Armed(p)'
    <3>1. p = b /\ pollers'[p] = 0
      BY <1>8, <2>5
    <3>2. /\ E!PollTd(p, 0) \in DOMAIN td' /\ E!PollTd(p, 1) \in DOMAIN td'
          /\ td'[E!PollTd(p, 0)] = fresh /\ td'[E!PollTd(p, 1)] = fresh
          /\ qh'[E!PollQh(p)] = [next |-> E!PollTd(p, 0), current |-> E!Null]
      BY <2>2, <3>1
    <3>3. isr' = "idle" /\ "int" \notin usbint'
      BY <1>1, <1>3, <1>7 DEF Resting
    <3> HIDE DEF b
    <3>4. PollTds(p)'
      BY <3>1, <3>2 DEF PollTds
    <3>5. Armed(p)'
      BY <3>1, <3>2, <3>3 DEF Armed, Unmarked
    <3> QED
      BY <3>4, <3>5
  <2> QED
    BY <1>1, <1>7, <1>8, <2>1, <2>5 DEF Polling, Resting, Unasked
<1> QED
  BY <1>11, <1>12, <1>13, <1>14, <1>15, <1>16 DEF EhciState, Stages

-----------------------------------------------------------------------------
(* A request.                                                              *)

(* What TLA+ integer division gives. *)
LEMMA DivMod ==
    ASSUME NEW x \in Nat, NEW d \in Nat \ {0}
    PROVE  x \div d \in Int /\ x % d \in Int /\ x = (x \div d) * d + (x % d)
<1>1. d \in Nat /\ d > 0
  OBVIOUS
<1> QED
  BY <1>1

(* Three descriptors in a row are three. *)
LEMMA ThreeTds ==
    ASSUME NEW p, NEW c \in Nat, NEW j \in 0..2, NEW k \in 0..2,
           E!ControlTd(p, c + j) = E!ControlTd(p, c + k)
    PROVE  j = k
<1> DEFINE a == (c + j) \div NQtds
           b == (c + k) \div NQtds
           r == (c + j) % NQtds
           t == (c + k) % NQtds
<1>1. NQtds \in Nat \ {0} /\ NQtds > 2 /\ c + j \in Nat /\ c + k \in Nat
  BY UsbAssumption
<1>2. t = r
  BY DEF E!ControlTd
<1>3. a \in Int /\ r \in Int /\ c + j = a * NQtds + r
  BY <1>1, DivMod
<1>4. b \in Int /\ c + k = b * NQtds + t
  BY <1>1, DivMod
<1> HIDE DEF a, b, r, t
<1>5. c + k = b * NQtds + r /\ b \in Int
  BY <1>2, <1>4
<1>6. j - k = a * NQtds - b * NQtds
  BY <1>1, <1>3, <1>5
<1>7. a * NQtds - b * NQtds = (a - b) * NQtds
  BY <1>1, <1>3, <1>5
<1> DEFINE d == a - b
<1>8. d \in Int /\ j - k = d * NQtds
  BY <1>3, <1>5, <1>6, <1>7
<1> HIDE DEF d
<1>9. d >= 1 => d * NQtds >= NQtds
  BY <1>1, <1>8
<1>10. d <= -1 => d * NQtds <= -NQtds
  BY <1>1, <1>8
<1>11. d = 0
  BY <1>1, <1>8, <1>9, <1>10
<1> QED
  BY <1>8, <1>11, <1>1

(* What a sender writes. *)
LEMMA ChainIs ==
    ASSUME Known, NEW b \in E!Ports
    PROVE  LET s == devices[b].setup
               m == E!LastTd IN
           /\ s \in Nat /\ m \in 1..2
           /\ DOMAIN E!Chain(b) = {E!ControlTd(b, s + i) : i \in 0..m}
           /\ \A j \in 0..m : E!Chain(b)[E!ControlTd(b, s + j)] =
                 [active |-> TRUE, offset |-> 0, ioc |-> j = m,
                  next |-> IF j = m THEN E!Stop ELSE E!ControlTd(b, s + j + 1)]
<1> DEFINE s == devices[b].setup
           m == E!LastTd
           tds == {E!ControlTd(b, s + i) : i \in 0..m}
           Nth(t) == CHOOSE j \in 0..m : t = E!ControlTd(b, s + j)
           rec(i) == [active |-> TRUE, offset |-> 0, ioc |-> i = m,
                      next |-> IF i = m THEN E!Stop ELSE E!ControlTd(b, s + i + 1)]
<1>1. s \in Nat /\ m \in 1..2
  BY DEF Known, E!LastTd
<1>2. E!Chain(b) = [t \in tds |-> rec(Nth(t))]
  BY DEF E!Chain
<1> HIDE DEF s, m, rec
<1>3. ASSUME NEW j \in 0..m PROVE Nth(E!ControlTd(b, s + j)) = j
  <2>1. j \in 0..2 /\ \A k \in 0..m : k \in 0..2
    BY <1>1
  <2>2. \A k \in 0..m : E!ControlTd(b, s + j) = E!ControlTd(b, s + k) => k = j
    BY <1>1, <2>1, ThreeTds
  <2> QED
    BY <2>2
<1>4. ASSUME NEW j \in 0..m PROVE E!Chain(b)[E!ControlTd(b, s + j)] = rec(j)
  <2>1. E!ControlTd(b, s + j) \in tds
    OBVIOUS
  <2> HIDE DEF tds, Nth
  <2> QED
    BY <1>2, <1>3, <2>1
<1>5. DOMAIN E!Chain(b) = tds
  BY <1>2
<1> QED
  BY <1>1, <1>4, <1>5 DEF s, m, rec

LEMMA FillKeeps ==
    ASSUME EhciState, E!Fill
    PROVE  EhciState'
<1>1. BootSteps(script) /\ Known /\ Owned /\ E!Running
  BY DEF EhciState, Left, E!Fill
<1>2. PICK b \in E!Ports : b = E!Port
  BY <1>1, Runs
<1>3. /\ E!Op \in E!Requests /\ step = "fill" /\ ~E!Skips
      /\ td' = [t \in DOMAIN td \cup DOMAIN E!Chain(b) |->
                   IF t \in DOMAIN E!Chain(b) THEN E!Chain(b)[t] ELSE td[t]]
      /\ step' = "link"
      /\ UNCHANGED <<attached, script, devices, qh, pollers, interrupted, queue, inserted,
                     preinserted, usbint, isr, halted, bus>>
  BY <1>2 DEF E!Fill
<1>4. /\ script[1] = <<E!Op, b>> /\ isr = "idle" /\ 1 \in DOMAIN script /\ ~E!Booted
      /\ script # <<>>
  BY <1>1, <1>2, Runs
<1>5. E!ControlQh(b) \in DOMAIN qh
  <2>1. CASE E!Op \in Brought
    BY <1>4, <2>1 DEF EhciState, Left
  <2>2. CASE E!Op \notin Brought
    <3>1. E!Op \in {"device", "config9", "set_protocol"}
      BY <1>3, <2>2 DEF Brought, E!Requests, E!Reads
    <3>2. devices[b].state # "detached"
      BY <1>2, <1>3, <3>1 DEF E!Skips, E!Detached
    <3> QED
      BY <1>1, <3>2 DEF Owned
  <2> QED
    BY <2>1, <2>2
<1>6. DOMAIN pollers = {}
  <2> SUFFICES ASSUME NEW p \in DOMAIN pollers PROVE FALSE
    OBVIOUS
  <2>1. E!Op \in ClosingOps
    BY <1>4 DEF EhciState, Left
  <2>2. E!Op = "set_protocol"
    BY <1>3, <2>1 DEF ClosingOps, E!Requests, E!Reads
  <2>3. p \in E!Ports /\ High(p)
    BY <1>1 DEF Owned
  <2>4. p = b
    BY <1>1, <1>5, <2>3, OnlyPort
  <2> QED
    BY <1>4, <2>2, <2>4 DEF EhciState, Left
<1>7. Resting
  BY <1>3, <1>6, AtFill DEF EhciState, Polling
<1>8. PICK s \in Nat, m \in 1..2 :
        /\ s = devices[b].setup
        /\ DOMAIN E!Chain(b) = {E!ControlTd(b, s + i) : i \in 0..m}
        /\ \A j \in 0..m : E!Chain(b)[E!ControlTd(b, s + j)] =
              [active |-> TRUE, offset |-> 0, ioc |-> j = m,
               next |-> IF j = m THEN E!Stop ELSE E!ControlTd(b, s + j + 1)]
  BY <1>1, ChainIs
<1>9. /\ DOMAIN td' = DOMAIN td \cup DOMAIN E!Chain(b)
      /\ \A t \in DOMAIN td' : td'[t] = IF t \in DOMAIN E!Chain(b) THEN E!Chain(b)[t] ELSE td[t]
  BY <1>3
<1>10. Known'
  <2>1. ASSUME NEW t \in DOMAIN td'
        PROVE  td'[t] = [active |-> td'[t].active, next |-> td'[t].next,
                         ioc |-> td'[t].ioc, offset |-> td'[t].offset]
    <3>1. CASE t \in DOMAIN E!Chain(b)
      <4>1. PICK j \in 0..m : t = E!ControlTd(b, s + j)
        BY <1>8, <3>1
      <4>2. td'[t] = [active |-> TRUE, offset |-> 0, ioc |-> j = m,
                      next |-> IF j = m THEN E!Stop ELSE E!ControlTd(b, s + j + 1)]
        BY <1>8, <1>9, <3>1, <4>1
      <4> DEFINE x == j = m
                 y == IF j = m THEN E!Stop ELSE E!ControlTd(b, s + j + 1)
      <4>3. td'[t] = [active |-> TRUE, offset |-> 0, ioc |-> x, next |-> y]
        BY <4>2
      <4> HIDE DEF x, y
      <4> QED
        BY <4>3
    <3>2. CASE t \notin DOMAIN E!Chain(b)
      BY <1>1, <1>9, <3>2 DEF Known
    <3> QED
      BY <3>1, <3>2
  <2> QED
    BY <1>1, <1>3, <2>1 DEF Known
<1>11. Owned'
  <2>1. \A t \in DOMAIN td' : \/ \E p \in E!Ports, i \in Nat : t = E!ControlTd(p, i)
                              \/ \E p \in DOMAIN pollers, i \in {0, 1} : t = E!PollTd(p, i)
    <3>1. ASSUME NEW t \in DOMAIN E!Chain(b)
          PROVE  \E p \in E!Ports, i \in Nat : t = E!ControlTd(p, i)
      <4>1. PICK j \in 0..m : t = E!ControlTd(b, s + j)
        BY <1>8, <3>1
      <4>2. s + j \in Nat
        OBVIOUS
      <4> QED
        BY <4>1, <4>2
    <3> QED
      BY <1>1, <1>9, <3>1 DEF Owned
  <2> QED
    BY <1>1, <1>3, <2>1 DEF Owned, High
<1>12. Left(script, DOMAIN qh, DOMAIN pollers)'
  <2>1. Left(script', DOMAIN qh', DOMAIN pollers')
    BY <1>3 DEF EhciState
  <2> QED
    BY <2>1
<1>13. E!Port' = b /\ E!Op' = E!Op /\ E!Booted' = E!Booted
  BY <1>2, <1>3 DEF E!Port, E!Op, E!Booted
<1>14. Within'
  BY <1>3, <1>4, <1>5, <1>13 DEF Within
<1>15. Causes'
  <2>1. "error" \notin usbint
    BY <1>7, NoErrorYet DEF Resting
  <2> QED
    BY <1>3, <1>4, <2>1, BootCauses DEF EhciState
<1>16. Built'
  <2>1. devices'[b].setup = s
    BY <1>3, <1>8
  <2>2. ASSUME NEW j \in 0..m
        PROVE  /\ E!ControlTd(b, s + j) \in DOMAIN td'
               /\ td'[E!ControlTd(b, s + j)] =
                     [active |-> TRUE, offset |-> 0, ioc |-> j = m,
                      next |-> IF j = m THEN E!Stop ELSE E!ControlTd(b, s + j + 1)]
    <3>1. E!ControlTd(b, s + j) \in DOMAIN E!Chain(b)
      BY <1>8
    <3> QED
      BY <1>8, <1>9, <3>1
  <2>3. Linked(b, s, m)'
    BY <2>2 DEF Linked
  <2>4. (\E n \in 1..2 : Linked(E!Port, devices[E!Port].setup, n))'
    BY <1>13, <2>1, <2>3
  <2> QED
    BY <1>3, <1>7, <2>4 DEF Built, Resting, Unasked, Stopped
<1> QED
  BY <1>10, <1>11, <1>12, <1>14, <1>15, <1>16 DEF EhciState, Stages

(* The boot core inside a request. *)
LEMMA Asking ==
    ASSUME EhciState, E!Running, step \in {"link", "count", "store", "check", "await"}
    PROVE  /\ BootSteps(script) /\ Known /\ Owned /\ isr = "idle" /\ halted = ""
           /\ E!Op \in E!Requests /\ E!Port \in E!Ports /\ E!ControlQh(E!Port) \in DOMAIN qh
           /\ Built \/ Sent \/ Finished \/ Replied
           /\ step # "link" => Sent \/ Finished \/ Replied
BY Runs DEF EhciState, Left, Within, Stages, Resting, Polling, Built

(* It goes on to the next statement. *)
LEMMA RequestGoesOn ==
    ASSUME EhciState, E!Running, step \in {"link", "count", "store", "check"},
           step' \in {"count", "store", "check", "await"},
           UNCHANGED <<attached, script, td, pollers, usbint, isr, halted, bus>>,
           DOMAIN qh' = DOMAIN qh, "error" \in usbint => UNCHANGED qh,
           Known', \A p \in E!Ports : devices'[p].state = devices[p].state,
           Sent' \/ Finished' \/ Replied'
    PROVE  EhciState'
<1>1. Owned'
  BY DEF EhciState, Owned, High
<1>2. Left(script, DOMAIN qh, DOMAIN pollers)'
  <2>1. Left(script', DOMAIN qh', DOMAIN pollers')
    BY DEF EhciState
  <2> QED
    BY <2>1
<1>3. Within'
  BY Asking DEF Within, E!Running, E!Booted, E!Op, E!Port
<1>4. Causes'
  BY BootCauses, Asking DEF EhciState
<1> QED
  BY <1>1, <1>2, <1>3, <1>4 DEF EhciState, Stages

LEMMA LinkKeeps ==
    ASSUME EhciState, E!Link
    PROVE  EhciState'
<1>1. /\ E!Running /\ step = "link" /\ step' = "count"
      /\ UNCHANGED <<attached, script, devices, td, pollers, interrupted, queue, inserted,
                     preinserted, usbint, isr, halted, bus>>
  BY DEF E!Link
<1>2. PICK b \in E!Ports : b = E!Port
  BY <1>1, Asking
<1>3. E!ControlQh(b) \in DOMAIN qh /\ Known /\ Owned /\ Built
  BY <1>1, <1>2, Asking DEF Sent, Finished, Replied, Requesting
<1>4. qh' = [qh EXCEPT ![E!ControlQh(b)].next = E!ControlTd(b, devices[b].setup)]
  BY <1>2 DEF E!Link
<1>5. DOMAIN qh' = DOMAIN qh
      /\ \A q \in DOMAIN qh : q # E!ControlQh(b) => qh'[q] = qh[q]
  BY <1>4
<1>6. qh'[E!ControlQh(b)] = [next |-> E!ControlTd(b, devices[b].setup),
                             current |-> qh[E!ControlQh(b)].current]
  <2>1. qh[E!ControlQh(b)] = [next |-> qh[E!ControlQh(b)].next,
                              current |-> qh[E!ControlQh(b)].current]
    BY <1>3 DEF Known
  <2> DEFINE r == qh[E!ControlQh(b)]
             x == r.next
             y == r.current
             new == E!ControlTd(b, devices[b].setup)
  <2>2. r = [next |-> x, current |-> y]
    BY <2>1
  <2>3. qh'[E!ControlQh(b)] = [r EXCEPT !.next = new]
    BY <1>3, <1>4
  <2> HIDE DEF r, x, y, new
  <2>4. [r EXCEPT !.next = new] = [next |-> new, current |-> y]
    BY <2>2
  <2> QED
    BY <2>3, <2>4 DEF new, r, y
<1>7. Known'
  <2>1. \A q \in DOMAIN qh' : qh'[q] = [next |-> qh'[q].next, current |-> qh'[q].current]
    BY <1>3, <1>5, <1>6 DEF Known
  <2> QED
    BY <1>1, <1>3, <2>1 DEF Known
<1>8. "error" \notin usbint
  BY <1>3, NoErrorYet DEF Built
<1>9. Sent'
  <2>1. E!Port' = b
    BY <1>1, <1>2 DEF E!Port
  <2>2. PICK s \in Nat : s = devices[b].setup
    BY <1>3 DEF Known
  <2>3. PICK n \in 1..2 : Linked(b, s, n)
    BY <1>2, <1>3, <2>2 DEF Built
  <2>4. Linked(b, s, n)'
    BY <1>1, <2>3 DEF Linked
  <2>5. qh'[E!ControlQh(b)].next = E!ControlTd(b, s)
    BY <1>6, <2>2
  <2>6. n \in 0..2
    OBVIOUS
  <2>7. (\E m \in 0..2, c \in Nat :
            /\ qh[E!ControlQh(E!Port)].next = E!ControlTd(E!Port, c)
            /\ Linked(E!Port, c, m))'
    BY <2>1, <2>4, <2>5, <2>6
  <2>8. (Requesting /\ Unanswered /\ Unmarked)'
    BY <1>1, <1>3 DEF Built, Requesting, Unanswered, Unmarked, Unasked
  <2> QED
    BY <2>7, <2>8 DEF Sent
<1> QED
  BY <1>1, <1>5, <1>7, <1>8, <1>9, RequestGoesOn

(* The transfer is where it was. *)
LEMMA TransferStays ==
    ASSUME Sent, UNCHANGED <<script, td>>,
           qh'[E!ControlQh(E!Port)] = qh[E!ControlQh(E!Port)],
           Requesting', Unanswered', Unmarked'
    PROVE  Sent'
<1>1. PICK b : b = E!Port
  OBVIOUS
<1>2. E!Port' = b
  BY <1>1 DEF E!Port
<1>3. PICK n \in 0..2, c \in Nat : /\ qh[E!ControlQh(b)].next = E!ControlTd(b, c)
                                   /\ Linked(b, c, n)
  BY <1>1 DEF Sent
<1>4. Linked(b, c, n)'
  BY <1>3 DEF Linked
<1>5. qh'[E!ControlQh(b)].next = E!ControlTd(b, c)
  BY <1>1, <1>3
<1>6. (\E m \in 0..2, d \in Nat :
          /\ qh[E!ControlQh(E!Port)].next = E!ControlTd(E!Port, d)
          /\ Linked(E!Port, d, m))'
  BY <1>2, <1>4, <1>5
<1> QED
  BY <1>6 DEF Sent

LEMMA SentStays ==
    ASSUME Sent, UNCHANGED <<script, td, usbint>>,
           qh'[E!ControlQh(E!Port)] = qh[E!ControlQh(E!Port)],
           Requesting', Unanswered'
    PROVE  Sent'
<1>1. Unmarked'
  BY DEF Sent, Unmarked
<1> QED
  BY <1>1, TransferStays

LEMMA CountKeeps ==
    ASSUME EhciState, E!Count
    PROVE  EhciState'
<1>1. /\ E!Running /\ step = "count" /\ step' = "store"
      /\ inserted' = inserted + 1 /\ queue' = Append(queue, E!Null)
      /\ UNCHANGED <<attached, script, devices, td, qh, pollers, interrupted,
                     preinserted, usbint, isr, halted, bus>>
  BY DEF E!Count
<1>2. /\ Sent \/ Finished \/ Replied
      /\ Known /\ Owned /\ isr = "idle"
  BY <1>1, Asking
<1>3. Known'
  BY <1>1, <1>2 DEF Known
<1>4. E!Port' = E!Port
  BY <1>1 DEF E!Port
<1>5. queue = <<>> /\ inserted = 0 /\ Requesting
  <2>1. queue = <<>> /\ inserted = Len(queue) /\ Requesting
    BY <1>1, <1>2 DEF Sent, Finished, Replied, Unanswered
  <2> QED
    BY <2>1
<1>6. queue' = <<E!Null>> /\ inserted' = 1 /\ inserted' = Len(queue')
  BY <1>1, <1>5
<1>7. Requesting'
  BY <1>1, <1>5 DEF Requesting
<1>8. CASE Sent
  <2>1. Unanswered'
    BY <1>1, <1>6, <1>8 DEF Sent, Unanswered
  <2>2. Sent'
    BY <1>1, <1>7, <1>8, <2>1, SentStays
  <2> QED
    BY <1>1, <1>3, <2>2, RequestGoesOn
<1>9. CASE Finished
  <2>1. Unanswered'
    BY <1>1, <1>6, <1>9 DEF Finished, Unanswered
  <2>2. Finished'
    BY <1>1, <1>4, <1>7, <1>9, <2>1 DEF Finished, Over
  <2> QED
    BY <1>1, <1>3, <2>2, RequestGoesOn
<1>10. CASE Replied
  <2>1. Replied'
    BY <1>1, <1>4, <1>6, <1>7, <1>10 DEF Replied, Over
  <2> QED
    BY <1>1, <1>3, <2>1, RequestGoesOn
<1> QED
  BY <1>2, <1>8, <1>9, <1>10

LEMMA StoreKeeps ==
    ASSUME EhciState, E!Store
    PROVE  EhciState'
<1>1. /\ E!Running /\ step = "store" /\ step' = "check"
      /\ queue' = IF queue = <<>> THEN queue
                  ELSE [queue EXCEPT ![Len(queue)] = E!ControlQh(E!Port)]
      /\ UNCHANGED <<attached, script, devices, td, qh, pollers, interrupted, inserted,
                     preinserted, usbint, isr, halted, bus>>
  BY DEF E!Store
<1>2. /\ Sent \/ Finished \/ Replied
      /\ Known /\ Owned /\ isr = "idle"
  BY <1>1, Asking
<1>3. Known'
  BY <1>1, <1>2 DEF Known
<1>4. E!Port' = E!Port
  BY <1>1 DEF E!Port
<1>5. queue = <<E!Null>> /\ inserted = Len(queue) /\ Requesting
  BY <1>1, <1>2 DEF Sent, Finished, Replied, Unanswered
<1>6. queue' = <<E!ControlQh(E!Port)>> /\ inserted' = Len(queue')
  <2> DEFINE x == E!Null
             y == E!ControlQh(E!Port)
  <2>1. queue = <<x>> /\ queue' = IF queue = <<>> THEN queue ELSE [queue EXCEPT ![Len(queue)] = y]
    BY <1>1, <1>5
  <2> HIDE DEF x, y
  <2>2. Len(queue) = 1 /\ queue # <<>>
    BY <2>1
  <2>3. queue' = <<y>> /\ Len(queue') = 1
    BY <2>1, <2>2
  <2> QED
    BY <1>1, <1>5, <2>2, <2>3 DEF y
<1>7. Requesting'
  BY <1>1, <1>5 DEF Requesting
<1>8. CASE Sent
  <2>1. Unanswered'
    BY <1>1, <1>4, <1>6, <1>8 DEF Sent, Unanswered
  <2>2. Sent'
    BY <1>1, <1>7, <1>8, <2>1, SentStays
  <2> QED
    BY <1>1, <1>3, <2>2, RequestGoesOn
<1>9. CASE Finished
  <2>1. Unanswered'
    BY <1>1, <1>4, <1>6, <1>9 DEF Finished, Unanswered
  <2>2. Finished'
    BY <1>1, <1>4, <1>7, <1>9, <2>1 DEF Finished, Over
  <2> QED
    BY <1>1, <1>3, <2>2, RequestGoesOn
<1>10. CASE Replied
  <2>1. Replied'
    BY <1>1, <1>4, <1>6, <1>7, <1>10 DEF Replied, Over
  <2> QED
    BY <1>1, <1>3, <2>1, RequestGoesOn
<1> QED
  BY <1>2, <1>8, <1>9, <1>10

LEMMA CheckKeeps ==
    ASSUME EhciState, E!Check
    PROVE  EhciState'
<1>1. /\ E!Running /\ step = "check" /\ step' = "await"
      /\ UNCHANGED <<attached, script, td, qh, pollers, interrupted, usbint, isr, halted, bus>>
      /\ devices' = [devices EXCEPT ![E!Port].setup = E!AdvanceSetupQtd(E!Port)]
      /\ preinserted # 0 => /\ preinserted' = preinserted - 1
                            /\ inserted' = inserted - 1 /\ queue' = Tail(queue)
      /\ preinserted = 0 => UNCHANGED <<preinserted, inserted, queue>>
  BY DEF E!Check
<1>2. /\ Sent \/ Finished \/ Replied
      /\ Known /\ Owned /\ isr = "idle" /\ E!Port \in E!Ports
  BY <1>1, Asking
<1>3. Known' /\ \A p \in E!Ports : devices'[p].state = devices[p].state
  <2>1. E!AdvanceSetupQtd(E!Port) \in Nat
    <3>1. devices[E!Port].setup \in Nat /\ E!LastTd \in Nat
      BY <1>2 DEF Known, E!LastTd
    <3>2. NQtds \in Nat \ {0}
      BY UsbAssumption
    <3>3. devices[E!Port].setup + E!LastTd + 1 \in Nat
      BY <3>1
    <3>4. \A x \in Nat : x % NQtds \in Nat
      BY <3>2
    <3> QED
      BY <3>3, <3>4 DEF E!AdvanceSetupQtd
  <2>2. devices' \in [E!Ports -> [state : {"detached", "reset", "address"}, address : Nat,
                                  setup : Nat]]
        /\ \A p \in E!Ports : devices'[p].state = devices[p].state
    BY <1>1, <1>2, <2>1 DEF Known
  <2> QED
    BY <1>1, <1>2, <2>2 DEF Known
<1>4. E!Port' = E!Port
  BY <1>1 DEF E!Port
<1>5. Requesting'
  BY <1>1, <1>2 DEF Requesting, Sent, Finished, Replied
<1>6. CASE Sent
  <2>1. Unanswered'
    BY <1>1, <1>4, <1>6 DEF Sent, Unanswered
  <2>2. Sent'
    BY <1>1, <1>5, <1>6, <2>1, SentStays
  <2> QED
    BY <1>1, <1>3, <2>2, RequestGoesOn
<1>7. CASE Finished
  <2>1. Unanswered'
    BY <1>1, <1>4, <1>7 DEF Finished, Unanswered
  <2>2. Finished'
    BY <1>1, <1>4, <1>5, <1>7, <2>1 DEF Finished, Over
  <2> QED
    BY <1>1, <1>3, <2>2, RequestGoesOn
<1>8. CASE Replied
  <2>1. preinserted' = 0 /\ queue' = <<>> /\ inserted' = Len(queue')
    <3>1. CASE preinserted = 0
      BY <1>1, <1>8, <3>1 DEF Replied
    <3>2. CASE preinserted # 0
      <4> DEFINE x == E!ControlQh(E!Port)
      <4>1. preinserted = 1 /\ queue = <<x>> /\ inserted = Len(queue)
        BY <1>1, <1>8, <3>2 DEF Replied
      <4> HIDE DEF x
      <4>2. Tail(queue) = <<>> /\ inserted = 1
        BY <4>1
      <4> QED
        BY <1>1, <4>1, <4>2
    <3> QED
      BY <3>1, <3>2
  <2>2. Replied'
    BY <1>1, <1>4, <1>5, <1>8, <2>1 DEF Replied, Over
  <2> QED
    BY <1>1, <1>3, <2>2, RequestGoesOn
<1> QED
  BY <1>2, <1>6, <1>7, <1>8

LEMMA AwaitKeeps ==
    ASSUME EhciState, E!AwaitInterrupt
    PROVE  EhciState'
<1>1. /\ E!Running /\ step = "await" /\ interrupted /\ interrupted' = FALSE
      /\ devices' = IF E!Op = "set_address"
                    THEN [devices EXCEPT ![E!Port].address = E!Port + 1,
                                         ![E!Port].state = "address"]
                    ELSE devices
      /\ script' = Tail(script) /\ step' = "fill"
      /\ UNCHANGED <<attached, td, qh, pollers, queue, inserted, preinserted, usbint, isr,
                     halted, bus>>
  BY DEF E!AwaitInterrupt
<1>2. PICK b \in E!Ports : b = E!Port
  BY <1>1, Asking
<1>3. /\ BootSteps(script) /\ Known /\ Owned /\ isr = "idle" /\ E!ControlQh(b) \in DOMAIN qh
      /\ Replied
  BY <1>1, <1>2, Asking DEF Sent, Finished, Unanswered
<1>4. Known'
  <2>1. b + 1 \in Nat
    BY UsbAssumption DEF E!Ports
  <2>2. devices' \in [E!Ports -> [state : {"detached", "reset", "address"}, address : Nat,
                                  setup : Nat]]
    <3> DEFINE D1 == [devices EXCEPT ![b].address = b + 1]
               R == [state : {"detached", "reset", "address"}, address : Nat, setup : Nat]
    <3>1. devices \in [E!Ports -> R]
      BY <1>3 DEF Known
    <3>2. D1 \in [E!Ports -> R]
      <4>1. [devices[b] EXCEPT !.address = b + 1] \in R
        BY <3>1, <2>1
      <4> HIDE DEF R
      <4> QED
        BY <3>1, <4>1
    <3>3. devices' = devices \/ devices' = [D1 EXCEPT ![b].state = "address"]
      BY <1>1, <1>2
    <3> HIDE DEF D1
    <3>4. [D1 EXCEPT ![b].state = "address"] \in [E!Ports -> R]
      <4>1. [D1[b] EXCEPT !.state = "address"] \in R
        BY <3>2
      <4> HIDE DEF R
      <4> QED
        BY <3>2, <4>1
    <3> QED
      BY <3>1, <3>3, <3>4
  <2> QED
    BY <1>1, <1>3, <2>2 DEF Known
<1>5. Owned'
  <2>1. \A p \in E!Ports : devices'[p].state # "detached" => E!ControlQh(p) \in DOMAIN qh
    BY <1>1, <1>2, <1>3 DEF Owned, Known
  <2> QED
    BY <1>1, <1>3, <2>1 DEF Owned, High
<1>6. Left(script, DOMAIN qh, DOMAIN pollers)'
  <2>1. script[1][2] = b /\ 1 \in 1..Len(script) /\ script' = SubSeq(script, 1 + 1, Len(script))
    BY <1>1, <1>2, <1>3, Runs
  <2>2. Left(script, DOMAIN qh, DOMAIN pollers) /\ E!ControlQh(script[1][2]) \in DOMAIN qh
    BY <1>3, <2>1 DEF EhciState
  <2>3. Left(SubSeq(script, 1 + 1, Len(script)), DOMAIN qh, DOMAIN pollers)
    BY <2>1, <2>2, LeftKept
  <2>4. Left(script', DOMAIN qh', DOMAIN pollers')
    BY <1>1, <2>1, <2>3
  <2> QED
    BY <2>4
<1>7. Within'
  BY <1>1 DEF Within
<1>8. Causes'
  BY <1>1, <1>3, BootCauses DEF EhciState
<1>9. Resting'
  <2>1. ASSUME NEW p \in E!Ports PROVE Stopped(p)'
    <3>1. E!ControlQh(p) \in DOMAIN qh => p = b
      BY <1>3, ControlHigh, OnlyPort
    <3>2. qh[E!ControlQh(b)].next = E!Stop
      BY <1>2, <1>3 DEF Replied, Over
    <3> QED
      BY <1>1, <3>1, <3>2 DEF Stopped
  <2>2. queue = <<>> /\ preinserted = 0 /\ inserted = 0 /\ "int" \notin usbint /\ DOMAIN pollers = {}
    <3>1. queue = <<>> /\ preinserted = 0 /\ inserted = Len(queue) /\ "int" \notin usbint
          /\ DOMAIN pollers = {}
      BY <1>1, <1>3 DEF Replied, Requesting
    <3> QED
      BY <3>1
  <2> QED
    BY <1>1, <2>1, <2>2 DEF Resting, Unasked
<1> QED
  BY <1>4, <1>5, <1>6, <1>7, <1>8, <1>9 DEF EhciState, Stages

-----------------------------------------------------------------------------
(* The controller and the devices.                                         *)

LEMMA NothingHappens ==
    ASSUME EhciState,
           UNCHANGED <<attached, script, step, devices, td, qh, pollers, interrupted, queue,
                       inserted, preinserted, usbint, isr, halted, bus>>
    PROVE  EhciState'
<1>1. Known' /\ Owned'
  BY SameStructures DEF EhciState
<1>2. Left(script, DOMAIN qh, DOMAIN pollers)'
  <2>1. Left(script', DOMAIN qh', DOMAIN pollers')
    BY DEF EhciState
  <2> QED
    BY <2>1
<1>3. E!Port' = E!Port /\ E!Op' = E!Op /\ E!Booted' = E!Booted
  BY DEF E!Port, E!Op, E!Booted
<1>4. Within'
  BY <1>3 DEF EhciState, Within
<1>5. Causes'
  BY DEF EhciState, Causes, High, E!Ready
<1>6. Stages'
  <2>1. CASE Sent
    <3>1. Requesting' /\ Unanswered'
      BY <1>3, <2>1 DEF Sent, Requesting, Unanswered
    <3> QED
      BY <2>1, <3>1, SentStays DEF Stages
  <2>2. CASE Resting
    BY <2>2 DEF Stages, Resting, Unasked, Stopped
  <2>3. CASE Built
    <3>1. PICK n \in 1..2 : Linked(E!Port, devices[E!Port].setup, n)
      BY <2>3 DEF Built
    <3>2. PICK b, s : b = E!Port /\ s = devices[E!Port].setup
      OBVIOUS
    <3>3. Linked(b, s, n)'
      BY <3>1, <3>2 DEF Linked
    <3>4. (\E m \in 1..2 : Linked(E!Port, devices[E!Port].setup, m))'
      BY <1>3, <3>2, <3>3
    <3> QED
      BY <2>3, <3>4 DEF Stages, Built, Unasked, Stopped
  <2>4. CASE Finished
    BY <1>3, <2>4 DEF Stages, Finished, Requesting, Unanswered, Over
  <2>5. CASE Replied
    BY <1>3, <2>5 DEF Stages, Replied, Requesting, Over
  <2>6. CASE Polling
    BY <2>6 DEF Stages, Polling, Unasked, Stopped, PollTds, Armed, Used, Unmarked
  <2> QED
    BY <2>1, <2>2, <2>3, <2>4, <2>5, <2>6 DEF EhciState, Stages
<1> QED
  BY <1>1, <1>2, <1>4, <1>5, <1>6 DEF EhciState

(* A transfer the controller can go on with was sent; a report it can take *)
(* is waited for.                                                          *)
LEMMA ControlReady ==
    ASSUME EhciState, NEW p \in E!Ports, E!Ready(E!ControlQh(p))
    PROVE  Sent /\ p = E!Port /\ High(p)
<1>1. Owned /\ E!Stop \notin DOMAIN td /\ E!ControlQh(p) \in DOMAIN qh
      /\ qh[E!ControlQh(p)].next # E!Stop
  BY StopIsNone DEF EhciState, E!Ready
<1>2. High(p)
  BY <1>1, ControlHigh
<1>3. ~Stopped(p)
  BY <1>1 DEF Stopped
<1>4. Sent \/ Finished \/ Replied
  BY <1>3 DEF EhciState, Stages, Resting, Built, Polling
<1>5. E!ControlQh(E!Port) \in DOMAIN qh
  BY <1>4 DEF EhciState, Within, Sent, Finished, Replied, Requesting
<1>6. E!Port \in E!Ports
  <2>1. script \in Seq(Ops \X E!Ports) /\ script # <<>>
    BY <1>4 DEF EhciState, Left, BootSteps, Within, Sent, Finished, Replied, Requesting, E!Booted
  <2>2. Head(script) \in Ops \X E!Ports
    BY <2>1
  <2>3. \A x \in Ops \X E!Ports : x[2] \in E!Ports
    OBVIOUS
  <2> QED
    BY <2>2, <2>3 DEF E!Port
<1>7. p = E!Port
  BY <1>1, <1>2, <1>5, <1>6, OnlyPort
<1> QED
  BY <1>1, <1>2, <1>4, <1>7 DEF Finished, Replied, Over

LEMMA PollReady ==
    ASSUME EhciState, NEW p \in E!Ports, E!Ready(E!PollQh(p))
    PROVE  Polling /\ p \in DOMAIN pollers /\ High(p) /\ PollTds(p) /\ Armed(p)
           /\ \A r \in DOMAIN pollers : r = p
<1>1. Owned /\ E!Stop \notin DOMAIN td /\ E!PollQh(p) \in DOMAIN qh
      /\ qh[E!PollQh(p)].next # E!Stop
  BY StopIsNone DEF EhciState, E!Ready
<1>2. p \in DOMAIN pollers
  BY <1>1 DEF Owned
<1>3. High(p) /\ \A r \in DOMAIN pollers : r = p
  BY <1>1, <1>2 DEF Owned
<1>4. Polling
  BY <1>2 DEF EhciState, Stages, Resting, Built, Sent, Finished, Replied, Requesting
<1>5. ~Used(p)
  <2>1. CASE Used(p)
    <3>1. qh[E!PollQh(p)].next = E!Stop
      BY <2>1 DEF Used
    <3> QED
      BY <1>1, <3>1
  <2> QED
    BY <2>1
<1> QED
  BY <1>2, <1>3, <1>4, <1>5 DEF Polling

(* A device that is there makes no error. *)
LEMMA NoErrorWhenOn ==
    ASSUME EhciState, NEW p \in E!Ports, High(p), attached[p].on
    PROVE  "error" \notin usbint /\ "port" \notin usbint
<1>1. ASSUME "error" \in usbint PROVE FALSE
  <2>1. PICK r \in E!Ports : ~attached[r].on /\ (E!Ready(E!ControlQh(r)) \/ E!Ready(E!PollQh(r)))
    BY <1>1 DEF EhciState, Causes
  <2>2. High(r)
    BY <2>1, ControlReady, PollReady
  <2>3. r = p
    BY <2>2 DEF EhciState, Owned
  <2> QED
    BY <2>1, <2>3
<1> QED
  BY <1>1 DEF EhciState, Causes

LEMMA RecordDone ==
    ASSUME NEW f, NEW d, NEW e, e = [d EXCEPT !.active = FALSE, !.offset = f],
           d = [active |-> d.active, next |-> d.next, ioc |-> d.ioc, offset |-> d.offset]
    PROVE  e = [active |-> FALSE, next |-> d.next, ioc |-> d.ioc, offset |-> f]
OBVIOUS

(* What Done does to the descriptor and its queue head. *)
LEMMA DoneIs ==
    ASSUME Known, NEW q \in DOMAIN qh, NEW t \in DOMAIN td, E!Done(q, t)
    PROVE  /\ DOMAIN td' = DOMAIN td /\ DOMAIN qh' = DOMAIN qh
           /\ \A u \in DOMAIN td : u # t => td'[u] = td[u]
           /\ td'[t] = [active |-> FALSE, next |-> td[t].next, ioc |-> td[t].ioc,
                        offset |-> IF E!IsPoll(t) THEN td[t].offset + 1 ELSE td[t].offset]
           /\ \A x \in DOMAIN qh : x # q => qh'[x] = qh[x]
           /\ qh'[q] = [next |-> td[t].next, current |-> t]
           /\ usbint' = IF td[t].ioc THEN usbint \cup {"int"} ELSE usbint
<1> DEFINE f == IF E!IsPoll(t) THEN td[t].offset + 1 ELSE td[t].offset
           d == td[t]
<1>1. /\ td' = [td EXCEPT ![t].active = FALSE,
                          ![t].offset = IF E!IsPoll(t) THEN @ + 1 ELSE @]
      /\ qh' = [qh EXCEPT ![q] = [next |-> td[t].next, current |-> t]]
      /\ usbint' = IF td[t].ioc THEN usbint \cup {"int"} ELSE usbint
  BY DEF E!Done
<1>2. DOMAIN td' = DOMAIN td /\ \A u \in DOMAIN td : u # t => td'[u] = td[u]
  BY <1>1
<1>3. d = [active |-> d.active, next |-> d.next, ioc |-> d.ioc, offset |-> d.offset]
  BY DEF Known
<1>4. td'[t] = [d EXCEPT !.active = FALSE, !.offset = f]
  BY <1>1, <1>3
<1>5. td'[t] = [active |-> FALSE, next |-> d.next, ioc |-> d.ioc, offset |-> f]
  <2> HIDE DEF d, f
  <2> QED
    BY <1>3, <1>4, RecordDone
<1> QED
  BY <1>1, <1>2, <1>5 DEF d

LEMMA DoneKnown ==
    ASSUME Known, NEW q \in DOMAIN qh, NEW t \in DOMAIN td, E!Done(q, t)
    PROVE  /\ \A x \in DOMAIN qh' : qh'[x] = [next |-> qh'[x].next, current |-> qh'[x].current]
           /\ \A u \in DOMAIN td' : td'[u] = [active |-> td'[u].active, next |-> td'[u].next,
                                              ioc |-> td'[u].ioc, offset |-> td'[u].offset]
<1>1. /\ DOMAIN td' = DOMAIN td /\ DOMAIN qh' = DOMAIN qh
      /\ \A u \in DOMAIN td : u # t => td'[u] = td[u]
      /\ td'[t] = [active |-> FALSE, next |-> td[t].next, ioc |-> td[t].ioc,
                   offset |-> IF E!IsPoll(t) THEN td[t].offset + 1 ELSE td[t].offset]
      /\ \A x \in DOMAIN qh : x # q => qh'[x] = qh[x]
      /\ qh'[q] = [next |-> td[t].next, current |-> t]
  BY DoneIs
<1>2. \A x \in DOMAIN qh' : qh'[x] = [next |-> qh'[x].next, current |-> qh'[x].current]
  BY <1>1 DEF Known
<1>3. ASSUME NEW u \in DOMAIN td'
      PROVE  td'[u] = [active |-> td'[u].active, next |-> td'[u].next,
                       ioc |-> td'[u].ioc, offset |-> td'[u].offset]
  <2> DEFINE y == td[t].next
             z == td[t].ioc
             f == IF E!IsPoll(t) THEN td[t].offset + 1 ELSE td[t].offset
  <2>1. td'[t] = [active |-> FALSE, next |-> y, ioc |-> z, offset |-> f]
    BY <1>1
  <2> HIDE DEF y, z, f
  <2> QED
    BY <1>1, <2>1 DEF Known
<1> QED
  BY <1>2, <1>3

(* The structures keep their owners. *)
LEMMA SameOwners ==
    ASSUME EhciState, DOMAIN td' = DOMAIN td, DOMAIN qh' = DOMAIN qh,
           DOMAIN pollers' = DOMAIN pollers,
           UNCHANGED <<attached, script, step, devices>>
    PROVE  Owned' /\ Left(script, DOMAIN qh, DOMAIN pollers)' /\ Within'
           /\ E!Port' = E!Port /\ E!Op' = E!Op
<1>1. Owned'
  BY DEF EhciState, Owned, High
<1>2. Left(script, DOMAIN qh, DOMAIN pollers)'
  <2>1. Left(script', DOMAIN qh', DOMAIN pollers')
    BY DEF EhciState
  <2> QED
    BY <2>1
<1>3. E!Port' = E!Port /\ E!Op' = E!Op /\ E!Booted' = E!Booted
  BY DEF E!Port, E!Op, E!Booted
<1>4. Within'
  BY <1>3 DEF EhciState, Within
<1> QED
  BY <1>1, <1>2, <1>3, <1>4

LEMMA RecordNext ==
    ASSUME NEW d, NEW e, NEW x, e = [d EXCEPT !.next = x],
           d = [next |-> d.next, current |-> d.current]
    PROVE  e = [next |-> x, current |-> d.current]
OBVIOUS

LEMMA RecordAnswer ==
    ASSUME NEW d, NEW e, NEW x, NEW y, e = [d EXCEPT !.request = x, !.address = y],
           d = [address |-> d.address, request |-> d.request, reports |-> d.reports]
    PROVE  e = [address |-> y, request |-> x, reports |-> d.reports]
OBVIOUS

LEMMA RecordRequest ==
    ASSUME NEW d, NEW e, NEW x, e = [d EXCEPT !.request = x],
           d = [address |-> d.address, request |-> d.request, reports |-> d.reports]
    PROVE  e = [address |-> d.address, request |-> x, reports |-> d.reports]
OBVIOUS

LEMMA RecordReport ==
    ASSUME NEW d, NEW e, NEW z, e = [d EXCEPT !.reports = z],
           d = [address |-> d.address, request |-> d.request, reports |-> d.reports]
    PROVE  e = [address |-> d.address, request |-> d.request, reports |-> z]
OBVIOUS

(* Where script and step stay, the parts make the whole. *)
LEMMA StepOver ==
    ASSUME EhciState, DOMAIN qh' = DOMAIN qh, DOMAIN pollers' = DOMAIN pollers,
           UNCHANGED <<script, step>>, Known', Owned', Causes', Stages'
    PROVE  EhciState'
<1>1. Left(script, DOMAIN qh, DOMAIN pollers)'
  <2>1. Left(script', DOMAIN qh', DOMAIN pollers')
    BY DEF EhciState
  <2> QED
    BY <2>1
<1>2. E!Port' = E!Port /\ E!Op' = E!Op /\ E!Booted' = E!Booted
  BY DEF E!Port, E!Op, E!Booted
<1>3. Within'
  BY <1>2 DEF EhciState, Within
<1> QED
  BY <1>1, <1>3 DEF EhciState

(* A stage lasts as long as the causes say what they said. *)
LEMMA StagesStay ==
    ASSUME EhciState,
           UNCHANGED <<script, step, td, qh, pollers, interrupted, queue, inserted,
                       preinserted, bus>>,
           \A p \in E!Ports : devices'[p].setup = devices[p].setup,
           Resting \/ Built => "int" \notin usbint',
           Sent => Unmarked',
           Finished => isr' # "clear",
           Replied => ("int" \in usbint' => isr' = "clear"),
           \A p \in DOMAIN pollers :
               /\ Polling /\ Armed(p) => (isr' = "clear" \/ Unmarked') /\ isr' # "scan"
               /\ Polling /\ Used(p) => isr' # "clear"
    PROVE  Stages'
<1>1. E!Port' = E!Port /\ E!Op' = E!Op /\ E!Booted' = E!Booted
  BY DEF E!Port, E!Op, E!Booted
<1>2. CASE Sent
  <2>1. Requesting' /\ Unanswered'
    BY <1>1, <1>2 DEF Sent, Requesting, Unanswered
  <2> QED
    BY <1>2, <2>1, TransferStays DEF Stages
<1>3. CASE Resting
  BY <1>3 DEF Stages, Resting, Unasked, Stopped
<1>4. CASE Built
  <2>1. PICK n \in 1..2 : Linked(E!Port, devices[E!Port].setup, n)
    BY <1>4 DEF Built
  <2>2. PICK b, s : b = E!Port /\ s = devices[E!Port].setup
    OBVIOUS
  <2>3. Linked(b, s, n)'
    BY <2>1, <2>2 DEF Linked
  <2>4. b \in E!Ports
    <3>1. script \in Seq(Ops \X E!Ports) /\ script # <<>>
      BY <1>4 DEF EhciState, Left, BootSteps, Within, Built, E!Booted
    <3>2. Head(script) \in Ops \X E!Ports
      BY <3>1
    <3>3. \A x \in Ops \X E!Ports : x[2] \in E!Ports
      OBVIOUS
    <3> QED
      BY <2>2, <3>2, <3>3 DEF E!Port
  <2>5. devices'[b].setup = s
    BY <2>2, <2>4
  <2>6. (\E m \in 1..2 : Linked(E!Port, devices[E!Port].setup, m))'
    BY <1>1, <2>2, <2>3, <2>5
  <2> QED
    BY <1>4, <2>6 DEF Stages, Built, Unasked, Stopped
<1>5. CASE Finished
  BY <1>1, <1>5 DEF Stages, Finished, Requesting, Unanswered, Over
<1>6. CASE Replied
  BY <1>1, <1>6 DEF Stages, Replied, Requesting, Over
<1>7. CASE Polling
  <2>1. ASSUME NEW p \in DOMAIN pollers'
        PROVE  PollTds(p)' /\ (Armed(p)' \/ Used(p)')
    <3>1. PollTds(p) /\ (Armed(p) \/ Used(p))
      BY <1>7, <2>1 DEF Polling
    <3>2. PollTds(p)'
      BY <3>1 DEF PollTds
    <3>3. CASE Armed(p)
      <4>1. Armed(p)'
        BY <1>7, <2>1, <3>3 DEF Armed
      <4> QED
        BY <3>2, <4>1
    <3>4. CASE Used(p)
      <4>1. Used(p)'
        BY <1>7, <2>1, <3>4 DEF Used
      <4> QED
        BY <3>2, <4>1
    <3> QED
      BY <3>1, <3>3, <3>4
  <2> QED
    BY <1>7, <2>1 DEF Stages, Polling, Unasked, Stopped
<1> QED
  BY <1>2, <1>3, <1>4, <1>5, <1>6, <1>7 DEF EhciState, Stages

LEMMA HcAsyncKeeps ==
    ASSUME EhciState, E!HcAsync
    PROVE  EhciState'
BY NothingHappens DEF E!HcAsync

LEMMA HcErrorKeeps ==
    ASSUME EhciState, ~Races, NEW p \in E!Ports, E!HcError(p)
    PROVE  EhciState'
<1>1. /\ isr = "idle" /\ ~attached[p].on
      /\ E!Ready(E!ControlQh(p)) \/ E!Ready(E!PollQh(p))
      /\ usbint' = usbint \cup {"int", "error"}
      /\ UNCHANGED <<attached, script, step, devices, td, qh, pollers, interrupted, queue,
                     inserted, preinserted, isr, halted, bus>>
  BY DEF E!HcError, E!Calm, E!Idle
<1>2. Known' /\ Owned'
  BY <1>1, SameStructures DEF EhciState
<1>3. Causes'
  BY <1>1 DEF EhciState, Causes, High, E!Ready
<1>4. Sent \/ (Polling /\ \A r \in DOMAIN pollers : Armed(r))
  <2>1. CASE E!Ready(E!ControlQh(p))
    BY <2>1, ControlReady
  <2>2. CASE E!Ready(E!PollQh(p))
    <3>1. Polling /\ Armed(p) /\ \A r \in DOMAIN pollers : r = p
      BY <2>2, PollReady
    <3> QED
      BY <3>1
  <2> QED
    BY <1>1, <2>1, <2>2
<1>5. Unmarked'
  BY <1>1 DEF Unmarked
<1>6. Stages'
  <2>1. CASE Sent
    <3>1. E!Port' = E!Port
      BY <1>1 DEF E!Port
    <3>2. Requesting' /\ Unanswered'
      BY <1>1, <2>1, <3>1 DEF Sent, Requesting, Unanswered
    <3> QED
      BY <1>1, <1>5, <2>1, <3>2, TransferStays DEF Stages
  <2>2. CASE Polling /\ \A r \in DOMAIN pollers : Armed(r)
    BY <1>1, <1>5, <2>2 DEF Stages, Polling, Unasked, Stopped, PollTds, Armed
  <2> QED
    BY <1>4, <2>1, <2>2
<1> QED
  BY <1>1, <1>2, <1>3, <1>6, StepOver

LEMMA RecordOff ==
    ASSUME NEW d, NEW e, e = [d EXCEPT !.on = FALSE],
           d = [speed |-> d.speed, endpoints |-> d.endpoints, interval |-> d.interval,
                on |-> d.on]
    PROVE  e = [speed |-> d.speed, endpoints |-> d.endpoints, interval |-> d.interval,
                on |-> FALSE]
OBVIOUS

LEMMA UnplugKeeps ==
    ASSUME EhciState, ~Races, NEW p \in E!Ports, E!Unplug(p)
    PROVE  EhciState'
<1>1. /\ isr = "idle" /\ usbint = {} /\ step = "fill" /\ High(p)
      /\ attached' = [attached EXCEPT ![p].on = FALSE]
      /\ usbint' = usbint \cup {"port"}
      /\ UNCHANGED <<script, step, devices, td, qh, pollers, interrupted, queue, inserted,
                     preinserted, isr, halted, bus>>
  BY DEF E!Unplug, E!Idle, High
<1>2. DOMAIN attached = E!Ports
  BY DEF EhciState, Known
<1>3. attached'[p] = [speed |-> attached[p].speed, endpoints |-> attached[p].endpoints,
                      interval |-> attached[p].interval, on |-> FALSE]
  <2>1. attached'[p] = [attached[p] EXCEPT !.on = FALSE]
    BY <1>1, <1>2
  <2>2. attached[p] = [speed |-> attached[p].speed, endpoints |-> attached[p].endpoints,
                       interval |-> attached[p].interval, on |-> attached[p].on]
    BY DEF EhciState, Known
  <2> QED
    BY <2>1, <2>2, RecordOff
<1>4. DOMAIN attached' = E!Ports /\ \A r \in E!Ports : r # p => attached'[r] = attached[r]
  BY <1>1, <1>2
<1>5. Known'
  <2>1. \A r \in E!Ports :
          attached'[r] = [speed |-> attached'[r].speed, endpoints |-> attached'[r].endpoints,
                          interval |-> attached'[r].interval, on |-> attached'[r].on]
    BY <1>3, <1>4 DEF EhciState, Known
  <2> QED
    BY <1>1, <1>4, <2>1 DEF EhciState, Known
<1>6. \A r \in E!Ports : High(r)' <=> High(r)
  BY <1>3, <1>4 DEF High
<1>7. Owned'
  BY <1>1, <1>6 DEF EhciState, Owned
<1>8. Causes'
  <2>1. \A r \in E!Ports : High(r)' => ~attached'[r].on
    <3>1. \A r \in E!Ports : High(r) => r = p
      BY <1>1 DEF EhciState, Owned
    <3> QED
      BY <1>3, <1>6, <3>1
  <2>2. halted = ""
    BY <1>1 DEF EhciState, Causes
  <2> QED
    BY <1>1, <2>1, <2>2 DEF EhciState, Causes
<1>9. Stages'
  <2>1. Resting \/ Polling
    BY <1>1 DEF EhciState, Stages, Built, Sent, Finished, Replied, Requesting
  <2>2. CASE Resting
    BY <1>1, <2>2 DEF Stages, Resting, Unasked, Stopped
  <2>3. CASE Polling
    <3>1. Unmarked'
      BY <1>1 DEF Unmarked
    <3> QED
      BY <1>1, <2>3, <3>1 DEF Stages, Polling, Unasked, Stopped, PollTds, Armed, Used
  <2> QED
    BY <2>1, <2>2, <2>3
<1> QED
  BY <1>1, <1>5, <1>7, <1>8, <1>9, StepOver

LEMMA ClearKeeps ==
    ASSUME EhciState, E!ClearUsbInt
    PROVE  EhciState'
<1>1. /\ isr = "clear" /\ usbint' = usbint \ {"int"} /\ isr' = "idle"
      /\ UNCHANGED <<attached, script, step, devices, td, qh, pollers, interrupted, queue,
                     inserted, preinserted, halted, bus>>
  BY DEF E!ClearUsbInt, E!Idle
<1>2. Known' /\ Owned'
  BY <1>1, SameStructures DEF EhciState
<1>3. usbint = {"int"} /\ usbint' = {}
  BY <1>1 DEF EhciState, Causes
<1>4. Causes'
  BY <1>1, <1>3 DEF EhciState, Causes
<1>5. Unmarked'
  BY <1>3 DEF Unmarked
<1>6. Stages'
  BY <1>1, <1>3, <1>5, StagesStay
<1> QED
  BY <1>1, <1>2, <1>4, <1>6, StepOver

LEMMA HandlePortsKeeps ==
    ASSUME EhciState, E!HandlePorts
    PROVE  EhciState'
<1>1. /\ isr = "ports" /\ usbint' = usbint \ {"port"} /\ isr' = "idle"
      /\ devices' = [p \in E!Ports |->
                        IF attached[p].speed # "none" /\ ~attached[p].on
                        THEN [devices[p] EXCEPT !.state = "detached"] ELSE devices[p]]
      /\ UNCHANGED <<attached, script, step, td, qh, pollers, interrupted, queue, inserted,
                     preinserted, halted, bus>>
  BY DEF E!HandlePorts, E!Idle
<1>2. usbint = {"port"} /\ usbint' = {}
  BY <1>1 DEF EhciState, Causes
<1>3. ASSUME NEW p \in E!Ports
      PROVE  /\ devices'[p] \in [state : {"detached", "reset", "address"}, address : Nat,
                                 setup : Nat]
             /\ devices'[p].setup = devices[p].setup
             /\ devices'[p].state # "detached" => devices[p].state # "detached"
  <2>1. devices[p] \in [state : {"detached", "reset", "address"}, address : Nat,
                        setup : Nat]
    BY DEF EhciState, Known
  <2>2. devices'[p] = devices[p] \/ devices'[p] = [devices[p] EXCEPT !.state = "detached"]
    BY <1>1
  <2> QED
    BY <2>1, <2>2
<1>4. devices' \in [E!Ports -> [state : {"detached", "reset", "address"}, address : Nat,
                                setup : Nat]]
  BY <1>1, <1>3
<1>5. Known'
  BY <1>1, <1>4 DEF EhciState, Known
<1>6. Owned'
  BY <1>1, <1>3 DEF EhciState, Owned, High
<1>7. Causes'
  BY <1>1, <1>2 DEF EhciState, Causes
<1>8. Unmarked'
  BY <1>2 DEF Unmarked
<1>9. Stages'
  BY <1>1, <1>2, <1>3, <1>8, StagesStay
<1> QED
  BY <1>1, <1>5, <1>6, <1>7, <1>9, StepOver

LEMMA InterruptKeeps ==
    ASSUME EhciState, ~Races, E!Interrupt
    PROVE  EhciState'
<1>1. /\ isr = "idle" /\ halted = "" /\ step # "store"
      /\ "int" \in usbint \/ "error" \in usbint \/ "port" \in usbint
      /\ UNCHANGED <<attached, script, step, devices, td, qh, pollers, interrupted, queue,
                     inserted, preinserted, usbint, bus>>
  BY DEF E!Interrupt, E!Delivered, E!Idle
<1>2. \/ usbint = {"int"} /\ isr' = "scan" /\ UNCHANGED halted
      \/ usbint = {"port"} /\ isr' = "ports" /\ UNCHANGED halted
      \/ usbint # {"int"} /\ usbint # {"port"} /\ UNCHANGED isr
  BY DEF E!Interrupt
<1>3. Known' /\ Owned'
  BY <1>1, SameStructures DEF EhciState
<1>4. CASE usbint = {"int"} /\ isr' = "scan" /\ UNCHANGED halted
  <2>1. Causes'
    BY <1>1, <1>4 DEF EhciState, Causes
  <2>2. ~Unmarked
    BY <1>4 DEF Unmarked
  <2>3. ~Resting /\ ~Built /\ ~Sent /\ ~Replied /\ \A p \in DOMAIN pollers : ~Armed(p)
    BY <1>1, <1>4, <2>2 DEF Resting, Built, Sent, Replied, Armed
  <2>4. Stages'
    BY <1>1, <1>4, <2>3, StagesStay
  <2> QED
    BY <1>1, <1>3, <2>1, <2>4, StepOver
<1>5. CASE usbint = {"port"} /\ isr' = "ports" /\ UNCHANGED halted
  <2>1. Causes'
    BY <1>1, <1>5 DEF EhciState, Causes, High, E!Ready
  <2>2. Unmarked'
    BY <1>1, <1>5 DEF Unmarked
  <2>3. Stages'
    BY <1>1, <1>5, <2>2, StagesStay
  <2> QED
    BY <1>1, <1>3, <2>1, <2>3, StepOver
<1>6. CASE usbint # {"int"} /\ usbint # {"port"} /\ UNCHANGED isr
  <2>1. "error" \in usbint
    <3>1. usbint \subseteq {"int", "error", "port"}
          /\ ({"int", "port"} \subseteq usbint => "error" \in usbint)
      BY DEF EhciState, Causes
    <3> QED
      BY <1>1, <1>6, <3>1
  <2>2. Causes'
    BY <1>1, <1>6, <2>1 DEF EhciState, Causes, High, E!Ready
  <2>3. Unmarked'
    BY <1>1, <2>1 DEF Unmarked
  <2>4. Replied => "int" \notin usbint
    BY <1>1 DEF Replied
  <2>5. Stages'
    BY <1>1, <1>6, <2>3, <2>4, StagesStay DEF Resting, Built
  <2> QED
    BY <1>1, <1>3, <2>2, <2>5, StepOver
<1> QED
  BY <1>2, <1>4, <1>5, <1>6

(* Nothing has been told while a device that is there is served. *)
LEMMA Quiet ==
    ASSUME EhciState, ~Races, NEW p \in E!Ports, High(p), attached[p].on, E!Calm,
           Sent \/ (Polling /\ Armed(p))
    PROVE  isr = "idle" /\ usbint = {} /\ halted = ""
<1>1. "error" \notin usbint /\ "port" \notin usbint
  BY NoErrorWhenOn
<1>2. isr = "idle"
  BY DEF E!Calm, E!Idle
<1>3. Unmarked
  BY <1>2 DEF Sent, Armed
<1> QED
  BY <1>1, <1>2, <1>3 DEF EhciState, Causes, Unmarked

(* The device answers the next part of a transfer. *)
LEMMA ControlAnswered ==
    ASSUME EhciState, ~Races, NEW p \in E!Ports, E!HcControl(p)
    PROVE  EhciState'
<1>1. /\ E!Calm /\ E!Ready(E!ControlQh(p)) /\ attached[p].on
      /\ E!Done(E!ControlQh(p), qh[E!ControlQh(p)].next)
      /\ bus' = [bus EXCEPT ![p] =
                    IF td[qh[E!ControlQh(p)].next].ioc
                    THEN [@ EXCEPT !.request = "none",
                                   !.address = IF bus[p].address = 0 THEN p + 1
                                               ELSE bus[p].address]
                    ELSE [@ EXCEPT !.request = E!Op]]
      /\ UNCHANGED <<attached, script, step, devices, pollers, interrupted, queue,
                     inserted, preinserted, isr, halted>>
  BY DEF E!HcControl
<1>2. Sent /\ p = E!Port /\ High(p)
  BY <1>1, ControlReady
<1>3. isr = "idle" /\ usbint = {} /\ halted = ""
  BY <1>1, <1>2, Quiet
<1>4. PICK n \in 0..2, c \in Nat : /\ qh[E!ControlQh(p)].next = E!ControlTd(p, c)
                                   /\ Linked(p, c, n)
  BY <1>2 DEF Sent
<1>5. PICK t, q : t = E!ControlTd(p, c) /\ q = E!ControlQh(p)
  OBVIOUS
<1>6. t \in DOMAIN td /\ q \in DOMAIN qh /\ E!Done(q, t)
  BY <1>1, <1>4, <1>5 DEF E!Ready
<1>7. td[t].ioc = (n = 0)
      /\ td[t].next = IF n = 0 THEN E!Stop ELSE E!ControlTd(p, c + 1)
  <2>1. 0 \in 0..n /\ c + 0 = c /\ c + 0 + 1 = c + 1 /\ (0 = n <=> n = 0)
    OBVIOUS
  <2>2. td[E!ControlTd(p, c + 0)] =
            [active |-> TRUE, offset |-> 0, ioc |-> 0 = n,
             next |-> IF 0 = n THEN E!Stop ELSE E!ControlTd(p, c + 0 + 1)]
    BY <1>4, <2>1 DEF Linked
  <2> QED
    BY <1>5, <2>1, <2>2
<1>8. Known
  BY DEF EhciState
<1>9. /\ DOMAIN td' = DOMAIN td /\ DOMAIN qh' = DOMAIN qh
      /\ \A u \in DOMAIN td : u # t => td'[u] = td[u]
      /\ \A x \in DOMAIN qh : x # q => qh'[x] = qh[x]
      /\ qh'[q] = [next |-> td[t].next, current |-> t]
      /\ usbint' = IF td[t].ioc THEN usbint \cup {"int"} ELSE usbint
  BY <1>6, <1>8, DoneIs
<1>10. /\ DOMAIN bus' = E!Ports /\ \A r \in E!Ports : r # p => bus'[r] = bus[r]
       /\ bus'[p] = [address |-> bus'[p].address, request |-> bus'[p].request,
                     reports |-> bus'[p].reports]
       /\ n = 0 => bus'[p].request = "none"
  <2>1. DOMAIN bus = E!Ports
        /\ bus[p] = [address |-> bus[p].address, request |-> bus[p].request,
                     reports |-> bus[p].reports]
    BY <1>8 DEF Known
  <2>2. td[qh[E!ControlQh(p)].next].ioc = (n = 0)
    BY <1>4, <1>5, <1>7
  <2>3. CASE n = 0
    <3>1. PICK y : y = IF bus[p].address = 0 THEN p + 1 ELSE bus[p].address
      OBVIOUS
    <3>2. bus'[p] = [bus[p] EXCEPT !.request = "none", !.address = y]
      BY <1>1, <2>1, <2>2, <2>3, <3>1
    <3>3. bus'[p] = [address |-> y, request |-> "none", reports |-> bus[p].reports]
      BY <2>1, <3>2, RecordAnswer
    <3> QED
      BY <1>1, <2>1, <3>3
  <2>4. CASE n # 0
    <3>1. bus'[p] = [bus[p] EXCEPT !.request = E!Op]
      BY <1>1, <2>1, <2>2, <2>4
    <3>2. bus'[p] = [address |-> bus[p].address, request |-> E!Op, reports |-> bus[p].reports]
      BY <2>1, <3>1, RecordRequest
    <3> QED
      BY <1>1, <2>1, <2>4, <3>2
  <2> QED
    BY <2>3, <2>4
<1>11. Known'
  <2>1. /\ \A x \in DOMAIN qh' : qh'[x] = [next |-> qh'[x].next, current |-> qh'[x].current]
        /\ \A u \in DOMAIN td' : td'[u] = [active |-> td'[u].active, next |-> td'[u].next,
                                           ioc |-> td'[u].ioc, offset |-> td'[u].offset]
    BY <1>6, <1>8, DoneKnown
  <2>2. \A r \in E!Ports : bus'[r] = [address |-> bus'[r].address, request |-> bus'[r].request,
                                      reports |-> bus'[r].reports]
    BY <1>8, <1>10 DEF Known
  <2> QED
    BY <1>1, <1>8, <1>10, <2>1, <2>2 DEF Known
<1>12. Owned' /\ Left(script, DOMAIN qh, DOMAIN pollers)' /\ Within' /\ E!Port' = p
       /\ E!Op' = E!Op
  BY <1>1, <1>2, <1>9, SameOwners
<1>13. usbint' = (IF n = 0 THEN {"int"} ELSE {})
  BY <1>3, <1>7, <1>9
<1>14. Causes'
  BY <1>1, <1>3, <1>13 DEF EhciState, Causes
<1>15. Requesting' /\ Unanswered'
  BY <1>1, <1>2, <1>12 DEF Sent, Requesting, Unanswered
<1>16. CASE n = 0
  <2>1. qh'[q].next = E!Stop
    BY <1>7, <1>9, <1>16
  <2>2. Over'
    BY <1>5, <1>10, <1>12, <1>16, <2>1 DEF Over
  <2>3. Finished'
    BY <1>1, <1>3, <1>15, <2>2 DEF Finished
  <2> QED
    BY <1>1, <1>9, <1>11, <1>12, <1>14, <2>3, StepOver DEF Stages
<1>17. CASE n # 0
  <2>1. qh'[q].next = E!ControlTd(p, c + 1)
    BY <1>7, <1>9, <1>17
  <2>2. Linked(p, c + 1, n - 1)'
    <3>1. ASSUME NEW j \in 0..(n - 1)
          PROVE  /\ E!ControlTd(p, c + 1 + j) \in DOMAIN td'
                 /\ td'[E!ControlTd(p, c + 1 + j)] =
                       [active |-> TRUE, offset |-> 0, ioc |-> j = n - 1,
                        next |-> IF j = n - 1 THEN E!Stop
                                 ELSE E!ControlTd(p, c + 1 + j + 1)]
      <4>1. PICK k \in 0..n : k = j + 1
        BY <1>17
      <4>2. c + k = c + 1 + j /\ c + k + 1 = c + 1 + j + 1 /\ (k = n <=> j = n - 1)
        BY <4>1
      <4>3. E!ControlTd(p, c + k) \in DOMAIN td
            /\ td[E!ControlTd(p, c + k)] =
                  [active |-> TRUE, offset |-> 0, ioc |-> k = n,
                   next |-> IF k = n THEN E!Stop ELSE E!ControlTd(p, c + k + 1)]
        BY <1>4 DEF Linked
      <4>4. E!ControlTd(p, c + k) # t
        <5>1. k \in 0..2 /\ 0 \in 0..2 /\ c + 0 = c /\ k # 0
          BY <4>1
        <5>2. SUFFICES ASSUME E!ControlTd(p, c + k) = E!ControlTd(p, c + 0) PROVE FALSE
          BY <1>5, <5>1
        <5>3. k = 0
          BY <5>1, <5>2, ThreeTds
        <5> QED
          BY <5>1, <5>3
      <4>5. td'[E!ControlTd(p, c + k)] = td[E!ControlTd(p, c + k)]
        BY <1>9, <4>3, <4>4
      <4> QED
        BY <1>9, <4>2, <4>3, <4>5
    <3> QED
      BY <3>1 DEF Linked
  <2>3. (\E m \in 0..2, d \in Nat :
            /\ qh[E!ControlQh(E!Port)].next = E!ControlTd(E!Port, d)
            /\ Linked(E!Port, d, m))'
    <3>1. n - 1 \in 0..2 /\ c + 1 \in Nat
      BY <1>17
    <3> QED
      BY <1>5, <1>12, <2>1, <2>2, <3>1
  <2>4. Unmarked'
    BY <1>13, <1>17 DEF Unmarked
  <2>5. Sent'
    BY <1>15, <2>3, <2>4 DEF Sent
  <2> QED
    BY <1>1, <1>9, <1>11, <1>12, <1>14, <2>5, StepOver DEF Stages
<1> QED
  BY <1>16, <1>17

(* A keyboard reports. *)
LEMMA ReportTaken ==
    ASSUME EhciState, ~Races, NEW p \in E!Ports, E!HcReport(p)
    PROVE  EhciState'
<1>1. /\ E!Calm /\ E!Ready(E!PollQh(p)) /\ attached[p].on
      /\ E!Done(E!PollQh(p), qh[E!PollQh(p)].next)
      /\ bus' = [bus EXCEPT ![p].reports = @ + 1]
      /\ UNCHANGED <<attached, script, step, devices, pollers, interrupted, queue,
                     inserted, preinserted, isr, halted>>
  BY DEF E!HcReport
<1>2. Polling /\ p \in DOMAIN pollers /\ High(p) /\ PollTds(p) /\ Armed(p)
      /\ \A r \in DOMAIN pollers : r = p
  BY <1>1, PollReady
<1>3. isr = "idle" /\ usbint = {} /\ halted = ""
  BY <1>1, <1>2, Quiet
<1>4. PICK k \in {0, 1} : k = pollers[p]
  BY <1>2 DEF PollTds
<1>5. PICK t, q, o : t = E!PollTd(p, k) /\ q = E!PollQh(p) /\ o = E!PollTd(p, 1 - k)
  OBVIOUS
<1>6. t \in DOMAIN td /\ q \in DOMAIN qh /\ E!Done(q, t) /\ o \in DOMAIN td /\ t # o
      /\ E!IsPoll(t)
  <2>1. 1 - k \in {0, 1} /\ 1 - k # k
    OBVIOUS
  <2>2. t # o
    BY <1>5, <2>1, PollTdNames
  <2>3. E!IsPoll(t)
    BY <1>5 DEF E!PollTd, E!IsPoll
  <2> QED
    BY <1>1, <1>2, <1>4, <1>5, <2>1, <2>2, <2>3 DEF E!Ready, Armed, PollTds
<1>7. td[t].next = E!Stop /\ td[t].ioc = TRUE /\ td[t].offset = 0 /\ td[o].offset = 0
  <2>1. 1 - k \in {0, 1}
    OBVIOUS
  <2> QED
    BY <1>2, <1>5, <2>1 DEF Armed, PollTds
<1>8. Known
  BY DEF EhciState
<1>9. /\ DOMAIN td' = DOMAIN td /\ DOMAIN qh' = DOMAIN qh
      /\ \A u \in DOMAIN td : u # t => td'[u] = td[u]
      /\ \A x \in DOMAIN qh : x # q => qh'[x] = qh[x]
      /\ qh'[q] = [next |-> E!Stop, current |-> t]
      /\ usbint' = {"int"}
  BY <1>3, <1>6, <1>7, <1>8, DoneIs
<1>10. td'[t].active = FALSE /\ td'[t].next = E!Stop /\ td'[t].ioc = TRUE
       /\ td'[t].offset = 1
  <2>1. td'[t] = [active |-> FALSE, next |-> td[t].next, ioc |-> td[t].ioc,
                  offset |-> IF E!IsPoll(t) THEN td[t].offset + 1 ELSE td[t].offset]
    BY <1>6, <1>8, DoneIs
  <2> QED
    BY <1>6, <1>7, <2>1
<1>11. /\ DOMAIN bus' = E!Ports /\ \A r \in E!Ports : r # p => bus'[r] = bus[r]
       /\ bus'[p] = [address |-> bus[p].address, request |-> bus[p].request,
                     reports |-> bus[p].reports + 1]
  <2>1. DOMAIN bus = E!Ports
        /\ bus[p] = [address |-> bus[p].address, request |-> bus[p].request,
                     reports |-> bus[p].reports]
    BY <1>8 DEF Known
  <2>2. bus'[p] = [bus[p] EXCEPT !.reports = bus[p].reports + 1]
    BY <1>1, <2>1
  <2>3. PICK z : z = bus[p].reports + 1
    OBVIOUS
  <2>4. bus'[p] = [address |-> bus[p].address, request |-> bus[p].request, reports |-> z]
    BY <2>1, <2>2, <2>3, RecordReport
  <2> QED
    BY <1>1, <2>1, <2>3, <2>4
<1>12. Known'
  <2>1. /\ \A x \in DOMAIN qh' : qh'[x] = [next |-> qh'[x].next, current |-> qh'[x].current]
        /\ \A u \in DOMAIN td' : td'[u] = [active |-> td'[u].active, next |-> td'[u].next,
                                           ioc |-> td'[u].ioc, offset |-> td'[u].offset]
    BY <1>6, <1>8, DoneKnown
  <2>2. \A r \in E!Ports : bus'[r] = [address |-> bus'[r].address, request |-> bus'[r].request,
                                      reports |-> bus'[r].reports]
    BY <1>8, <1>11 DEF Known
  <2> QED
    BY <1>1, <1>8, <1>11, <2>1, <2>2 DEF Known
<1>13. Owned' /\ Left(script, DOMAIN qh, DOMAIN pollers)' /\ Within' /\ E!Port' = E!Port
       /\ E!Op' = E!Op
  BY <1>1, <1>9, SameOwners
<1>14. Causes'
  BY <1>1, <1>3, <1>9 DEF EhciState, Causes
<1>15. PollTds(p)'
  <2>1. pollers'[p] \in {0, 1}
    BY <1>1, <1>2 DEF PollTds
  <2>2. ASSUME NEW i \in {0, 1}
        PROVE  /\ E!PollTd(p, i) \in DOMAIN td'
               /\ td'[E!PollTd(p, i)].next = E!Stop /\ td'[E!PollTd(p, i)].ioc = TRUE
    <3>1. E!PollTd(p, i) \in DOMAIN td
          /\ td[E!PollTd(p, i)].next = E!Stop /\ td[E!PollTd(p, i)].ioc = TRUE
      BY <1>2 DEF PollTds
    <3> QED
      BY <1>9, <1>10, <3>1
  <2> QED
    BY <2>1, <2>2 DEF PollTds
<1>16. Used(p)'
  <2>1. td'[o].offset = 0
    BY <1>6, <1>7, <1>9
  <2> QED
    BY <1>1, <1>3, <1>4, <1>5, <1>9, <1>10, <2>1 DEF Used
<1>17. ASSUME NEW r \in E!Ports PROVE Stopped(r)'
  <2>1. E!ControlQh(r) # q
    BY <1>5, QhNames
  <2> QED
    BY <1>2, <1>9, <2>1 DEF Stopped, Polling
<1>18. Polling'
  BY <1>1, <1>2, <1>15, <1>16, <1>17 DEF Polling, Unasked
<1> QED
  BY <1>1, <1>9, <1>12, <1>13, <1>14, <1>18, StepOver DEF Stages

LEMMA RecordOffset ==
    ASSUME NEW d, NEW e, NEW x, e = [d EXCEPT !.offset = x],
           d = [active |-> d.active, next |-> d.next, ioc |-> d.ioc, offset |-> d.offset]
    PROVE  e = [active |-> d.active, next |-> d.next, ioc |-> d.ioc, offset |-> x]
OBVIOUS

LEMMA RecordActive ==
    ASSUME NEW d, NEW e, e = [d EXCEPT !.active = TRUE],
           d = [active |-> d.active, next |-> d.next, ioc |-> d.ioc, offset |-> d.offset]
    PROVE  e = [active |-> TRUE, next |-> d.next, ioc |-> d.ioc, offset |-> d.offset]
OBVIOUS

LEMMA OneMin ==
    ASSUME NEW p \in Nat
    PROVE  E!Min({p}) = p
BY DEF E!Min

(* What the handler finds while it scans. *)
LEMMA ScanFinds ==
    ASSUME EhciState, isr = "scan"
    PROVE  /\ usbint = {"int"} /\ halted = "" /\ step # "store"
           /\ \/ Finished /\ DOMAIN pollers = {}
              \/ Polling /\ \A p \in DOMAIN pollers : PollTds(p) /\ Used(p)
<1>1. usbint = {"int"} /\ halted = "" /\ step # "store" /\ ~Unmarked
  BY DEF EhciState, Causes, Unmarked
<1>2. ~Resting /\ ~Built /\ ~Sent /\ ~Replied
  BY <1>1 DEF Resting, Built, Sent, Replied
<1>3. CASE Finished
  BY <1>1, <1>3 DEF Finished, Requesting
<1>4. CASE Polling
  BY <1>1, <1>4 DEF Polling, Armed
<1> QED
  BY <1>1, <1>2, <1>3, <1>4 DEF EhciState, Stages

(* The handler prepares the next poll. *)
LEMMA HandlePollKeeps ==
    ASSUME EhciState, E!HandlePoll
    PROVE  EhciState'
<1>1. /\ isr = "scan" /\ E!PollsDone # {} /\ E!Rearm(E!Min(E!PollsDone)) /\ isr' = "clear"
      /\ UNCHANGED <<attached, script, step, devices, interrupted, queue, inserted,
                     preinserted, usbint, halted, bus>>
  BY DEF E!HandlePoll
<1>2. PICK p \in E!PollsDone : p \in DOMAIN pollers
  BY <1>1 DEF E!PollsDone
<1>3. Polling /\ PollTds(p) /\ Used(p) /\ usbint = {"int"} /\ halted = ""
      /\ p \in E!Ports /\ High(p) /\ \A r \in DOMAIN pollers : r = p
  <2>1. Polling /\ PollTds(p) /\ Used(p) /\ usbint = {"int"} /\ halted = ""
    BY <1>1, <1>2, ScanFinds
  <2> QED
    BY <1>2, <2>1 DEF EhciState, Owned
<1>4. E!Min(E!PollsDone) = p
  <2>1. E!PollsDone = {p}
    BY <1>2, <1>3 DEF E!PollsDone
  <2>2. p \in Nat
    <3>1. p \in 0..(NPorts - 1) /\ NPorts \in Nat
      BY <1>3, UsbAssumption, Zenon DEF E!Ports
    <3> QED
      BY <3>1
  <2> QED
    BY <2>1, <2>2, OneMin
<1>5. PICK k \in {0, 1} : k = pollers[p]
  BY <1>3 DEF PollTds
<1>6. PICK t, q, o : t = E!PollTd(p, k) /\ q = E!PollQh(p) /\ o = E!PollTd(p, 1 - k)
  OBVIOUS
<1>7. 1 - k \in {0, 1} /\ E!Other(p) = 1 - k
  BY <1>5 DEF E!Other
<1>8. /\ t \in DOMAIN td /\ o \in DOMAIN td /\ t # o /\ t # E!Null
      /\ td[t].next = E!Stop /\ td[t].ioc = TRUE /\ td[t].offset = 1
      /\ td[o].next = E!Stop /\ td[o].ioc = TRUE /\ td[o].offset = 0
  <2>1. t # o /\ t # E!Null
    <3>1. 1 - k # k
      OBVIOUS
    <3> QED
      BY <1>6, <3>1, PollTdNames
  <2> QED
    BY <1>3, <1>5, <1>6, <1>7, <2>1 DEF PollTds, Used
<1>9. qh[q].current = t /\ q \in DOMAIN qh
  <2>1. qh[q] = [next |-> E!Stop, current |-> t]
    BY <1>3, <1>5, <1>6 DEF Used
  <2>2. q \in DOMAIN qh
    BY <1>2, <1>3, <1>6 DEF EhciState, Owned
  <2> QED
    BY <2>1, <2>2
<1>10. /\ td' = [[td EXCEPT ![t] = [td[t] EXCEPT !.offset = @ - 1]] EXCEPT ![o].active = TRUE]
       /\ qh' = [qh EXCEPT ![q].next = o]
       /\ pollers' = [pollers EXCEPT ![p] = 1 - k]
  BY <1>1, <1>4, <1>6, <1>7, <1>8, <1>9 DEF E!Rearm, E!Refilled
<1>11. Known
  BY DEF EhciState
<1>12. /\ DOMAIN td' = DOMAIN td /\ \A u \in DOMAIN td : u \notin {t, o} => td'[u] = td[u]
       /\ td'[t] = [td[t] EXCEPT !.offset = @ - 1]
       /\ td'[o] = [td[o] EXCEPT !.active = TRUE]
  <2>1. PICK m : m = [td EXCEPT ![t] = [td[t] EXCEPT !.offset = @ - 1]]
    OBVIOUS
  <2>2. DOMAIN m = DOMAIN td /\ m[t] = [td[t] EXCEPT !.offset = @ - 1]
        /\ \A u \in DOMAIN td : u # t => m[u] = td[u]
    BY <1>8, <2>1
  <2>3. td' = [m EXCEPT ![o].active = TRUE]
    BY <1>10, <2>1
  <2> QED
    BY <1>8, <2>2, <2>3
<1>13. td'[t] = [active |-> td[t].active, next |-> E!Stop, ioc |-> TRUE, offset |-> 0]
  <2>1. PICK x : x = td[t].offset - 1
    OBVIOUS
  <2>2. td'[t] = [td[t] EXCEPT !.offset = x]
    BY <1>12, <2>1
  <2>3. td[t] = [active |-> td[t].active, next |-> td[t].next, ioc |-> td[t].ioc,
                 offset |-> td[t].offset]
    BY <1>8, <1>11 DEF Known
  <2>4. td'[t] = [active |-> td[t].active, next |-> td[t].next, ioc |-> td[t].ioc,
                  offset |-> x]
    BY <2>2, <2>3, RecordOffset
  <2>5. x = 0
    BY <1>8, <2>1
  <2> QED
    BY <1>8, <2>4, <2>5
<1>14. td'[o] = [active |-> TRUE, next |-> E!Stop, ioc |-> TRUE, offset |-> 0]
  <2>1. td[o] = [active |-> td[o].active, next |-> td[o].next, ioc |-> td[o].ioc,
                 offset |-> td[o].offset]
    BY <1>8, <1>11 DEF Known
  <2>2. td'[o] = [active |-> TRUE, next |-> td[o].next, ioc |-> td[o].ioc,
                  offset |-> td[o].offset]
    BY <1>12, <2>1, RecordActive
  <2> QED
    BY <1>8, <2>2
<1>15. /\ DOMAIN qh' = DOMAIN qh /\ \A x \in DOMAIN qh : x # q => qh'[x] = qh[x]
       /\ qh'[q] = [next |-> o, current |-> qh[q].current]
  <2>1. qh'[q] = [qh[q] EXCEPT !.next = o]
    BY <1>9, <1>10
  <2>2. qh[q] = [next |-> qh[q].next, current |-> qh[q].current]
    BY <1>9, <1>11 DEF Known
  <2> QED
    BY <1>10, <2>1, <2>2, RecordNext
<1>16. Known'
  <2>1. ASSUME NEW u \in DOMAIN td'
        PROVE  td'[u] = [active |-> td'[u].active, next |-> td'[u].next,
                         ioc |-> td'[u].ioc, offset |-> td'[u].offset]
    <3>1. CASE u = t
      BY <1>13, <3>1
    <3>2. CASE u = o
      BY <1>14, <3>2
    <3>3. CASE u \notin {t, o}
      BY <1>11, <1>12, <3>3 DEF Known
    <3> QED
      BY <3>1, <3>2, <3>3
  <2>2. \A x \in DOMAIN qh' : qh'[x] = [next |-> qh'[x].next, current |-> qh'[x].current]
    BY <1>11, <1>15 DEF Known
  <2> QED
    BY <1>1, <1>11, <2>1, <2>2 DEF Known
<1>17. DOMAIN pollers' = DOMAIN pollers /\ pollers'[p] = 1 - k
  BY <1>2, <1>10
<1>18. Owned' /\ E!Port' = E!Port
  BY <1>1, <1>12, <1>15, <1>17, SameOwners
<1>19. Causes'
  BY <1>1, <1>3 DEF EhciState, Causes
<1>20. PollTds(p)'
  <2>1. pollers'[p] \in {0, 1}
    BY <1>7, <1>17
  <2>2. ASSUME NEW i \in {0, 1}
        PROVE  /\ E!PollTd(p, i) \in DOMAIN td'
               /\ td'[E!PollTd(p, i)].next = E!Stop /\ td'[E!PollTd(p, i)].ioc = TRUE
    <3>1. E!PollTd(p, i) \in {t, o}
      <4>1. i = k \/ i = 1 - k
        OBVIOUS
      <4> QED
        BY <1>6, <4>1
    <3> QED
      BY <1>8, <1>12, <1>13, <1>14, <3>1
  <2> QED
    BY <2>1, <2>2 DEF PollTds
<1>21. Armed(p)'
  <2>1. E!PollTd(p, pollers'[p]) = o
    BY <1>6, <1>17
  <2>2. ASSUME NEW i \in {0, 1} PROVE td'[E!PollTd(p, i)].offset = 0
    <3>1. E!PollTd(p, i) \in {t, o}
      <4>1. i = k \/ i = 1 - k
        OBVIOUS
      <4> QED
        BY <1>6, <4>1
    <3> QED
      BY <1>13, <1>14, <3>1
  <2>3. qh'[E!PollQh(p)].next = o
    BY <1>6, <1>15
  <2> QED
    BY <1>1, <1>14, <2>1, <2>2, <2>3 DEF Armed
<1>22. ASSUME NEW r \in E!Ports PROVE Stopped(r)'
  <2>1. E!ControlQh(r) # q
    BY <1>6, QhNames
  <2> QED
    BY <1>3, <1>15, <2>1 DEF Stopped, Polling
<1>23. Polling'
  BY <1>1, <1>3, <1>17, <1>20, <1>21, <1>22 DEF Polling, Unasked
<1> QED
  BY <1>1, <1>15, <1>16, <1>17, <1>18, <1>19, <1>23, StepOver DEF Stages

(* The handler answers the transfer. *)
LEMMA HandleControlKeeps ==
    ASSUME EhciState, E!HandleControl
    PROVE  EhciState'
<1>1. /\ isr = "scan" /\ E!PollsDone = {} /\ interrupted' = TRUE /\ isr' = "clear"
      /\ inserted = 0 => /\ preinserted' = preinserted + 1
                         /\ UNCHANGED <<inserted, queue, qh>>
      /\ inserted # 0 =>
            /\ inserted' = inserted - 1 /\ queue' = Tail(queue)
            /\ qh' = [q \in DOMAIN qh |->
                        IF q = Head(queue) THEN [qh[q] EXCEPT !.next = E!Stop] ELSE qh[q]]
            /\ UNCHANGED preinserted
      /\ UNCHANGED <<attached, script, step, devices, td, pollers, usbint, halted, bus>>
  BY DEF E!HandleControl
<1>2. usbint = {"int"} /\ halted = "" /\ step # "store" /\ Finished /\ DOMAIN pollers = {}
  <2>1. ASSUME NEW p \in DOMAIN pollers, Used(p) PROVE FALSE
    <3>1. qh[E!PollQh(p)].current = E!PollTd(p, pollers[p])
          /\ ~td[E!PollTd(p, pollers[p])].active
      BY <2>1 DEF Used
    <3>2. p \in E!PollsDone
      BY <3>1 DEF E!PollsDone
    <3> QED
      BY <1>1, <3>2
  <2>2. DOMAIN pollers = {} \/ \E p \in DOMAIN pollers : TRUE
    OBVIOUS
  <2> QED
    BY <1>1, <2>1, <2>2, ScanFinds DEF Polling
<1>3. Known
  BY DEF EhciState
<1>4. PICK q : q = E!ControlQh(E!Port)
  OBVIOUS
<1>5. q \in DOMAIN qh /\ qh[q].next = E!Stop /\ step \in {"count", "check", "await"}
  BY <1>2, <1>4 DEF EhciState, Within, Finished, Over, Requesting
<1>6. E!Port' = E!Port
  BY <1>1 DEF E!Port
<1>7. Causes'
  BY <1>1, <1>2 DEF EhciState, Causes
<1>8. CASE step = "count"
  <2>1. queue = <<>> /\ inserted = 0 /\ preinserted = 0
    BY <1>2, <1>8 DEF Finished, Unanswered
  <2>2. queue' = <<>> /\ inserted' = 0 /\ preinserted' = 1 /\ UNCHANGED qh
    BY <1>1, <2>1
  <2>3. Known' /\ Owned'
    BY <1>1, <1>3, <2>2, SameStructures DEF EhciState
  <2>4. Over'
    BY <1>1, <1>2, <1>6, <2>2 DEF Finished, Over
  <2>5. Requesting'
    BY <1>1, <1>2 DEF Finished, Requesting
  <2>6. Replied'
    BY <1>1, <1>8, <2>2, <2>4, <2>5 DEF Replied
  <2> QED
    BY <1>1, <1>7, <2>2, <2>3, <2>6, StepOver DEF Stages
<1>9. CASE step \in {"check", "await"}
  <2>1. queue = <<q>> /\ inserted = 1 /\ preinserted = 0
    BY <1>2, <1>4, <1>9 DEF Finished, Unanswered
  <2>2. Head(queue) = q /\ Tail(queue) = <<>>
    BY <2>1
  <2>3. queue' = <<>> /\ inserted' = 0 /\ preinserted' = 0
    BY <1>1, <2>1, <2>2
  <2>4. qh' = [x \in DOMAIN qh |-> IF x = q THEN [qh[x] EXCEPT !.next = E!Stop] ELSE qh[x]]
    BY <1>1, <2>1, <2>2
  <2>5. /\ DOMAIN qh' = DOMAIN qh /\ \A x \in DOMAIN qh : x # q => qh'[x] = qh[x]
        /\ qh'[q] = [next |-> E!Stop, current |-> qh[q].current]
    <3>1. qh'[q] = [qh[q] EXCEPT !.next = E!Stop]
      BY <1>5, <2>4
    <3>2. qh[q] = [next |-> qh[q].next, current |-> qh[q].current]
      BY <1>3, <1>5 DEF Known
    <3> QED
      BY <2>4, <3>1, <3>2, RecordNext
  <2>6. Known'
    <3>1. \A x \in DOMAIN qh' : qh'[x] = [next |-> qh'[x].next, current |-> qh'[x].current]
      BY <1>3, <2>5 DEF Known
    <3> QED
      BY <1>1, <1>3, <3>1 DEF Known
  <2>7. Owned'
    BY <1>1, <2>5, SameOwners
  <2>8. Over'
    <3>1. bus'[E!Port].request = "none"
      BY <1>1, <1>2 DEF Finished, Over
    <3>2. qh'[E!ControlQh(E!Port)].next = E!Stop
      BY <1>4, <2>5
    <3> QED
      BY <1>6, <3>1, <3>2 DEF Over
  <2>9. Requesting'
    BY <1>1, <1>2 DEF Finished, Requesting
  <2>10. Replied'
    BY <1>1, <1>9, <2>3, <2>8, <2>9 DEF Replied
  <2> QED
    BY <1>1, <1>7, <2>5, <2>6, <2>7, <2>10, StepOver DEF Stages
<1> QED
  BY <1>5, <1>8, <1>9

-----------------------------------------------------------------------------
(* Any step.                                                               *)

LEMMA BootKeeps ==
    ASSUME EhciState, E!Boot
    PROVE  EhciState'
BY SkipAttachKeeps, AttachKeeps, EnablePortChangeKeeps, SkipKeeps, FillKeeps, LinkKeeps,
   CountKeeps, StoreKeeps, CheckKeeps, AwaitKeeps, StopAsyncKeeps, UpdateAsyncKeeps,
   StartAsyncKeeps, InstallKeeps DEF E!Boot

LEMMA HcKeeps ==
    ASSUME EhciState, ~Races, E!Hc
    PROVE  EhciState'
BY HcAsyncKeeps, ControlAnswered, ReportTaken, HcErrorKeeps DEF E!Hc

LEMMA IsrKeeps ==
    ASSUME EhciState, ~Races, E!Isr
    PROVE  EhciState'
BY InterruptKeeps, HandlePollKeeps, HandleControlKeeps, HandlePortsKeeps, ClearKeeps
   DEF E!Isr

LEMMA EhciStep ==
    ASSUME EhciState, ~Races, E!Next \/ UNCHANGED <<common, ehciVars>>
    PROVE  EhciState'
<1>1. CASE UNCHANGED <<common, ehciVars>>
  BY <1>1, NothingHappens DEF common, ehciVars
<1>2. CASE E!Next
  BY <1>2, BootKeeps, HcKeeps, IsrKeeps, UnplugKeeps DEF E!Next
<1> QED
  BY <1>1, <1>2

-----------------------------------------------------------------------------
(* What it means.                                                          *)

LEMMA SignalMeans == EhciState => E!SignalIsOwn
<1> SUFFICES ASSUME EhciState, interrupted
             PROVE  /\ ~E!Booted /\ E!Op \in E!Requests
                    /\ step \in {"count", "store", "check", "await"}
                    /\ bus[E!Port].request = "none" /\ ~E!Ready(E!ControlQh(E!Port))
  BY DEF E!SignalIsOwn
<1>1. Replied
  BY DEF EhciState, Stages, Resting, Built, Sent, Finished, Polling, Unasked, Unanswered
<1>2. step \in {"count", "store", "check", "await"}
      /\ qh[E!ControlQh(E!Port)].next = E!Stop /\ bus[E!Port].request = "none"
  BY <1>1 DEF Replied, Requesting, Over
<1>3. ~E!Ready(E!ControlQh(E!Port))
  BY <1>2, StopIsNone DEF EhciState, E!Ready
<1> QED
  BY <1>2, <1>3 DEF EhciState, Within

LEMMA AnswersMean == EhciState => E!AnswersBalanced
<1> SUFFICES ASSUME EhciState PROVE E!AnswersBalanced
  OBVIOUS
<1>1. Len(queue) <= 1 /\ preinserted <= 1 /\ inserted = Len(queue)
  <2>1. CASE Unasked
    BY <2>1 DEF Unasked
  <2>2. CASE Requesting /\ Unanswered
    BY <2>2 DEF Requesting, Unanswered
  <2>3. CASE Replied
    BY <2>3 DEF Replied
  <2> QED
    BY <2>1, <2>2, <2>3 DEF EhciState, Stages, Resting, Built, Sent, Finished, Polling
<1>2. ASSUME isr = "scan", E!PollsDone = {}, queue # <<>>
      PROVE  Head(queue) = E!ControlQh(E!Port) /\ ~E!Ready(E!ControlQh(E!Port))
  <2>1. Finished /\ step # "store"
    BY <1>2, ScanFinds DEF Polling, Unasked
  <2>2. queue = <<E!ControlQh(E!Port)>>
    BY <1>2, <2>1 DEF Finished, Unanswered, Requesting
  <2>3. qh[E!ControlQh(E!Port)].next = E!Stop
    BY <2>1 DEF Finished, Over
  <2> QED
    BY <2>2, <2>3, StopIsNone DEF EhciState, E!Ready
<1>3. ASSUME step = "fill" PROVE queue = <<>> /\ preinserted = 0
  BY <1>3 DEF EhciState, Stages, Resting, Built, Sent, Finished, Replied, Requesting,
     Polling, Unasked
<1> QED
  BY <1>1, <1>2, <1>3 DEF E!AnswersBalanced

LEMMA HaltMeans == EhciState => E!OnlyErrorsHalt
BY DEF EhciState, Causes, E!OnlyErrorsHalt

LEMMA ReportsMean == EhciState => E!ReportInPlace
<1> SUFFICES ASSUME EhciState, NEW t \in DOMAIN td, E!IsPoll(t), td[t].active
             PROVE  td[t].offset = 0
  BY DEF E!ReportInPlace
<1>1. \A p, i : E!ControlTd(p, i)[1] = "control"
  BY DEF E!ControlTd
<1>2. PICK p \in DOMAIN pollers, i \in {0, 1} : t = E!PollTd(p, i)
  BY <1>1 DEF EhciState, Owned, E!IsPoll
<1>3. Polling
  BY <1>2 DEF EhciState, Stages, Resting, Built, Sent, Finished, Replied, Requesting
<1>4. PollTds(p) /\ (Armed(p) \/ Used(p))
  BY <1>2, <1>3 DEF Polling
<1>5. CASE Armed(p)
  BY <1>2, <1>5 DEF Armed
<1>6. CASE Used(p)
  <2>1. i # pollers[p]
    BY <1>2, <1>6 DEF Used
  <2>2. i = 1 - pollers[p]
    BY <1>4, <2>1 DEF PollTds
  <2> QED
    BY <1>2, <1>6, <2>2 DEF Used
<1> QED
  BY <1>4, <1>5, <1>6

-----------------------------------------------------------------------------
(***************************************************************************)
(* The machine.                                                            *)
(***************************************************************************)

(* Whatever controller the machine has, the xHCI variables are those of a  *)
(* run of Xhci, at rest with any other.                                    *)
XhciState == RingsInv /\ SlotInv /\ TransferInv

LEMMA XhciKept == SpecUsb => []XhciState
<1>1. InitUsb => XhciState
  BY ShapeHoldsAtBoot, RingInvAtBoot, PollInvAtBoot, SlotInvAtBoot, TransferInvAtBoot
     DEF InitUsb, NoXhci, XhciState, RingsInv
<1>2. XhciState /\ [NextUsb]_allVars => XhciState'
  <2> SUFFICES ASSUME XhciState, [NextUsb]_allVars PROVE XhciState'
    OBVIOUS
  <2>1. [Next]_vars
    BY DEF NextUsb, allVars
  <2> QED
    BY <2>1, RingsInvKept, RingInvMeans, SlotInvKept, TransferInvKept
       DEF XhciState, RingsInv
<1> QED
  BY <1>1, <1>2, PTL DEF SpecUsb

(* No event falls between two adjacent accesses of the driver, and at most *)
(* one device is a high speed device.                                      *)
OneDevice == ~Races /\ MaxHigh \in {0, 1}

EhciMachine == which = "ehci" => EhciState

LEMMA EhciKept == OneDevice => (SpecUsb => []EhciMachine)
<1> SUFFICES ASSUME OneDevice PROVE SpecUsb => []EhciMachine
  OBVIOUS
<1>1. InitUsb => EhciMachine
  BY EhciStarts DEF InitUsb, EhciMachine, OneDevice
<1>2. EhciMachine /\ [NextUsb]_allVars => EhciMachine'
  <2> SUFFICES ASSUME EhciMachine, [NextUsb]_allVars, which' = "ehci" PROVE EhciState'
    BY DEF EhciMachine
  <2>1. which = "ehci"
    BY DEF NextUsb, allVars
  <2>2. E!Next \/ UNCHANGED <<common, ehciVars>>
    BY <2>1 DEF NextUsb, allVars
  <2> QED
    BY <2>1, <2>2, EhciStep DEF EhciMachine, OneDevice
<1> QED
  BY <1>1, <1>2, PTL DEF SpecUsb

(* A wait for a control transfer ends for its own answer: await_interrupt  *)
(* of ehci, which knows one endpoint_interrupted for all devices, returns  *)
(* only after the request of the device in turn has been answered and its  *)
(* queue head disabled, whatever the interrupt falls between (the enqueue  *)
(* into qhs_to_disable, the look at preinserted_answered, the wait); with  *)
(* xHCI for any number of devices, in whatever order completions of polls  *)
(* and of commands come.                                                   *)
THEOREM WaitsEndForTheirOwn ==
    OneDevice => (SpecUsb => [](which \in {"ehci", "xhci"} => UsbSignalIsOwn))
<1> SUFFICES ASSUME OneDevice
             PROVE  SpecUsb => [](which \in {"ehci", "xhci"} => UsbSignalIsOwn)
  OBVIOUS
<1>1. SpecUsb => []EhciMachine
  BY EhciKept
<1>2. EhciMachine /\ XhciState => (which \in {"ehci", "xhci"} => UsbSignalIsOwn)
  BY SignalMeans, TransferInvMeans DEF EhciMachine, XhciState, UsbSignalIsOwn
<1> QED
  BY <1>1, <1>2, XhciKept, PTL

(* ehci_interrupt answers each transfer exactly once, also one that ends   *)
(* before its queue head has been put into qhs_to_disable: the queue, its  *)
(* count and preinserted_answered agree at every step, the head it takes   *)
(* is that of the transfer that is over, and it stops the kernel only for  *)
(* a device that was used after it had been pulled out.                    *)
THEOREM AnswersAreCounted ==
    OneDevice => (SpecUsb => [](which = "ehci" => UsbHandlersAnswer))
<1> SUFFICES ASSUME OneDevice PROVE SpecUsb => [](which = "ehci" => UsbHandlersAnswer)
  OBVIOUS
<1>1. SpecUsb => []EhciMachine
  BY EhciKept
<1>2. EhciMachine => (which = "ehci" => UsbHandlersAnswer)
  BY AnswersMean, HaltMeans DEF EhciMachine, UsbHandlersAnswer
<1> QED
  BY <1>1, <1>2, PTL

(* Over any number of polls the two descriptors of an EHCI poller take     *)
(* turns and the one that is armed has its buffer at the start: the report *)
(* goes where the class driver reads it (ehci_interrupt, which takes the   *)
(* offset of a finished descriptor back).                                  *)
THEOREM PollsTakeTurns ==
    OneDevice => (SpecUsb => [](which = "ehci" => UsbReportsInPlace))
<1> SUFFICES ASSUME OneDevice PROVE SpecUsb => [](which = "ehci" => UsbReportsInPlace)
  OBVIOUS
<1>1. SpecUsb => []EhciMachine
  BY EhciKept
<1>2. EhciMachine => (which = "ehci" => UsbReportsInPlace)
  BY ReportsMean DEF EhciMachine, UsbReportsInPlace
<1> QED
  BY <1>1, <1>2, PTL

(* In the machine that TLC checks, too, xHCI rings keep their order and a  *)
(* device its slot (Ring::enqueue, xhci_interrupt0, address_device).       *)
THEOREM XhciOfTheMachine == SpecUsb => [](XhciRingsExact /\ SlotsOwn)
<1>1. XhciState => XhciRingsExact /\ SlotsOwn
  BY RingInvMeans, PollInvMeans
     DEF XhciState, RingsInv, XhciRingsExact, SlotInv, OwnSlot, SlotsOwn
<1> QED
  BY <1>1, XhciKept, PTL
-----------------------------------------------------------------------------
(***************************************************************************)
(* The two schedules of EHCI.                                              *)
(***************************************************************************)

(* The list of queue heads has room for those of the device and of its     *)
(* endpoints, and the frames of the periodic list are a whole number of     *)
(* every interval: both counts are 1024 in the driver, an interval is a     *)
(* power of two and a u8.                                                   *)
ScheduleFits ==
    /\ MaxEndpoints \in Nat /\ EListLength \in Nat /\ MaxEndpoints + 1 <= EListLength
    /\ FrameCount \in Nat \ {0}
    /\ \A f \in EIntervals : f \in Nat \ {0} /\ FrameCount % f = 0

(* The links of a list that n queue heads close. *)
ClosedAfter(n) ==
    [i \in 0..(EListLength - 1) |-> IF i = n - 1 THEN 0 ELSE (i + 1) % EListLength]

(* The list is closed after the last queue head that has an owner, and it  *)
(* has an owner once a device has a queue head.                            *)
Ringed ==
    \/ heads = <<>> /\ links = ClosedAfter(0)
    \/ /\ \E n \in 1..EListLength : DOMAIN heads = 0..(n - 1) /\ links = ClosedAfter(n)
       /\ \E p \in E!Ports : E!ControlQh(p) \in DOMAIN qh

(* What the device is: its endpoints, and whether it is a keyboard. *)
Devised ==
    \A p \in E!Ports : High(p) =>
        /\ attached[p].endpoints \in 1..MaxEndpoints
        /\ attached[p].interval \in EIntervals \cup {0}

(* Only a keyboard comes to its poller. *)
Keyboards ==
    (~E!Booted /\ (E!Op = "poller" \/ (E!Op = "set_protocol" /\ step # "fill"))) =>
        attached[E!Port].interval # 0

(* A poller owns the frames it is due in. *)
PollsPlaced ==
    /\ DOMAIN frames = 0..(FrameCount - 1)
    /\ \A p \in DOMAIN pollers :
        /\ attached[p].interval # 0
        /\ \A v \in E!Entries(attached[p].interval) : frames[v] = p

ScheduleState == Ringed /\ Devised /\ Keyboards /\ PollsPlaced

LEMMA ScheduleStarts ==
    ASSUME E!Init, ScheduleFits
    PROVE  ScheduleState
<1>1. /\ heads = <<>> /\ pollers = <<>> /\ step = "fill" /\ script = E!Script
      /\ links = [i \in 0..(EListLength - 1) |-> (i + 1) % EListLength]
      /\ frames = [i \in 0..(FrameCount - 1) |-> -1]
  BY DEF E!Init
<1>2. Ringed
  <2>1. \A i \in 0..(EListLength - 1) : i # 0 - 1
    BY DEF ScheduleFits
  <2>2. links = ClosedAfter(0)
    BY <1>1, <2>1 DEF ClosedAfter
  <2> QED
    BY <1>1, <2>2 DEF Ringed
<1>3. Devised
  <2> SUFFICES ASSUME NEW p \in E!Ports, High(p)
               PROVE  /\ attached[p].endpoints \in 1..MaxEndpoints
                      /\ attached[p].interval \in EIntervals \cup {0}
    BY DEF Devised
  <2>1. attached[p] \in {[speed |-> "none", endpoints |-> 0, interval |-> 0, on |-> FALSE],
                         [speed |-> "low", endpoints |-> 1, interval |-> 0, on |-> TRUE]}
                        \cup [speed : {"high"}, endpoints : 1..MaxEndpoints,
                              interval : EIntervals \cup {0}, on : {TRUE}]
    BY Zenon DEF E!Init
  <2>2. attached[p] \in [speed : {"high"}, endpoints : 1..MaxEndpoints,
                         interval : EIntervals \cup {0}, on : {TRUE}]
    <3>1. attached[p].speed = "high"
      BY DEF High
    <3>2. attached[p] # [speed |-> "none", endpoints |-> 0, interval |-> 0, on |-> FALSE]
      BY <3>1
    <3>3. attached[p] # [speed |-> "low", endpoints |-> 1, interval |-> 0, on |-> TRUE]
      BY <3>1
    <3> QED
      BY <2>1, <3>2, <3>3, Zenon
  <2> QED
    BY <2>2
<1>4. Keyboards
  <2>1. BootSteps(script)
    BY <1>1, ScriptIs
  <2>2. ASSUME script # <<>> PROVE script[1][1] # "poller"
    <3>1. script[1][1] \notin Brought
      BY <1>1, <2>2, ScriptIs
    <3> QED
      BY <3>1 DEF Brought
  <2> QED
    BY <1>1, <2>1, <2>2, FirstOf DEF Keyboards, E!Booted, E!Op
<1>5. PollsPlaced
  BY <1>1 DEF PollsPlaced
<1> QED
  BY <1>2, <1>3, <1>4, <1>5 DEF ScheduleState

(* What does not touch the schedules. *)
LEMMA BootLeaves ==
    ASSUME E!Boot, ~E!Attach, ~E!UpdateAsync, ~E!InstallInterruptPoller
    PROVE  UNCHANGED <<heads, links, frames, pollers>> /\ DOMAIN qh' = DOMAIN qh
<1>1. CASE E!SkipAttach \/ E!EnablePortChange \/ E!Skip \/ E!StopAsync \/ E!StartAsync
  BY <1>1 DEF E!SkipAttach, E!EnablePortChange, E!Skip, E!StopAsync, E!StartAsync
<1>2. CASE E!Fill \/ E!Link \/ E!Count
  BY <1>2 DEF E!Fill, E!Link, E!Count
<1>3. CASE E!Store \/ E!Check \/ E!AwaitInterrupt
  BY <1>3 DEF E!Store, E!Check, E!AwaitInterrupt
<1> QED
  BY <1>1, <1>2, <1>3 DEF E!Boot

LEMMA OthersLeave ==
    ASSUME E!Hc \/ E!Isr \/ \E p \in E!Ports : E!Unplug(p)
    PROVE  /\ UNCHANGED <<heads, links, frames, script, step>>
           /\ DOMAIN qh' = DOMAIN qh /\ DOMAIN pollers' = DOMAIN pollers
<1>1. CASE E!HcAsync \/ \E p \in E!Ports : E!HcError(p) \/ E!Unplug(p)
  BY <1>1 DEF E!HcAsync, E!HcError, E!Unplug
<1>2. ASSUME NEW p \in E!Ports, E!HcControl(p) \/ E!HcReport(p)
      PROVE  /\ UNCHANGED <<heads, links, frames, script, step>>
             /\ DOMAIN qh' = DOMAIN qh /\ DOMAIN pollers' = DOMAIN pollers
  BY <1>2 DEF E!HcControl, E!HcReport, E!Done
<1>3. CASE E!Interrupt \/ E!HandleControl \/ E!HandlePorts \/ E!ClearUsbInt
  BY <1>3 DEF E!Interrupt, E!HandleControl, E!HandlePorts, E!ClearUsbInt
<1>4. CASE E!HandlePoll
  BY <1>4 DEF E!HandlePoll, E!Rearm
<1> QED
  BY <1>1, <1>2, <1>3, <1>4 DEF E!Hc, E!Isr

LEMMA DevicesStay ==
    ASSUME Known, E!Next
    PROVE  \A p \in E!Ports : /\ attached'[p].speed = attached[p].speed
                              /\ attached'[p].endpoints = attached[p].endpoints
                              /\ attached'[p].interval = attached[p].interval
<1>1. ASSUME NEW r \in E!Ports, E!Unplug(r), NEW p \in E!Ports
      PROVE  /\ attached'[p].speed = attached[p].speed
             /\ attached'[p].endpoints = attached[p].endpoints
             /\ attached'[p].interval = attached[p].interval
  <2>1. attached' = [attached EXCEPT ![r].on = FALSE]
    BY <1>1 DEF E!Unplug
  <2>2. CASE p = r
    <3>1. attached'[p] = [attached[p] EXCEPT !.on = FALSE]
      BY <2>1, <2>2 DEF Known
    <3>2. attached'[p] = [speed |-> attached[p].speed, endpoints |-> attached[p].endpoints,
                          interval |-> attached[p].interval, on |-> FALSE]
      BY <3>1, RecordOff DEF Known
    <3> QED
      BY <3>2
  <2>3. CASE p # r
    BY <2>1, <2>3 DEF Known
  <2> QED
    BY <2>2, <2>3
<1>2. CASE E!Boot
  <2>1. CASE E!SkipAttach \/ E!EnablePortChange \/ E!Skip \/ E!StopAsync \/ E!StartAsync
    BY <2>1 DEF E!SkipAttach, E!EnablePortChange, E!Skip, E!StopAsync, E!StartAsync
  <2>2. CASE E!Fill \/ E!Link \/ E!Count \/ E!Attach
    BY <2>2 DEF E!Fill, E!Link, E!Count, E!Attach
  <2>3. CASE E!Store \/ E!Check \/ E!AwaitInterrupt \/ E!UpdateAsync \/ E!InstallInterruptPoller
    BY <2>3 DEF E!Store, E!Check, E!AwaitInterrupt, E!UpdateAsync, E!InstallInterruptPoller
  <2> QED
    BY <1>2, <2>1, <2>2, <2>3 DEF E!Boot
<1>3. CASE E!Hc
  BY <1>3 DEF E!Hc, E!HcAsync, E!HcControl, E!HcReport, E!HcError
<1>4. CASE E!Isr
  BY <1>4 DEF E!Isr, E!Interrupt, E!HandlePoll, E!HandleControl, E!HandlePorts, E!ClearUsbInt
<1> QED
  BY <1>1, <1>2, <1>3, <1>4 DEF E!Next

(* A poller comes next only for a keyboard. *)
LEMMA NoPollerNext ==
    ASSUME BootSteps(script), script # <<>>, NEW k \in 1..Len(script),
           script[k][1] # "set_protocol",
           script' = SubSeq(script, k + 1, Len(script)), step' = "fill"
    PROVE  Keyboards'
<1>1. script \in Seq(Ops \X E!Ports) /\ Len(script) \in Nat /\ k \in Nat /\ k <= Len(script)
  BY DEF BootSteps
<1>2. /\ script' \in Seq(Ops \X E!Ports) /\ Len(script') = Len(script) - k
      /\ \A i \in 1..(Len(script) - k) : script'[i] = script[k + i] /\ k + i \in 1..Len(script)
  BY <1>1, RestOf
<1>3. ASSUME script' # <<>> PROVE Head(script')[1] # "poller"
  <2>1. 1 \in 1..(Len(script) - k)
    BY <1>1, <1>2, <1>3
  <2>2. Head(script') = script[k + 1] /\ k + 1 \in 1..Len(script)
    BY <1>2, <1>3, <2>1
  <2>3. <<"set_protocol", "poller">> \in Brings /\ k \in DOMAIN script /\ k + 1 \in DOMAIN script
    BY <1>1, <2>2 DEF Brings
  <2>4. script[k + 1][1] = "poller" => script[k] = <<"set_protocol", script[k + 1][2]>>
    BY <2>3 DEF BootSteps, Chained
  <2> QED
    BY <2>2, <2>4
<1> QED
  BY <1>3 DEF Keyboards, E!Booted, E!Op

LEMMA TheSamePoller ==
    ASSUME Keyboards, \A p \in E!Ports : attached'[p].interval = attached[p].interval,
           E!Booted \/ E!Port \in E!Ports,
           UNCHANGED script, step' = "fill" \/ step # "fill"
    PROVE  Keyboards'
BY DEF Keyboards, E!Booted, E!Op, E!Port

LEMMA KeyboardsByBoot ==
    ASSUME EhciState, Keyboards, E!Boot,
           \A p \in E!Ports : attached'[p].interval = attached[p].interval
    PROVE  Keyboards'
<1>1. BootSteps(script)
  BY DEF EhciState, Left
<1>2. E!Running
  BY DEF E!Boot, E!SkipAttach, E!Attach, E!EnablePortChange, E!Skip, E!Fill, E!Link, E!Count,
         E!Store, E!Check, E!AwaitInterrupt, E!StopAsync, E!UpdateAsync, E!StartAsync,
         E!InstallInterruptPoller, E!At
<1>3. PICK b \in E!Ports : b = E!Port
  BY <1>1, <1>2, Runs
<1>4. /\ script # <<>> /\ 1 \in 1..Len(script) /\ script[1] = <<E!Op, b>> /\ ~E!Booted
      /\ Tail(script) = SubSeq(script, 1 + 1, Len(script))
  BY <1>1, <1>2, <1>3, Runs
<1>5. CASE UNCHANGED script /\ (step' = "fill" \/ step # "fill")
  BY <1>3, <1>5, TheSamePoller
<1>6. CASE script' = Tail(script) /\ step' = "fill" /\ E!Op # "set_protocol"
  BY <1>1, <1>4, <1>6, NoPollerNext
<1>7. CASE E!SkipAttach
  <2>1. E!Op = "attach" /\ step = "fill" /\ script' = Tail(Tail(script)) /\ step' = step
    BY <1>7 DEF E!SkipAttach, E!At
  <2>2. <<script[1][1], "set_address">> \in Brings
    BY <1>4, <2>1 DEF Brings
  <2>3. script[2] = <<"set_address", script[1][2]>> /\ Len(script) >= 2
        /\ Tail(Tail(script)) = SubSeq(script, 2 + 1, Len(script))
    BY <1>1, <1>4, <2>2, NextStep
  <2>4. 2 \in 1..Len(script)
    <3>1. Len(script) \in Nat
      BY <1>1, <1>2, Runs
    <3> QED
      BY <2>3, <3>1
  <2> QED
    BY <1>1, <1>4, <2>1, <2>3, <2>4, NoPollerNext
<1>8. CASE E!Skip
  <2>1. step' = "fill" /\ script' = SubSeq(script, E!PhaseLength + 1, Len(script))
        /\ E!Op \in {"device", "config9", "set_protocol"}
    BY <1>8 DEF E!Skip, E!Skips
  <2>2. PICK k \in 1..Len(script) : k = E!PhaseLength /\ script[k][1] \in {"device", "config", "poller"}
    BY <1>1, <1>2, <2>1, SkippedPhase
  <2> QED
    BY <1>1, <1>4, <2>1, <2>2, NoPollerNext
<1>9. CASE E!AwaitInterrupt
  <2>1. step = "await" /\ script' = Tail(script) /\ step' = "fill"
    BY <1>9 DEF E!AwaitInterrupt
  <2>2. CASE E!Op = "set_protocol"
    <3>1. attached[b].interval # 0
      BY <1>3, <1>4, <2>1, <2>2 DEF Keyboards
    <3>2. <<script[1][1], "poller">> \in Brings
      BY <1>4, <2>2 DEF Brings
    <3>3. script[2] = <<"poller", script[1][2]>> /\ Len(script) >= 2
      BY <1>1, <1>4, <3>2, NextStep
    <3>4. Head(script') = script[2]
      <4>1. script \in Seq(Ops \X E!Ports)
        BY <1>1 DEF BootSteps
      <4>2. 1 <= Len(script) /\ 1 \in Nat /\ 1 \in 1..(Len(script) - 1) /\ Len(script) \in Nat
        BY <3>3, <4>1
      <4>3. script'[1] = script[1 + 1] /\ Len(script') = Len(script) - 1
            /\ script' \in Seq(Ops \X E!Ports)
        BY <1>4, <2>1, <4>1, <4>2, RestOf
      <4>4. script' # <<>>
        BY <4>2, <4>3
      <4> QED
        BY <4>3, <4>4
    <3>5. E!Port' = b
      BY <1>4, <3>3, <3>4 DEF E!Port
    <3>6. attached'[E!Port'].interval # 0
      BY <3>1, <3>5
    <3> QED
      BY <3>6 DEF Keyboards
  <2>3. CASE E!Op # "set_protocol"
    BY <1>6, <2>1, <2>3
  <2> QED
    BY <2>2, <2>3
<1>10. CASE E!Fill
  <2>1. ~E!Skips /\ UNCHANGED script
    BY <1>10 DEF E!Fill
  <2>2. E!Op \in E!Requests /\ E!Op' = E!Op /\ E!Port' = b
    BY <1>3, <1>10, <2>1 DEF E!Fill, E!Op, E!Port
  <2>3. E!Op = "set_protocol" => attached[b].interval # 0
    BY <1>3, <2>1 DEF E!Skips
  <2>4. E!Op # "poller"
    BY <2>2 DEF E!Requests, E!Reads
  <2> QED
    BY <2>2, <2>3, <2>4 DEF Keyboards
<1>11. CASE E!UpdateAsync
  <2>1. step = "stopping" /\ E!Op = "update"
    BY <1>4, <1>11 DEF E!UpdateAsync, EhciState, Within
  <2>2. \/ script' = Tail(script) /\ step' = "fill"
        \/ UNCHANGED script /\ step' = "starting"
    BY <1>11 DEF E!UpdateAsync
  <2> QED
    BY <1>5, <1>6, <2>1, <2>2
<1>12. CASE E!StopAsync
  <2>1. E!Op = "update" /\ UNCHANGED script
    BY <1>12 DEF E!StopAsync, E!At
  <2>2. E!Op' = "update"
    BY <2>1 DEF E!Op
  <2> QED
    BY <2>2 DEF Keyboards
<1>13. CASE E!StartAsync
  <2>1. step = "starting" /\ script' = Tail(script) /\ step' = "fill"
    BY <1>13 DEF E!StartAsync
  <2>2. E!Op = "update"
    BY <1>4, <2>1 DEF EhciState, Within
  <2> QED
    BY <1>6, <2>1, <2>2
<1>14. CASE E!Attach \/ E!EnablePortChange \/ E!InstallInterruptPoller
  <2>1. /\ step = "fill" /\ step' = "fill" /\ E!Op # "set_protocol"
        /\ script' = Tail(script) \/ UNCHANGED script
    BY <1>14 DEF E!Attach, E!EnablePortChange, E!InstallInterruptPoller, E!At
  <2> QED
    BY <1>5, <1>6, <2>1
<1>15. CASE E!Link \/ E!Count \/ E!Store \/ E!Check
  <2>1. step # "fill" /\ UNCHANGED script
    BY <1>15 DEF E!Link, E!Count, E!Store, E!Check
  <2> QED
    BY <1>5, <2>1
<1> QED
  BY <1>7, <1>8, <1>9, <1>10, <1>11, <1>12, <1>13, <1>14, <1>15 DEF E!Boot

(* The asynchronous list stays as it is, or an owner is put at its head. *)
LEMMA SameRing ==
    ASSUME Ringed, UNCHANGED <<heads, links>>, DOMAIN qh \subseteq DOMAIN qh'
    PROVE  Ringed'
BY DEF Ringed, ClosedAfter, E!ControlQh

LEMMA AttachRings ==
    ASSUME EhciState, ScheduleFits, Ringed, E!Attach
    PROVE  Ringed'
<1>1. CASE ~E!Joins(E!Port)
  BY <1>1, SameRing DEF E!Attach
<1>2. CASE E!Joins(E!Port)
  <2> DEFINE b == E!Port
  <2>1. /\ E!Running /\ E!Op = "attach" /\ High(b)
        /\ qh' = E!With(qh, E!ControlQh(b), [next |-> E!Stop, current |-> E!Null])
        /\ heads' = E!With(heads, Cardinality(E!Addressed), E!ControlQh(b))
        /\ links' = [links EXCEPT ![Cardinality(E!Addressed)] = 0]
    BY <1>2, SameCardinality DEF E!Attach, E!At, High
  <2>2. BootSteps(script) /\ Known /\ Owned
    BY DEF EhciState, Left
  <2>3. b \in E!Ports /\ script[1] = <<"attach", b>> /\ 1 \in DOMAIN script
    BY <2>1, <2>2, Runs
  <2> HIDE DEF b
  <2>4. E!ControlQh(b) \notin DOMAIN qh
    BY <2>3 DEF EhciState, Left
  <2>5. ASSUME NEW p \in E!Ports, E!ControlQh(p) \in DOMAIN qh PROVE FALSE
    <3>1. High(p)
      BY <2>2, <2>5, ControlHigh
    <3>2. p = b
      BY <2>1, <2>2, <2>3, <3>1 DEF Owned
    <3> QED
      BY <2>4, <2>5, <3>2
  <2>6. heads = <<>> /\ links = ClosedAfter(0)
    BY <2>5 DEF Ringed
  <2>7. E!Addressed = {}
    <3> SUFFICES ASSUME NEW p \in E!Ports, devices[p].state = "address" PROVE FALSE
      BY DEF E!Addressed
    <3> QED
      BY <2>2, <2>5 DEF Owned
  <2>8. Cardinality(E!Addressed) = 0
    BY <2>7, FS_EmptySet
  <2>9. DOMAIN heads' = 0..0
    <3>1. DOMAIN heads' = DOMAIN heads \cup {0}
      BY <2>1, <2>8 DEF E!With
    <3>2. DOMAIN heads = {}
      BY <2>6
    <3> QED
      BY <3>1, <3>2
  <2>10. links' = ClosedAfter(1)
    <3>1. links' = [links EXCEPT ![0] = 0]
      BY <2>1, <2>8
    <3>2. links = [i \in 0..(EListLength - 1) |-> IF i = 0 - 1 THEN 0 ELSE (i + 1) % EListLength]
      BY <2>6 DEF ClosedAfter
    <3>3. \A i \in 0..(EListLength - 1) : i # 0 - 1
      BY DEF ScheduleFits
    <3>4. links' = [i \in 0..(EListLength - 1) |-> IF i = 0 THEN 0 ELSE (i + 1) % EListLength]
      BY <3>1, <3>2, <3>3
    <3>5. 1 - 1 = 0
      OBVIOUS
    <3> QED
      BY <3>4, <3>5 DEF ClosedAfter
  <2>11. 1 \in 1..EListLength
    BY DEF ScheduleFits
  <2>12. E!ControlQh(b) \in DOMAIN qh'
    BY <2>1 DEF E!With
  <2>13. \E n \in 1..EListLength : DOMAIN heads' = 0..(n - 1) /\ links' = ClosedAfter(n)
    <3>1. 1 - 1 = 0
      OBVIOUS
    <3> QED
      BY <2>9, <2>10, <2>11, <3>1
  <2>14. \E p \in E!Ports : E!ControlQh(p)' \in DOMAIN qh'
    BY <2>3, <2>12 DEF E!ControlQh
  <2> QED
    BY <2>13, <2>14 DEF Ringed, ClosedAfter
<1> QED
  BY <1>1, <1>2

(* The endpoints of the only device are as many as it has. *)
LEMMA EndpointsFit ==
    ASSUME Owned, Devised, ScheduleFits,
           \A p \in E!Ports : devices[p].state # "detached" => High(p)
    PROVE  \E S : E!Endpoints \in Seq(S) /\ Len(E!Endpoints) \in 0..MaxEndpoints
<1> DEFINE S == {"endpoint"} \X Int \X Int
           part(i) == IF i - 1 \in E!Active
                      THEN [e \in 1..attached[i - 1].endpoints |-> <<"endpoint", i - 1, e>>]
                      ELSE <<>>
           seqs == [i \in 1..NPorts |-> part(i)]
           T == [k \in 1..NPorts |->
                   {s \in Seq(S) : Len(s) \in 0..MaxEndpoints
                                   /\ ((\A i \in 1..k : i - 1 \notin E!Active) => s = <<>>)}]
<1>1. NPorts \in Nat /\ NPorts # 0 /\ Len(seqs) = NPorts /\ MaxEndpoints \in Nat
      /\ E!Ports = 0..(NPorts - 1)
  BY UsbAssumption DEF ScheduleFits, E!Ports
<1>2. E!Active \subseteq E!Ports
  BY DEF E!Active
<1>3. ASSUME NEW i \in 1..NPorts
      PROVE  /\ part(i) \in Seq(S) /\ Len(part(i)) \in 0..MaxEndpoints
             /\ i - 1 \notin E!Active => part(i) = <<>>
  <2>1. CASE i - 1 \in E!Active
    <3>1. i - 1 \in E!Ports /\ High(i - 1)
      BY <1>2, <2>1 DEF E!Active, E!Detached
    <3>2. attached[i - 1].endpoints \in 1..MaxEndpoints
      BY <3>1 DEF Devised
    <3>3. part(i) = [e \in 1..attached[i - 1].endpoints |-> <<"endpoint", i - 1, e>>]
      BY <2>1
    <3> HIDE DEF part
    <3>4. PICK m \in 0..MaxEndpoints : m = attached[i - 1].endpoints
      BY <1>1, <3>2
    <3>5. \A e \in 1..m : <<"endpoint", i - 1, e>> \in S
      BY <1>1, <3>4
    <3> HIDE DEF S
    <3>6. part(i) \in Seq(S) /\ Len(part(i)) = m
      BY <1>1, <3>3, <3>4, <3>5
    <3> QED
      BY <2>1, <3>4, <3>6
  <2>2. CASE i - 1 \notin E!Active
    <3>1. part(i) = <<>>
      BY <2>2
    <3> HIDE DEF part, S
    <3>2. <<>> \in Seq(S) /\ Len(<<>>) = 0 /\ 0 \in 0..MaxEndpoints
      BY <1>1
    <3> QED
      BY <3>1, <3>2
  <2> QED
    BY <2>1, <2>2
<1> HIDE DEF part, S
<1>4. \A i \in 1..NPorts : seqs[i] = part(i)
  OBVIOUS
<1>5. \A k \in 1..NPorts :
        T[k] = {s \in Seq(S) : Len(s) \in 0..MaxEndpoints
                               /\ ((\A i \in 1..k : i - 1 \notin E!Active) => s = <<>>)}
  OBVIOUS
<1>6. E!Endpoints = FlattenSeq(seqs)
  BY SameFlatten DEF E!Endpoints, part
<1> HIDE DEF seqs, T
<1>7. 1 \in 1..NPorts /\ NPorts \in 1..NPorts
      /\ \A k \in 2..NPorts : k \in 1..NPorts /\ k - 1 \in 1..NPorts
  BY <1>1
<1>8. seqs[1] \in T[1]
  <2>1. /\ seqs[1] \in Seq(S) /\ Len(seqs[1]) \in 0..MaxEndpoints
        /\ (1 - 1 \notin E!Active => seqs[1] = <<>>)
    BY <1>3, <1>4, <1>7
  <2>2. 1 \in 1..1
    OBVIOUS
  <2>3. (\A i \in 1..1 : i - 1 \notin E!Active) => seqs[1] = <<>>
    BY <2>1, <2>2
  <2> QED
    BY <1>5, <1>7, <2>1, <2>3
<1>9. ASSUME NEW k \in 2..NPorts, NEW s \in T[k - 1]
      PROVE  s \o seqs[k] \in T[k]
  <2>1. /\ s \in Seq(S) /\ Len(s) \in 0..MaxEndpoints
        /\ ((\A i \in 1..(k - 1) : i - 1 \notin E!Active) => s = <<>>)
    BY <1>5, <1>7
  <2>2. /\ seqs[k] \in Seq(S) /\ Len(seqs[k]) \in 0..MaxEndpoints
        /\ (k - 1 \notin E!Active => seqs[k] = <<>>)
    BY <1>3, <1>4, <1>7
  <2>3. CASE k - 1 \in E!Active
    <3>1. ASSUME NEW i \in 1..(k - 1), i - 1 \in E!Active PROVE FALSE
      <4>1. i - 1 = k - 1
        BY <1>2, <2>3, <3>1 DEF E!Active, E!Detached, Owned
      <4> QED
        BY <4>1
    <3>2. s = <<>>
      BY <2>1, <3>1
    <3>3. s \o seqs[k] = seqs[k]
      BY <2>2, <3>2
    <3>4. k \in 1..k
      BY <1>1
    <3> QED
      BY <1>5, <1>7, <2>2, <2>3, <3>3, <3>4
  <2>4. CASE k - 1 \notin E!Active
    <3>1. seqs[k] = <<>>
      BY <2>2, <2>4
    <3>2. s \o seqs[k] = s
      BY <2>1, <3>1
    <3>3. \A i \in 1..(k - 1) : i \in 1..k
      BY <1>1
    <3> QED
      BY <1>5, <1>7, <2>1, <3>2, <3>3
  <2> QED
    BY <2>3, <2>4
<1>10. FlattenSeq(seqs) \in T[NPorts]
  <2>1. Len(seqs) \in Nat /\ Len(seqs) # 0 /\ Len(seqs) = NPorts
    BY <1>1
  <2>2. \A k \in 2..Len(seqs) : \A s \in T[k - 1] : s \o seqs[k] \in T[k]
    BY <1>9, <2>1
  <2>3. FlattenSeq(seqs) \in T[Len(seqs)]
    BY <1>8, <2>1, <2>2, FlattenIn
  <2> QED
    BY <2>1, <2>3
<1> QED
  BY <1>5, <1>6, <1>7, <1>10

(* The new list goes through every queue head that has an owner. *)
LEMMA UpdateRings ==
    ASSUME EhciState, ScheduleFits, Devised, Ringed, E!UpdateAsync
    PROVE  Ringed'
<1>1. CASE E!Active = {}
  BY <1>1, SameRing DEF E!UpdateAsync
<1>2. CASE E!Active # {}
  <2>1. /\ heads' = [i \in 0..(Len(E!Owners) - 1) |-> E!Owners[i + 1]]
        /\ links' = E!Close([i \in DOMAIN links |-> (i + 1) % EListLength],
                            Len(E!Owners) - 1, 0)
        /\ DOMAIN qh' = DOMAIN qh
    BY <1>2 DEF E!UpdateAsync
  <2>2. Owned
    BY DEF EhciState
  <2>3. PICK b \in E!Ports : devices[b].state # "detached"
    BY <1>2 DEF E!Active, E!Detached
  <2>4. ASSUME NEW p \in E!Ports, devices[p].state # "detached" PROVE High(p) /\ p = b
    <3>1. E!ControlQh(p) \in DOMAIN qh /\ E!ControlQh(b) \in DOMAIN qh
      BY <2>2, <2>3, <2>4 DEF Owned
    <3>2. High(p) /\ High(b)
      BY <2>2, <2>3, <3>1, ControlHigh
    <3> QED
      BY <2>2, <2>3, <3>2 DEF Owned
  <2>5. PICK S : E!Endpoints \in Seq(S) /\ Len(E!Endpoints) \in 0..MaxEndpoints
    BY <2>2, <2>4, EndpointsFit
  <2>6. Cardinality(E!Active) = 1
    <3>1. E!Active = {b}
      BY <2>3, <2>4 DEF E!Active, E!Detached
    <3> QED
      BY <3>1, FS_Singleton
  <2>7. PICK n \in 1..EListLength : Len(E!Owners) = n
    <3> DEFINE owner(i) == E!ControlQh(E!SetToSortSeq(E!Active, <)[i])
               first == [i \in 1..1 |-> owner(i)]
    <3>1. E!Owners = first \o E!Endpoints
      BY <2>6, SameCardinality DEF E!Owners
    <3> HIDE DEF owner
    <3>2. first \in Seq({owner(1)}) /\ Len(first) = 1
      OBVIOUS
    <3> HIDE DEF first
    <3>3. PICK m \in 0..MaxEndpoints : m = Len(E!Endpoints)
      BY <2>5
    <3>4. PICK s, t : s = first /\ t = E!Endpoints
      OBVIOUS
    <3>5. s \in Seq({owner(1)} \cup S) /\ t \in Seq({owner(1)} \cup S)
      BY <2>5, <3>2, <3>4
    <3>6. Len(s \o t) = Len(s) + Len(t)
      BY <3>5, Concatenated
    <3>7. Len(s) + Len(t) = 1 + m
      BY <3>2, <3>3, <3>4
    <3>8. 1 + m \in 1..EListLength
      BY DEF ScheduleFits
    <3> QED
      BY <3>1, <3>4, <3>6, <3>7, <3>8
  <2>8. DOMAIN heads' = 0..(n - 1)
    BY <2>1, <2>7
  <2>9. DOMAIN links = 0..(EListLength - 1)
    BY DEF Ringed, ClosedAfter
  <2>10. links' = ClosedAfter(n)
    <3>1. links' = [[i \in 0..(EListLength - 1) |-> (i + 1) % EListLength] EXCEPT ![n - 1] = 0]
      BY <2>1, <2>7, <2>9 DEF E!Close
    <3>2. links' = [i \in 0..(EListLength - 1) |-> IF i = n - 1 THEN 0 ELSE (i + 1) % EListLength]
      BY <3>1
    <3> QED
      BY <3>2 DEF ClosedAfter
  <2>11. \E p \in E!Ports : E!ControlQh(p) \in DOMAIN qh'
    BY <2>1, <2>2, <2>3 DEF Owned
  <2>12. \E m \in 1..EListLength : DOMAIN heads' = 0..(m - 1) /\ links' = ClosedAfter(m)
    BY <2>8, <2>10
  <2> QED
    BY <2>11, <2>12 DEF Ringed, ClosedAfter, E!ControlQh
<1> QED
  BY <1>1, <1>2

(* A poller is entered into all the frames it is due in. *)
LEMMA InstallPlaces ==
    ASSUME EhciState, EhciState', ScheduleFits, Keyboards, PollsPlaced,
           E!InstallInterruptPoller
    PROVE  PollsPlaced'
<1> DEFINE b == E!Port
<1>1. /\ E!Running /\ E!Op = "poller" /\ UNCHANGED attached
      /\ frames' = [i \in DOMAIN frames |->
                       IF i \in E!Entries(attached[b].interval) THEN b ELSE frames[i]]
      /\ pollers' = E!With(pollers, b, 0)
  BY DEF E!InstallInterruptPoller, E!At
<1>2. BootSteps(script)
  BY DEF EhciState, Left
<1>3. ~E!Booted /\ b \in E!Ports
  BY <1>1, <1>2, Runs
<1>4. attached[b].interval # 0
  BY <1>1, <1>3 DEF Keyboards
<1> HIDE DEF b
<1>5. b \in DOMAIN pollers'
  BY <1>1 DEF E!With
<1>6. ASSUME NEW p \in DOMAIN pollers' PROVE p = b
  BY <1>1, <1>5 DEF EhciState, Owned, High
<1>7. DOMAIN frames' = 0..(FrameCount - 1)
  BY <1>1 DEF PollsPlaced
<1>8. ASSUME NEW v \in E!Entries(attached[b].interval) PROVE frames'[v] = b
  <2>1. v \in DOMAIN frames
    BY DEF PollsPlaced, E!Entries
  <2> QED
    BY <1>1, <2>1
<1>9. ASSUME NEW p \in DOMAIN pollers'
      PROVE  /\ attached'[p].interval # 0
             /\ \A v \in E!Entries(attached'[p].interval) : frames'[v] = p
  BY <1>1, <1>4, <1>6, <1>8
<1> QED
  BY <1>7, <1>9 DEF PollsPlaced, E!Entries

LEMMA SamePolls ==
    ASSUME Owned, PollsPlaced, UNCHANGED frames, DOMAIN pollers' = DOMAIN pollers,
           \A p \in E!Ports : attached'[p].interval = attached[p].interval
    PROVE  PollsPlaced'
<1>1. ASSUME NEW p \in DOMAIN pollers'
      PROVE  /\ attached'[p].interval # 0
             /\ \A v \in E!Entries(attached'[p].interval) : frames'[v] = p
  <2>1. p \in DOMAIN pollers /\ attached'[p].interval = attached[p].interval
    BY DEF Owned
  <2> QED
    BY <2>1 DEF PollsPlaced
<1> QED
  BY <1>1 DEF PollsPlaced, E!Entries

LEMMA SomePort ==
    ASSUME Left(script, DOMAIN qh, DOMAIN pollers)
    PROVE  E!Booted \/ E!Port \in E!Ports
<1>1. script \in Seq(Ops \X E!Ports)
  BY DEF Left, BootSteps
<1>2. script # <<>> => Head(script) = script[1] /\ script[1] \in Ops \X E!Ports
  BY <1>1, FirstOf
<1> QED
  BY <1>2 DEF E!Booted, E!Port

LEMMA ScheduleStep ==
    ASSUME EhciState, ScheduleState, ScheduleFits, ~Races,
           E!Next \/ UNCHANGED <<common, ehciVars>>
    PROVE  ScheduleState'
<1>1. CASE UNCHANGED <<common, ehciVars>>
  <2>1. Keyboards'
    BY <1>1 DEF ScheduleState, Keyboards, E!Booted, E!Op, E!Port, common
  <2>2. Ringed'
    BY <1>1, SameRing DEF ScheduleState, common
  <2>3. Devised' /\ PollsPlaced'
    BY <1>1 DEF ScheduleState, Devised, PollsPlaced, E!Entries, High, common, ehciVars
  <2> QED
    BY <2>1, <2>2, <2>3 DEF ScheduleState
<1>2. CASE E!Next
  <2>1. Ringed /\ Devised /\ Keyboards /\ PollsPlaced /\ Known /\ Owned /\ EhciState'
    BY <1>2, EhciStep DEF ScheduleState, EhciState
  <2>2. \A p \in E!Ports : /\ attached'[p].speed = attached[p].speed
                           /\ attached'[p].endpoints = attached[p].endpoints
                           /\ attached'[p].interval = attached[p].interval
    BY <1>2, <2>1, DevicesStay
  <2>3. Devised'
    BY <2>1, <2>2 DEF Devised, High
  <2>4. CASE E!Attach
    <3>1. UNCHANGED <<frames, pollers>> /\ E!Boot
      BY <2>4 DEF E!Attach, E!Boot
    <3> QED
      BY <2>1, <2>2, <2>3, <2>4, <3>1, AttachRings, KeyboardsByBoot, SamePolls
         DEF ScheduleState
  <2>5. CASE E!UpdateAsync
    <3>1. UNCHANGED <<frames, pollers>> /\ E!Boot
      BY <2>5 DEF E!UpdateAsync, E!Boot
    <3> QED
      BY <2>1, <2>2, <2>3, <2>5, <3>1, UpdateRings, KeyboardsByBoot, SamePolls
         DEF ScheduleState
  <2>6. CASE E!InstallInterruptPoller
    <3>1. UNCHANGED <<heads, links>> /\ DOMAIN qh \subseteq DOMAIN qh' /\ E!Boot
      BY <2>6 DEF E!InstallInterruptPoller, E!Boot, E!With
    <3> QED
      BY <2>1, <2>2, <2>3, <2>6, <3>1, SameRing, KeyboardsByBoot, InstallPlaces
         DEF ScheduleState
  <2>7. CASE E!Boot /\ ~E!Attach /\ ~E!UpdateAsync /\ ~E!InstallInterruptPoller
    <3>1. UNCHANGED <<heads, links, frames, pollers>> /\ DOMAIN qh' = DOMAIN qh
      BY <2>7, BootLeaves
    <3> QED
      BY <2>1, <2>2, <2>3, <2>7, <3>1, SameRing, KeyboardsByBoot, SamePolls
         DEF ScheduleState
  <2>8. CASE E!Hc \/ E!Isr \/ \E p \in E!Ports : E!Unplug(p)
    <3>1. /\ UNCHANGED <<heads, links, frames, script, step>>
          /\ DOMAIN qh' = DOMAIN qh /\ DOMAIN pollers' = DOMAIN pollers
      BY <2>8, OthersLeave
    <3>2. Ringed' /\ PollsPlaced'
      BY <2>1, <2>2, <3>1, SameRing, SamePolls
    <3>3. E!Booted \/ E!Port \in E!Ports
      BY SomePort DEF EhciState
    <3>4. Keyboards'
      BY <2>1, <2>2, <3>1, <3>3, TheSamePoller
    <3> QED
      BY <2>3, <3>2, <3>4 DEF ScheduleState
  <2> QED
    BY <1>2, <2>4, <2>5, <2>6, <2>7, <2>8 DEF E!Next
<1> QED
  BY <1>1, <1>2

-----------------------------------------------------------------------------
(* What the controller makes of the schedules.                             *)

(* Quotient and remainder. *)
LEMMA RemainderIs ==
    ASSUME NEW d \in Nat \ {0}, NEW q \in Int, NEW r \in 0..(d - 1), NEW x \in Nat,
           x = q * d + r
    PROVE  x % d = r
OBVIOUS

LEMMA RemainderAfter ==
    ASSUME NEW n \in Nat \ {0}, NEW k \in Nat
    PROVE  /\ k % n \in 0..(n - 1)
           /\ (k + 1) % n = IF k % n = n - 1 THEN 0 ELSE (k % n) + 1
<1>1. PICK q \in Int, r \in 0..(n - 1) : k = q * n + r /\ r = k % n
  <2>1. k = (k \div n) * n + (k % n) /\ k \div n \in Int
    BY DivMod
  <2>2. k % n \in 0..(n - 1)
    OBVIOUS
  <2> QED
    BY <2>1, <2>2
<1>2. CASE r = n - 1
  <2>1. PICK m \in Int : m = q + 1
    OBVIOUS
  <2>2. m * n = q * n + n
    BY <2>1
  <2>3. PICK z \in 0..(n - 1) : z = 0
    OBVIOUS
  <2>4. PICK x \in Nat : x = k + 1
    OBVIOUS
  <2>5. x = m * n + z
    BY <1>1, <1>2, <2>2, <2>3, <2>4
  <2>6. x % n = z
    BY <2>5, RemainderIs
  <2> QED
    BY <1>1, <1>2, <2>3, <2>4, <2>6
<1>3. CASE r # n - 1
  <2>1. PICK z \in 0..(n - 1) : z = r + 1
    BY <1>3
  <2>2. PICK x \in Nat : x = k + 1
    OBVIOUS
  <2>3. x = q * n + z
    <3>1. PICK y : y = q * n
      OBVIOUS
    <3>2. y \in Int /\ k = y + r
      BY <1>1, <3>1
    <3>3. x = y + z
      BY <2>1, <2>2, <3>2
    <3> QED
      BY <3>1, <3>3
  <2>4. x % n = z
    BY <2>3, RemainderIs
  <2> QED
    BY <1>1, <1>3, <2>1, <2>2, <2>4
<1> QED
  BY <1>2, <1>3

(* From the head along a closed list of n. *)
LEMMA CircleIs ==
    ASSUME EListLength \in Nat, NEW n \in 1..EListLength, links = ClosedAfter(n)
    PROVE  E!Reached = 0..(n - 1)
<1> DEFINE L == EListLength
           Follows(f) == f = [k \in 0..L |-> IF k = 0 THEN 0 ELSE links[f[k - 1]]]
           r == CHOOSE f : Follows(f)
           g == [k \in 0..L |-> k % n]
<1>1. L \in Nat /\ n \in Nat \ {0} /\ n <= L
  OBVIOUS
<1>2. \A i \in 0..(n - 1) : links[i] = IF i = n - 1 THEN 0 ELSE i + 1
  <2> SUFFICES ASSUME NEW i \in 0..(n - 1)
               PROVE  links[i] = IF i = n - 1 THEN 0 ELSE i + 1
    OBVIOUS
  <2>1. i \in 0..(L - 1) /\ links[i] = IF i = n - 1 THEN 0 ELSE (i + 1) % L
    BY <1>1 DEF ClosedAfter
  <2>2. i # n - 1 => i + 1 \in 0..(L - 1)
    BY <1>1
  <2> QED
    BY <1>1, <2>1, <2>2, SmallRemainder
<1>3. E!Reached = {r[k] : k \in 0..(L - 1)}
  <2>1. E!Circle = [k \in 0..(L - 1) |-> r[k]]
    BY DEF E!Circle
  <2> HIDE DEF r
  <2> QED
    BY <2>1 DEF E!Reached
<1> HIDE DEF L
<1>4. Follows(g)
  <2>1. ASSUME NEW k \in 0..L, k # 0
        PROVE  k % n = links[(k - 1) % n] /\ k - 1 \in 0..L
    <3>1. k - 1 \in Nat /\ k - 1 \in 0..L /\ (k - 1) + 1 = k
      BY <1>1, <2>1
    <3>2. (k - 1) % n \in 0..(n - 1)
          /\ k % n = IF (k - 1) % n = n - 1 THEN 0 ELSE ((k - 1) % n) + 1
      BY <1>1, <3>1, RemainderAfter
    <3> QED
      BY <1>2, <3>1, <3>2
  <2>2. 0 % n = 0
    BY <1>1, SmallRemainder
  <2>3. \A k \in 0..L : g[k] = IF k = 0 THEN 0 ELSE links[g[k - 1]]
    <3> SUFFICES ASSUME NEW k \in 0..L PROVE g[k] = IF k = 0 THEN 0 ELSE links[g[k - 1]]
      OBVIOUS
    <3>1. CASE k = 0
      BY <2>2, <3>1
    <3>2. CASE k # 0
      BY <2>1, <3>2
    <3> QED
      BY <3>1, <3>2
  <2>4. g = [k \in 0..L |-> g[k]]
    OBVIOUS
  <2> HIDE DEF g
  <2> QED
    BY <2>3, <2>4
<1>5. Follows(r)
  BY <1>4, Zenon
<1> HIDE DEF r
<1>6. \A k \in 0..L : r[k] = IF k = 0 THEN 0 ELSE links[r[k - 1]]
  BY <1>5
<1>7. \A k \in 0..L : r[k] = k % n
  <2> DEFINE Bad == {k \in 0..L : r[k] # k % n}
  <2>1. ASSUME Bad # {} PROVE FALSE
    <3>1. Bad \subseteq Nat
      BY <1>1
    <3>2. PICK k \in Bad : \A m \in Bad : k <= m
      BY <2>1, <3>1, LeastNumber
    <3>3. k \in 0..L /\ r[k] # k % n
      OBVIOUS
    <3>4. k # 0
      <4>1. 0 % n = 0
        BY <1>1, SmallRemainder
      <4> QED
        BY <1>6, <3>3, <4>1
    <3>5. k - 1 \in 0..L /\ ~(k <= k - 1)
      BY <1>1, <3>3, <3>4
    <3>6. r[k - 1] = (k - 1) % n
      BY <3>2, <3>5
    <3>7. g[k] = links[g[k - 1]] /\ g[k] = k % n /\ g[k - 1] = (k - 1) % n
      BY <1>4, <3>3, <3>4, <3>5
    <3> QED
      BY <1>6, <3>3, <3>4, <3>6, <3>7
  <2> QED
    BY <2>1
<1>8. ASSUME NEW k \in 0..(L - 1) PROVE r[k] \in 0..(n - 1)
  <2>1. k \in 0..L /\ k \in Nat
    BY <1>1
  <2> QED
    BY <1>1, <1>7, <2>1, RemainderAfter
<1>9. ASSUME NEW i \in 0..(n - 1) PROVE \E k \in 0..(L - 1) : r[k] = i
  <2>1. i \in 0..(L - 1) /\ i \in 0..L /\ i % n = i
    BY <1>1, SmallRemainder
  <2> QED
    BY <1>7, <2>1
<1> QED
  BY <1>3, <1>8, <1>9

LEMMA RingMeans ==
    ASSUME Ringed, ScheduleFits
    PROVE  E!RingExact
<1> SUFFICES ASSUME heads # <<>>
             PROVE  /\ E!Reached = DOMAIN heads
                    /\ \A i, j \in E!Reached : i # j => links[i] # links[j]
  BY DEF E!RingExact
<1>1. PICK n \in 1..EListLength : DOMAIN heads = 0..(n - 1) /\ links = ClosedAfter(n)
  BY DEF Ringed
<1>2. EListLength \in Nat
  BY DEF ScheduleFits
<1>3. E!Reached = 0..(n - 1)
  BY <1>1, <1>2, CircleIs
<1>4. \A i \in 0..(n - 1) : links[i] = IF i = n - 1 THEN 0 ELSE i + 1
  <2> SUFFICES ASSUME NEW i \in 0..(n - 1)
               PROVE  links[i] = IF i = n - 1 THEN 0 ELSE i + 1
    OBVIOUS
  <2>1. links[i] = IF i = n - 1 THEN 0 ELSE (i + 1) % EListLength
    BY <1>1, <1>2 DEF ClosedAfter
  <2>2. i # n - 1 => i + 1 \in 0..(EListLength - 1)
    BY <1>2
  <2> QED
    BY <1>2, <2>1, <2>2, SmallRemainder
<1>5. ASSUME NEW i \in 0..(n - 1), NEW j \in 0..(n - 1), links[i] = links[j] PROVE i = j
  BY <1>2, <1>4, <1>5
<1> QED
  BY <1>1, <1>3, <1>5

(* The multiples of f are f apart. *)
LEMMA NextMultiple ==
    ASSUME NEW a \in Int, NEW b \in Int, NEW f \in Nat \ {0}, a * f < b * f
    PROVE  a * f + f <= b * f
<1>1. a < b
  OBVIOUS
<1>2. a + 1 <= b
  BY <1>1
<1>3. (a + 1) * f <= b * f
  BY <1>2
<1>4. (a + 1) * f = a * f + f
  OBVIOUS
<1> QED
  BY <1>3, <1>4

(* A poller whose interval divides the number of frames is due in one of   *)
(* any interval frames in a row.                                           *)
LEMMA PollsMean ==
    ASSUME EhciState, ScheduleFits, Devised, PollsPlaced
    PROVE  E!IntervalKept
<1> SUFFICES ASSUME NEW p \in DOMAIN pollers, NEW i \in 0..(FrameCount - 1)
             PROVE  \E j \in i..(i + attached[p].interval - 1) : frames[j % FrameCount] = p
  BY DEF E!IntervalKept
<1>1. PICK f : f = attached[p].interval
  OBVIOUS
<1>2. f \in EIntervals /\ f # 0
  <2>1. p \in E!Ports /\ High(p)
    BY DEF EhciState, Owned
  <2> QED
    BY <1>1, <2>1 DEF Devised, PollsPlaced
<1>3. f \in Nat \ {0} /\ FrameCount \in Nat \ {0} /\ FrameCount % f = 0
  BY <1>2 DEF ScheduleFits
<1>4. \A v \in E!Entries(f) : frames[v] = p
  BY <1>1 DEF PollsPlaced
<1>5. PICK c \in Int : FrameCount = c * f
  <2>1. FrameCount = (FrameCount \div f) * f + (FrameCount % f) /\ FrameCount \div f \in Int
    BY <1>3, DivMod
  <2>2. PICK c \in Int : c = FrameCount \div f
    BY <2>1
  <2>3. PICK y : y = c * f
    OBVIOUS
  <2>4. y \in Int /\ FrameCount = y + 0
    BY <1>3, <2>1, <2>2, <2>3
  <2>5. FrameCount = y
    BY <2>4
  <2> QED
    BY <2>3, <2>5
<1>6. ASSUME NEW a \in Int, NEW v \in 0..(FrameCount - 1), v = a * f
      PROVE  frames[v] = p
  <2>1. a * f + f <= c * f
    BY <1>3, <1>5, <1>6, NextMultiple
  <2>2. FrameCount >= v + f
    <3>1. PICK x, y : x = a * f /\ y = c * f
      OBVIOUS
    <3> QED
      BY <1>3, <1>5, <1>6, <2>1, <3>1
  <2>3. v % f = 0
    <3>1. PICK z \in 0..(f - 1) : z = 0
      BY <1>3
    <3>2. v = a * f + z /\ v \in Nat
      BY <1>3, <1>6, <3>1
    <3> QED
      BY <1>3, <3>1, <3>2, RemainderIs
  <2> QED
    BY <1>4, <2>2, <2>3 DEF E!Entries
<1>7. PICK q \in Int, r \in 0..(f - 1) : i = q * f + r
  <2>1. i = (i \div f) * f + (i % f) /\ i \div f \in Int
    BY <1>3, DivMod
  <2>2. i % f \in 0..(f - 1)
    BY <1>3, RemainderAfter
  <2> QED
    BY <2>1, <2>2
<1>8. PICK y \in Int : y = q * f
  BY <1>3
<1>9. CASE r = 0
  <2>1. frames[i] = p
    <3>1. i = y + r
      BY <1>7, <1>8
    <3>2. i = y
      BY <1>8, <1>9, <3>1
    <3> QED
      BY <1>6, <1>8, <3>2
  <2>2. i % FrameCount = i /\ i \in i..(i + f - 1)
    BY <1>3, SmallRemainder
  <2> QED
    BY <1>1, <2>1, <2>2
<1>10. CASE r # 0
  <2>1. PICK j : j = y + f
    OBVIOUS
  <2>2. j \in i..(i + f - 1) /\ j \in Nat
    BY <1>3, <1>7, <1>8, <1>10, <2>1
  <2>3. PICK m \in Int : m = q + 1
    OBVIOUS
  <2>4. m * f = q * f + f
    BY <1>3, <2>3
  <2>5. j = m * f
    BY <1>8, <2>1, <2>4
  <2>6. j <= FrameCount
    <3>1. q * f < c * f
      <4>1. y < FrameCount
        BY <1>3, <1>7, <1>8
      <4> QED
        BY <1>5, <1>8, <4>1
    <3>2. q * f + f <= c * f
      BY <1>3, <3>1, NextMultiple
    <3> QED
      BY <1>5, <1>8, <2>1, <3>2
  <2>7. frames[j % FrameCount] = p
    <3>1. CASE j < FrameCount
      <4>1. j \in 0..(FrameCount - 1)
        BY <1>3, <2>2, <3>1
      <4> QED
        BY <1>3, <1>6, <2>5, <4>1, SmallRemainder
    <3>2. CASE j = FrameCount
      <4>1. FrameCount % FrameCount = 0
        BY <1>3
      <4>2. 0 = 0 * f /\ 0 \in 0..(FrameCount - 1)
        BY <1>3
      <4> QED
        BY <1>6, <3>2, <4>1, <4>2
    <3> QED
      BY <1>3, <2>2, <2>6, <3>1, <3>2
  <2> QED
    BY <1>1, <2>2, <2>7
<1> QED
  BY <1>9, <1>10

-----------------------------------------------------------------------------
(* The theorem.                                                            *)

EhciSchedules == which = "ehci" => ScheduleState

LEMMA SchedulesKept ==
    OneDevice /\ ScheduleFits => (SpecUsb => [](EhciMachine /\ EhciSchedules))
<1> SUFFICES ASSUME OneDevice, ScheduleFits
             PROVE  SpecUsb => [](EhciMachine /\ EhciSchedules)
  OBVIOUS
<1>1. SpecUsb => []EhciMachine
  BY EhciKept
<1>2. InitUsb => EhciSchedules
  BY ScheduleStarts DEF InitUsb, EhciSchedules
<1>3. EhciMachine /\ EhciSchedules /\ [NextUsb]_allVars => EhciSchedules'
  <2> SUFFICES ASSUME EhciMachine, EhciSchedules, [NextUsb]_allVars, which' = "ehci"
               PROVE  ScheduleState'
    BY DEF EhciSchedules
  <2>1. which = "ehci"
    BY DEF NextUsb, allVars
  <2>2. E!Next \/ UNCHANGED <<common, ehciVars>>
    BY <2>1 DEF NextUsb, allVars
  <2> QED
    BY <2>1, <2>2, ScheduleStep DEF EhciMachine, EhciSchedules, OneDevice
<1> QED
  BY <1>1, <1>2, <1>3, PTL DEF SpecUsb

(* The schedules of EHCI, for every number of ports, of endpoints and of   *)
(* frames that fit: the asynchronous list is one circle through every      *)
(* queue head that has an owner and through no other, after the attach of  *)
(* the device (untraited_work0) and after update_async, and an installed   *)
(* poller is met in every row of frames as long as its interval, also over *)
(* the end of the list (install_interrupt_poller).                         *)
THEOREM SchedulesAreReached ==
    OneDevice /\ ScheduleFits => (SpecUsb => [](which = "ehci" => UsbScheduleExact))
<1> SUFFICES ASSUME OneDevice, ScheduleFits
             PROVE  SpecUsb => [](which = "ehci" => UsbScheduleExact)
  OBVIOUS
<1>1. SpecUsb => [](EhciMachine /\ EhciSchedules)
  BY SchedulesKept
<1>2. EhciMachine /\ EhciSchedules => (which = "ehci" => UsbScheduleExact)
  BY RingMeans, PollsMean DEF EhciMachine, EhciSchedules, ScheduleState, UsbScheduleExact
<1> QED
  BY <1>1, <1>2, PTL
=============================================================================
