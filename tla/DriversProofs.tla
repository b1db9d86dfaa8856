---------------------------- MODULE DriversProofs ----------------------------
(***************************************************************************)
(* Proofs about three of the parts of MCDrivers: the register accessors,   *)
(* for every register layout; the reading of a file from the disk, for     *)
(* every file and every size of a transfer, page and pointer block; and    *)
(* the keyboard, for every set of keys.                                    *)
(***************************************************************************)
EXTENDS MCDrivers, Sequences, WellFoundedInduction, TLAPS

-----------------------------------------------------------------------------
(* The register accessors.                                                 *)

(* An accessor's progress is the record of its parts. *)
Known ==
    /\ call = [at |-> call.at, name |-> call.name, clear |-> call.clear,
               put |-> call.put, seen |-> call.seen, late |-> call.late]
    /\ call.at \in {"idle", "read", "done"}

(* While an accessor holds what it has read, an event raised since is in   *)
(* the register and not in what it has read.                               *)
LateInv ==
    which = "registers" =>
      /\ Known
      /\ call.at = "read" =>
           /\ call.late = {} => word = call.seen
           /\ \A e \in call.late :
                /\ e \in R!Here.events
                /\ R!Here.fields[e] \subseteq word
                /\ R!Here.fields[e] \cap call.seen = {}
      /\ R!LateEventKept

(* No accessor is under way at first. *)
LEMMA RegistersStart == InitDrivers => LateInv
<1> SUFFICES ASSUME InitDrivers, which = "registers" PROVE LateInv
  BY DEF LateInv
<1>1. R!Init
  BY DEF InitDrivers
<1>2. call = R!Idle
  BY <1>1 DEF R!Init
<1>3. call.at = "idle" /\ Known
  BY <1>2 DEF R!Idle, Known
<1> QED
  BY <1>3 DEF LateInv, R!LateEventKept

(* Reading, writing back and the device's events keep it. *)
LEMMA RegistersStep ==
    ASSUME LateInv, which = "registers", R!Next, which' = which
    PROVE  LateInv'
<1>1. R!Here' = R!Here
  <2>1. reg' = reg
    BY DEF R!Next, R!Read, R!Raise, R!Write
  <2> QED
    BY <2>1 DEF R!Here
<1>2. CASE R!Read
  <2>1. PICK a \in R!Accessors(R!Here) :
          call' = [at |-> "read", name |-> a.name, clear |-> a.clear,
                   put |-> a.put, seen |-> word, late |-> {}]
    BY <1>2 DEF R!Read
  <2>2. word' = word
    BY <1>2 DEF R!Read
  <2> QED
    BY <2>1, <2>2 DEF LateInv, Known, R!LateEventKept
<1>3. CASE R!Raise
  <2>1. PICK e \in R!Here.events :
          /\ R!Here.fields[e] \cap word = {}
          /\ word' = word \cup R!Here.fields[e]
          /\ call' = [call EXCEPT !.late = {e}]
    BY <1>3 DEF R!Raise
  <2>2. call.at = "read" /\ word = call.seen
    BY <1>3 DEF R!Raise, LateInv
  <2>3. Known' /\ call'.at = "read" /\ call'.late = {e} /\ call'.seen = call.seen
    BY <2>1, <2>2 DEF LateInv, Known
  <2> QED
    BY <1>1, <2>1, <2>2, <2>3 DEF LateInv, R!LateEventKept
<1>4. CASE R!Write
  <2>1. /\ call.at = "read" /\ call' = [call EXCEPT !.at = "done"]
        /\ word' = R!Stored(R!Here, word, R!Composed(call.seen, call))
    BY <1>4 DEF R!Write
  <2>2. /\ Known' /\ call'.at = "done" /\ call'.late = call.late
        /\ call'.put = call.put
    BY <2>1 DEF LateInv, Known
  <2>3. ASSUME NEW e \in call.late, R!Here.fields[e] \cap call.put = {}
        PROVE  R!Here.fields[e] \subseteq word'
    <3>1. /\ R!Here.fields[e] \subseteq R!EventBits(R!Here)
          /\ R!Here.fields[e] \subseteq word
          /\ R!Here.fields[e] \cap R!Composed(call.seen, call) = {}
      BY <2>1, <2>3 DEF LateInv, R!EventBits, R!Composed
    <3> QED
      BY <2>1, <3>1 DEF R!Stored
  <2> QED
    BY <1>1, <2>2, <2>3 DEF LateInv, R!LateEventKept
<1> QED
  BY <1>2, <1>3, <1>4 DEF R!Next

(* So do the steps of the other parts. *)
LEMMA RegistersKept ==
    LateInv /\ [NextDrivers]_<<which, vars, rVars, cVars, kVars, fVars>> => LateInv'
<1> SUFFICES ASSUME LateInv, [NextDrivers]_<<which, vars, rVars, cVars, kVars, fVars>>,
                    which' = "registers"
             PROVE  LateInv'
  BY DEF LateInv
<1>1. CASE R!Next /\ which' = which
  BY <1>1, RegistersStep
<1>2. CASE UNCHANGED <<which, rVars>>
  <2>1. UNCHANGED <<which, reg, word, call>>
    BY <1>2 DEF rVars
  <2>2. R!Here' = R!Here
    BY <2>1 DEF R!Here
  <2> QED
    BY <2>1, <2>2 DEF LateInv, Known, R!LateEventKept
<1> QED
  BY <1>1, <1>2 DEF NextDrivers

(* A read-modify-write of any register does not acknowledge an event that  *)
(* the device raises in between (set and set_part of the register files).  *)
THEOREM LateEventsKept == SpecDrivers => []RegisterLateEventKept
<1>1. LateInv => RegisterLateEventKept
  BY DEF LateInv, RegisterLateEventKept
<1> QED
  BY <1>1, RegistersStart, RegistersKept, PTL DEF SpecDrivers

-----------------------------------------------------------------------------
(* Numbers.                                                                *)

(* A set of numbers has a least one. *)
LEMMA LeastNumber ==
    ASSUME NEW S, S \subseteq Nat, S # {}
    PROVE  \E n \in S : \A m \in S : n <= m
<1>1. PICK n \in S : \A m \in S : <<m, n>> \notin OpToRel(<, Nat)
  BY WFMin, NatLessThanWellFounded, Zenon
<1>2. ASSUME NEW m \in S PROVE ~(m < n)
  BY <1>1, <1>2, Zenon DEF OpToRel
<1> QED
  BY <1>2

(* What TLA+ integer division gives. *)
LEMMA DivMod ==
    ASSUME NEW x \in Nat, NEW d \in Nat \ {0}
    PROVE  /\ x \div d \in Nat /\ x % d \in Nat /\ x % d < d
           /\ x = (x \div d) * d + (x % d)
<1>1. d \in Nat /\ d > 0
  OBVIOUS
<1>2. x = (x \div d) * d + (x % d)
  BY <1>1
<1>3. x % d \in 0 .. (d - 1) /\ x \div d \in Nat
  BY <1>1
<1>4. x % d \in Nat /\ x % d < d
  BY <1>1, <1>3
<1> QED
  BY <1>2, <1>3, <1>4, Zenon

(* It is determined by the remainder. *)
LEMMA DivIs ==
    ASSUME NEW q \in Nat, NEW r \in Nat, NEW d \in Nat \ {0}, r < d
    PROVE  (q * d + r) \div d = q
<1> DEFINE x == q * d + r
<1>1. x \in Nat
  BY SMT
<1>2. /\ x \div d \in Nat /\ x % d \in Nat /\ x % d < d
      /\ x = (x \div d) * d + (x % d)
  BY <1>1, DivMod
<1> DEFINE p == x \div d
           s == x % d
<1>3. p \in Nat /\ s \in Nat /\ s < d /\ q * d + r = p * d + s
  BY <1>2
<1> HIDE DEF p, s
<1>4. CASE p > q
  <2>1. PICK k \in Nat : p = q + 1 + k
    BY <1>3, <1>4, p = q + 1 + (p - q - 1), p - q - 1 \in Nat
  <2>2. p * d = q * d + d + k * d /\ k * d \in Nat
    BY <1>3, <2>1, SMT
  <2> QED
    BY <1>3, <2>2, SMT
<1>5. CASE p < q
  <2>1. PICK k \in Nat : q = p + 1 + k
    BY <1>3, <1>5, q = p + 1 + (q - p - 1), q - p - 1 \in Nat
  <2>2. q * d = p * d + d + k * d /\ k * d \in Nat
    BY <1>3, <2>1, SMT
  <2> QED
    BY <1>3, <2>2, SMT
<1>6. p = q
  BY <1>3, <1>4, <1>5
<1> QED
  BY <1>6 DEF p

(* Whole multiples can be taken out of a division. *)
LEMMA DivAdds ==
    ASSUME NEW q \in Nat, NEW n \in Nat, NEW d \in Nat \ {0}
    PROVE  (q * d + n) \div d = q + n \div d
<1>1. /\ n \div d \in Nat /\ n % d \in Nat /\ n % d < d
      /\ n = (n \div d) * d + (n % d)
  BY DivMod
<1> DEFINE k == n \div d
           s == n % d
<1>2. k \in Nat /\ s \in Nat /\ s < d /\ n = k * d + s
  BY <1>1
<1> HIDE DEF k, s
<1>3. q * d + n = (q + k) * d + s /\ q + k \in Nat
  BY <1>2, SMT
<1>4. ((q + k) * d + s) \div d = q + k
  BY <1>2, <1>3, DivIs
<1> QED
  BY <1>3, <1>4 DEF k

-----------------------------------------------------------------------------
(* The reading of a file, from the parts up.                               *)

NumPointers == IF walk.list = "direct" THEN Direct ELSE Indirect

(* The block of the file that the walk is at. *)
Position == IF walk.list = "direct" THEN walk.index ELSE Direct + walk.index

Moving == doing \in {"transfer", "dispatch", "stray"}

Commanded == doing \in {"dispatch", "stray"}

Walks == [list : {"direct", "indirect"}, index : Nat \ {0}, from : Nat \ {0},
          base : Nat, series : Nat, offset : Nat]

Transfers == [lba : Nat, address : Nat \ {0}, left : Nat]

FileShape ==
    /\ file \in Seq(Nat \ {0}) /\ Len(file) > 0 /\ bulk \in Nat \ {0}
    /\ walk \in Walks /\ transfer \in Transfers
    /\ contents \in [1 .. Len(file) -> Int]
    /\ doing \in {"walk", "transfer", "dispatch", "stray", "complete", "panic", "todo"}

(* The walk has read no more blocks than it has passed. *)
Inside ==
    /\ walk.list = "indirect" => Direct < Len(file)
    /\ walk.index <= NumPointers + 1
    /\ walk.from + walk.offset + walk.series <= Position
    /\ walk.index <= NumPointers => walk.base > 0 /\ Position <= Len(file) + 1
    /\ Moving => /\ walk.index <= NumPointers
                 /\ transfer.address + transfer.left <= Len(file) + 1
    /\ Commanded => /\ command.address = transfer.address /\ command.lba = transfer.lba
                    /\ command.length \in 1 .. transfer.left

(* A command's lists are those that construct_prp made for it. *)
ListsMade ==
    doing = "dispatch" =>
      /\ F!Listed(command.length, command.address)
      /\ command.prps = F!ConstructPrp(command.length, command.address)

FileInside == FileShape /\ Inside /\ ListsMade

(* The pointer that the walk is at, as a block of the file. *)
LEMMA PointerIs ==
    ASSUME FileShape
    PROVE  /\ Len(F!Pointers(walk.list)) = NumPointers
           /\ F!AtEnd <=> walk.index > NumPointers
           /\ walk.index <= NumPointers =>
                F!Pointer = IF Position <= Len(file) THEN file[Position] ELSE 0
<1>1. walk.list \in {"direct", "indirect"} /\ walk.index \in Nat \ {0}
  BY DEF FileShape, Walks, Transfers
<1>2. Direct \in Nat /\ Indirect \in Nat
  BY DriversAssumption DEF F!FileAssumption
<1>3. CASE walk.list = "direct"
  <2>1. F!Pointers(walk.list) = [i \in 1 .. Direct |-> IF i <= Len(file) THEN file[i] ELSE 0]
    BY <1>3 DEF F!Pointers
  <2> QED
    BY <1>1, <1>2, <1>3, <2>1 DEF NumPointers, Position, F!AtEnd, F!Pointer
<1>4. CASE walk.list = "indirect"
  <2>1. F!Pointers(walk.list) =
          [i \in 1 .. Indirect |-> IF Direct + i <= Len(file) THEN file[Direct + i] ELSE 0]
    BY <1>4 DEF F!Pointers
  <2> QED
    BY <1>1, <1>2, <1>4, <2>1 DEF NumPointers, Position, F!AtEnd, F!Pointer
<1> QED
  BY <1>1, <1>3, <1>4

(* It is 0 behind the file's last block. *)
LEMMA PointerTyped ==
    ASSUME FileShape, walk.index <= NumPointers
    PROVE  /\ F!Pointer \in Nat /\ Position \in Nat \ {0}
           /\ F!Pointer > 0 => Position <= Len(file)
           /\ Position <= Len(file) => F!Pointer = file[Position] /\ F!Pointer > 0
<1>1. Position \in Nat \ {0}
  BY DriversAssumption DEF F!FileAssumption, FileShape, Walks, Position
<1>2. \A n \in Nat \ {0} : n <= Len(file) => file[n] \in Nat \ {0}
  BY DEF FileShape, Walks, Transfers
<1> QED
  BY <1>1, <1>2, PointerIs

(* new and the head of read make what the invariant says. *)
LEMMA FileStarts == F!Init => FileInside
<1> SUFFICES ASSUME F!Init PROVE FileInside
  OBVIOUS
<1>1. /\ file \in Seq(Nat \ {0}) /\ Len(file) > 0 /\ bulk \in Nat \ {0}
      /\ file[1] \in Nat \ {0}
  BY DriversAssumption DEF F!Init, F!FileAssumption
<1>2. /\ walk = [list |-> "direct", index |-> 1, from |-> 1, base |-> file[1],
                 series |-> 0, offset |-> 0]
      /\ transfer = [lba |-> 0, address |-> 1, left |-> 0] /\ doing = "walk"
      /\ contents = [i \in 1 .. Len(file) |-> -1]
  BY DEF F!Init, F!Start, F!Unread
<1>3. FileShape
  BY <1>1, <1>2 DEF FileShape, Walks, Transfers
<1>4. Inside
  BY <1>1, <1>2, DriversAssumption DEF Inside, NumPointers, Position, Moving, Commanded,
     F!FileAssumption
<1> QED
  BY <1>2, <1>3, <1>4 DEF FileInside, ListsMade

(* The types of the walk's and the transfer's parts. *)
LEMMA FileTyped ==
    ASSUME FileShape
    PROVE  /\ walk.list \in {"direct", "indirect"} /\ walk.index \in Nat \ {0}
           /\ walk.from \in Nat \ {0} /\ walk.base \in Nat /\ walk.series \in Nat
           /\ walk.offset \in Nat
           /\ transfer.lba \in Nat /\ transfer.address \in Nat \ {0} /\ transfer.left \in Nat
           /\ Len(file) \in Nat \ {0}
  BY DEF FileShape, Walks, Transfers

(* A walk is the record of its parts. *)
LEMMA WalkIs ==
    ASSUME FileShape
    PROVE  walk = [list |-> walk.list, index |-> walk.index, from |-> walk.from,
                   base |-> walk.base, series |-> walk.series, offset |-> walk.offset]
  BY DEF FileShape, Walks

LEMMA WalkMade ==
    ASSUME NEW list \in {"direct", "indirect"}, NEW index \in Nat \ {0}, NEW from \in Nat \ {0},
           NEW base \in Nat, NEW series \in Nat, NEW offset \in Nat
    PROVE  [list |-> list, index |-> index, from |-> from, base |-> base, series |-> series,
            offset |-> offset] \in Walks
  BY DEF Walks

(* No step reaches behind the buffer. *)
LEMMA FileStep ==
    ASSUME FileInside, F!Next
    PROVE  FileInside'
<1>1. FileShape /\ Inside
  BY DEF FileInside
<1>2. /\ Direct \in Nat \ {0} /\ Indirect \in Nat \ {0} /\ NumPointers \in Nat \ {0}
      /\ Position \in Nat \ {0}
  BY <1>1, DriversAssumption DEF F!FileAssumption, NumPointers, Position, FileShape,
     Walks, Transfers
<1>3. CASE F!RunGoesOn
  <2>1. /\ doing = "walk" /\ walk.index <= NumPointers
        /\ F!Pointer = walk.base + walk.series
        /\ walk' = [walk EXCEPT !.index = @ + 1, !.series = @ + 1]
        /\ UNCHANGED <<file, bulk, transfer, command, contents, doing>>
    BY <1>1, <1>2, <1>3, PointerIs DEF F!RunGoesOn, F!RunEnds, FileShape, Walks, Transfers
  <2>2. Position <= Len(file)
    BY <1>1, <2>1, PointerTyped DEF Inside, FileShape, Walks, Transfers
  <2>3. walk' = [list |-> walk.list, index |-> walk.index + 1, from |-> walk.from,
                 base |-> walk.base, series |-> walk.series + 1, offset |-> walk.offset]
    BY <1>1, <2>1, WalkIs
  <2>31. walk' \in Walks
    <3>1. /\ walk.list \in {"direct", "indirect"} /\ walk.index + 1 \in Nat \ {0}
          /\ walk.from \in Nat \ {0} /\ walk.base \in Nat /\ walk.series + 1 \in Nat
          /\ walk.offset \in Nat
      BY <1>1, FileTyped
    <3>2. [list |-> walk.list, index |-> walk.index + 1, from |-> walk.from,
           base |-> walk.base, series |-> walk.series + 1, offset |-> walk.offset] \in Walks
      BY <3>1, WalkMade, Zenon
    <3> QED
      BY <2>3, <3>2, Zenon
  <2>30. FileShape'
    BY <1>1, <2>1, <2>31 DEF FileShape
  <2>4. /\ walk'.list = walk.list /\ walk'.index = walk.index + 1 /\ walk'.from = walk.from
        /\ walk'.base = walk.base /\ walk'.series = walk.series + 1
        /\ walk'.offset = walk.offset
    BY <2>3
  <2>5. NumPointers' = NumPointers /\ Position' = Position + 1
    BY <1>1, <1>2, <2>4, FileTyped DEF NumPointers, Position
  <2>6. doing' = "walk" /\ file' = file /\ walk.index <= NumPointers
    BY <2>1
  <2>7. Inside'
    <3>1. ~Moving' /\ ~Commanded'
      BY <2>6 DEF Moving, Commanded
    <3>2. walk'.from + walk'.offset + walk'.series <= Position'
      BY <1>1, <1>2, <2>4, <2>5, FileTyped DEF Inside
    <3>3. walk'.list = "indirect" => Direct < Len(file')
      BY <1>1, <2>4, <2>6 DEF Inside
    <3>4. walk'.index <= NumPointers' + 1
      BY <1>1, <1>2, <2>4, <2>5, <2>6, FileTyped
    <3>5. walk'.base > 0 /\ Position' <= Len(file') + 1
      BY <1>1, <1>2, <2>2, <2>4, <2>5, <2>6, FileTyped DEF Inside
    <3> QED
      BY <3>1, <3>2, <3>3, <3>4, <3>5 DEF Inside
  <2> QED
    BY <2>1, <2>30, <2>7 DEF FileInside, ListsMade
<1>4. CASE F!ReadRun
  <2>1. /\ doing = "walk" /\ walk.index <= NumPointers
        /\ UNCHANGED <<file, bulk, walk, command, contents>>
        /\ IF F!Invalid THEN doing' = "panic" /\ UNCHANGED transfer
           ELSE /\ transfer' = [lba |-> walk.base, address |-> walk.from + walk.offset,
                                left |-> walk.series]
                /\ doing' = "transfer"
    BY <1>1, <1>2, <1>4, PointerIs DEF F!ReadRun, FileShape, Walks, Transfers
  <2>2. NumPointers' = NumPointers /\ Position' = Position
    BY <2>1 DEF NumPointers, Position
  <2>3. CASE doing' = "panic"
    <3> QED
      BY <1>1, <1>2, <2>1, <2>2, <2>3, FileTyped DEF FileInside, FileShape, Inside,
         ListsMade, Moving, Commanded
  <2>4. CASE ~F!Invalid
    <3>1. /\ doing' = "transfer" /\ transfer'.lba = walk.base
          /\ transfer'.address = walk.from + walk.offset /\ transfer'.left = walk.series
      BY <2>1, <2>4
    <3>2. transfer' \in Transfers
      BY <1>1, <2>1, <2>4, FileTyped DEF Transfers
    <3>3. FileShape'
      BY <1>1, <2>1, <3>1, <3>2 DEF FileShape
    <3>4. Inside'
      BY <1>1, <1>2, <2>1, <2>2, <3>1, FileTyped DEF Inside, Moving, Commanded
    <3> QED
      BY <3>1, <3>3, <3>4 DEF FileInside, ListsMade
  <2> QED
    BY <2>1, <2>3, <2>4
<1>5. CASE F!Issue
  <2>1. /\ doing = "transfer" /\ transfer.left > 0
        /\ UNCHANGED <<file, bulk, walk, transfer, contents>>
        /\ command' = [lba |-> transfer.lba, address |-> transfer.address,
                       length |-> F!Fetched,
                       prps |-> F!ConstructPrp(F!Fetched, transfer.address)]
        /\ doing' = IF F!Listed(F!Fetched, transfer.address) THEN "dispatch" ELSE "stray"
    BY <1>5 DEF F!Issue
  <2>2. F!Fetched \in 1 .. transfer.left
    BY <1>1, <2>1 DEF F!Fetched, FileShape, Walks, Transfers
  <2>3. /\ command'.lba = transfer.lba /\ command'.address = transfer.address
        /\ command'.length = F!Fetched
        /\ command'.prps = F!ConstructPrp(F!Fetched, transfer.address)
    BY <2>1
  <2>4. doing' \in {"dispatch", "stray"}
    BY <2>1
  <2>5. NumPointers' = NumPointers /\ Position' = Position
    BY <2>1 DEF NumPointers, Position
  <2>6. FileShape'
    BY <1>1, <2>1, <2>4 DEF FileShape, Walks, Transfers
  <2>7. Inside'
    BY <1>1, <2>1, <2>2, <2>3, <2>5, <2>4 DEF Inside, Moving, Commanded
  <2>8. ListsMade'
    BY <2>1, <2>3 DEF ListsMade
  <2> QED
    BY <2>6, <2>7, <2>8 DEF FileInside
<1>6. CASE F!Dispatched
  <2>1. /\ doing = "dispatch" /\ doing' = "transfer"
        /\ UNCHANGED <<file, bulk, walk, command>>
        /\ transfer' = [lba |-> F!NextLba, address |-> transfer.address + command.length,
                        left |-> transfer.left - command.length]
        /\ contents' = [i \in DOMAIN contents |->
              IF i \in command.address..(command.address + command.length - 1)
              THEN command.lba + i - command.address ELSE contents[i]]
    BY <1>6 DEF F!Dispatched
  <2>2. /\ command.address = transfer.address /\ command.lba = transfer.lba
        /\ command.length \in 1 .. transfer.left
    BY <1>1, <2>1 DEF Inside, Commanded
  <2>3. contents' \in [1 .. Len(file) -> Int]
    BY <1>1, <2>1, <2>2 DEF FileShape, Walks, Transfers
  <2>4. F!NextLba \in Nat
    BY <1>1, <2>2 DEF F!NextLba, FileShape, Walks, Transfers
  <2>5. NumPointers' = NumPointers /\ Position' = Position
    BY <2>1 DEF NumPointers, Position
  <2>60. transfer' \in Transfers
    BY <1>1, <2>1, <2>2, <2>4 DEF FileShape, Transfers
  <2>6. FileShape'
    BY <1>1, <2>1, <2>3, <2>60 DEF FileShape
  <2>7. Inside'
    BY <1>1, <2>1, <2>2, <2>5 DEF Inside, Moving, Commanded, FileShape, Walks, Transfers
  <2> QED
    BY <2>1, <2>6, <2>7 DEF FileInside, ListsMade
<1>7. CASE F!RunRead
  <2>1. /\ doing = "transfer" /\ doing' = "walk"
        /\ UNCHANGED <<file, bulk, transfer, command, contents>>
        /\ walk' = [walk EXCEPT !.base = F!NextBase, !.offset = @ + walk.series,
                       !.series = 0,
                       !.index = IF F!Pointer = 0 THEN NumPointers + 1 ELSE @ + 1]
        /\ walk.index <= NumPointers
    BY <1>1, <1>7, PointerIs DEF F!RunRead, Inside, Moving
  <2>2. F!Pointer \in Nat /\ (F!Pointer > 0 => Position <= Len(file))
    BY <1>1, <2>1, PointerTyped
  <2>3. F!NextBase \in Nat /\ (F!Pointer > 0 => F!NextBase > 0)
    BY <1>1, <2>2 DEF F!NextBase, FileShape, Walks, Transfers
  <2>4. walk' = [list |-> walk.list,
                 index |-> IF F!Pointer = 0 THEN NumPointers + 1 ELSE walk.index + 1,
                 from |-> walk.from, base |-> F!NextBase, series |-> 0,
                 offset |-> walk.offset + walk.series]
    BY <1>1, <2>1, WalkIs
  <2>40. /\ walk'.list = walk.list /\ walk'.from = walk.from /\ walk'.base = F!NextBase
         /\ walk'.offset = walk.offset + walk.series /\ walk'.series = 0
    BY <2>4
  <2>42. walk'.index = IF F!Pointer = 0 THEN NumPointers + 1 ELSE walk.index + 1
    BY <2>4
  <2>41. walk'.index \in Nat \ {0}
    <3>1. walk'.index = NumPointers + 1 \/ walk'.index = walk.index + 1
      BY <2>42
    <3> QED
      BY <1>1, <1>2, <3>1, FileTyped
  <2>50. walk' \in Walks
    <3> DEFINE next == IF F!Pointer = 0 THEN NumPointers + 1 ELSE walk.index + 1
    <3>1. /\ walk.list \in {"direct", "indirect"} /\ next \in Nat \ {0}
          /\ walk.from \in Nat \ {0} /\ walk.offset + walk.series \in Nat
      BY <1>1, <1>2, FileTyped
    <3> HIDE DEF next
    <3>2. [list |-> walk.list, index |-> next, from |-> walk.from, base |-> F!NextBase,
           series |-> 0, offset |-> walk.offset + walk.series] \in Walks
      <4>1. 0 \in Nat
        OBVIOUS
      <4> QED
        BY <2>3, <3>1, <4>1, WalkMade, Zenon
    <3> QED
      BY <2>4, <3>2, Zenon DEF next
  <2>5. FileShape'
    BY <1>1, <2>1, <2>50 DEF FileShape
  <2>60. doing' = "walk" /\ file' = file /\ walk.index <= NumPointers
    BY <2>1
  <2>61. ~Moving' /\ ~Commanded'
    BY <2>60 DEF Moving, Commanded
  <2>62. walk'.list = "indirect" => Direct < Len(file')
    BY <1>1, <2>40, <2>60 DEF Inside
  <2>63. NumPointers' = NumPointers
    BY <2>40 DEF NumPointers
  <2>64. ASSUME F!Pointer = 0 PROVE Inside'
    <3>1. walk'.index = NumPointers + 1
      BY <2>42, <2>64
    <3>2. Position' = Position + (NumPointers + 1 - walk.index)
      BY <1>1, <1>2, <2>40, <3>1, FileTyped DEF Position
    <3>3. walk'.from + walk'.offset + walk'.series <= Position'
      <4>1. Position' \in Nat /\ Position <= Position'
        BY <1>1, <1>2, <2>60, <3>2, FileTyped
      <4>2. walk.from + walk.offset + walk.series <= Position
        BY <1>1 DEF Inside
      <4> QED
        BY <1>1, <1>2, <2>40, <4>1, <4>2, FileTyped
    <3> QED
      BY <1>2, <2>61, <2>62, <2>63, <3>1, <3>3 DEF Inside
  <2>65. ASSUME F!Pointer > 0 PROVE Inside'
    <3>1. walk'.index = walk.index + 1
      BY <2>2, <2>42, <2>65
    <3>2. Position' = Position + 1
      BY <1>1, <1>2, <2>40, <3>1, FileTyped DEF Position
    <3>3. walk'.from + walk'.offset + walk'.series <= Position'
      BY <1>1, <1>2, <2>40, <3>2, FileTyped DEF Inside
    <3>4. walk'.base > 0 /\ Position' <= Len(file') + 1
      BY <1>1, <1>2, <2>2, <2>3, <2>40, <2>60, <2>65, <3>2, FileTyped
    <3>5. walk'.index <= NumPointers' + 1
      BY <1>1, <1>2, <2>60, <2>63, <3>1, FileTyped
    <3> QED
      BY <2>61, <2>62, <3>3, <3>4, <3>5 DEF Inside
  <2>7. Inside'
    BY <2>2, <2>64, <2>65
  <2> QED
    BY <2>1, <2>5, <2>7 DEF FileInside, ListsMade
<1>8. CASE F!DirectEnds
  <2>1. /\ doing = "walk" /\ walk.index > NumPointers /\ walk.list = "direct"
        /\ UNCHANGED <<file, bulk, transfer, command, contents>>
        /\ IF Direct >= Len(file) THEN doing' = "complete" /\ UNCHANGED walk
           ELSE /\ walk' = F!Start("indirect", walk.from + walk.offset, file[Direct + 1])
                /\ UNCHANGED doing
    BY <1>1, <1>8, PointerIs DEF F!DirectEnds
  <2>2. CASE Direct >= Len(file)
    <3>1. NumPointers' = NumPointers /\ Position' = Position
      BY <2>1, <2>2 DEF NumPointers, Position
    <3> QED
      BY <1>1, <1>2, <2>1, <2>2, <3>1 DEF FileInside, FileShape, Inside,
         ListsMade, Moving, Commanded
  <2>3. CASE Direct < Len(file)
    <3>1. file[Direct + 1] \in Nat \ {0}
      BY <1>1, <1>2, <2>3 DEF FileShape, Walks, Transfers
    <3>2. walk' = [list |-> "indirect", index |-> 1, from |-> walk.from + walk.offset,
                   base |-> file[Direct + 1], series |-> 0, offset |-> 0]
      BY <1>2, <2>1, <2>3, <1>1 DEF F!Start, FileShape, Walks, Transfers
    <3>3. doing' = doing
      BY <1>1, <1>2, <2>1, <2>3 DEF FileShape, Walks, Transfers
    <3>4. FileShape'
      BY <1>1, <2>1, <3>1, <3>2, <3>3 DEF FileShape, Walks, Transfers
    <3>5. NumPointers' = Indirect /\ Position' = Direct + 1
      BY <3>2 DEF NumPointers, Position
    <3>6. Position = walk.index /\ NumPointers = Direct
      BY <2>1 DEF Position, NumPointers
    <3>7. Inside'
      BY <1>1, <1>2, <2>1, <2>3, <3>1, <3>2, <3>3, <3>5, <3>6
         DEF Inside, Moving, Commanded, FileShape, Walks, Transfers
    <3> QED
      BY <2>1, <3>3, <3>4, <3>7 DEF FileInside, ListsMade
  <2> QED
    BY <1>1, <1>2, <2>2, <2>3 DEF FileShape, Walks, Transfers
<1>9. CASE F!IndirectEnds
  <2>1. /\ doing' \in {"complete", "todo"}
        /\ UNCHANGED <<file, bulk, walk, transfer, command, contents>>
    BY <1>9 DEF F!IndirectEnds
  <2>2. NumPointers' = NumPointers /\ Position' = Position
    BY <2>1 DEF NumPointers, Position
  <2> QED
    BY <1>1, <1>2, <2>1, <2>2 DEF FileInside, FileShape, Inside,
         ListsMade, Moving, Commanded
<1> QED
  BY <1>3, <1>4, <1>5, <1>6, <1>7, <1>8, <1>9 DEF F!Next

-----------------------------------------------------------------------------
(* There is a first place where the file's blocks stop lying side by side. *)
LEMMA FirstRunIs ==
    ASSUME FileShape
    PROVE  /\ F!FirstRun \in 1 .. Len(file)
           /\ \A i \in 1 .. F!FirstRun : file[i] = file[1] + i - 1
           /\ F!FirstRun < Len(file) => file[F!FirstRun + 1] # file[1] + F!FirstRun
<1> DEFINE Run(n) == /\ \A i \in 1 .. n : file[i] = file[1] + i - 1
                     /\ n < Len(file) => file[n + 1] # file[1] + n
           Breaks == {n \in Nat : /\ n \in 1 .. Len(file)
                                  /\ n < Len(file) => file[n + 1] # file[1] + n}
<1>1. Len(file) \in Nat \ {0} /\ \A i \in 1 .. Len(file) : file[i] \in Nat \ {0}
  BY DEF FileShape
<1>2. Len(file) \in Breaks
  BY <1>1
<1>3. PICK n \in Breaks : \A m \in Breaks : n <= m
  BY <1>2, LeastNumber
<1>4. \A i \in 1 .. n : file[i] = file[1] + i - 1
  <2> SUFFICES ASSUME NEW i \in 1 .. n PROVE file[i] = file[1] + i - 1
    OBVIOUS
  <2>1. n \in Nat /\ n <= Len(file) /\ file[1] \in Nat
    BY <1>1, <1>3
  <2>2. CASE i = 1
    BY <2>1, <2>2
  <2>3. CASE i # 1
    <3>1. i - 1 \in 1 .. Len(file) /\ i - 1 < n /\ i - 1 < Len(file) /\ i - 1 \in Nat
      BY <2>1, <2>3
    <3>2. i - 1 \notin Breaks
      BY <1>3, <2>1, <3>1
    <3>3. file[(i - 1) + 1] = file[1] + (i - 1)
      BY <3>1, <3>2
    <3> QED
      BY <2>1, <3>3
  <2> QED
    BY <2>2, <2>3
<1>5. n \in 1 .. Len(file) /\ Run(n)
  BY <1>3, <1>4
<1>6. F!FirstRun = CHOOSE m \in 1 .. Len(file) : Run(m)
  BY DEF F!FirstRun
<1> HIDE DEF Run
<1>7. F!FirstRun \in 1 .. Len(file) /\ Run(F!FirstRun)
  BY <1>5, <1>6
<1> QED
  BY <1>7 DEF Run

-----------------------------------------------------------------------------
(* The blocks of the first run, but for the last direct pointer. *)
FirstBlocks == IF F!FirstRun < Direct THEN F!FirstRun ELSE Direct - 1

StoredBelow(n) == \A i \in 1 .. FirstBlocks : i < n => contents[i] = file[i]

(* The walk looks for the end of the first run; it is read; it is done. *)
Searching ==
    /\ doing = "walk" /\ FirstBlocks > 0
    /\ walk = [list |-> "direct", index |-> walk.index, from |-> 1, base |-> file[1],
               series |-> walk.index - 1, offset |-> 0]
    /\ walk.index <= Direct /\ walk.index - 1 <= F!FirstRun

Fetching ==
    /\ Moving
    /\ walk.from = 1 /\ walk.offset = 0 /\ walk.series = FirstBlocks
    /\ transfer.address <= FirstBlocks + 1
    /\ transfer.lba = file[1] + transfer.address - 1
    /\ transfer.left = FirstBlocks + 1 - transfer.address
    /\ StoredBelow(transfer.address)

Behind ==
    /\ walk.from + walk.offset > FirstBlocks
    /\ Moving => transfer.address > FirstBlocks
    /\ StoredBelow(FirstBlocks + 1)

FirstRead == Searching \/ Fetching \/ Behind \/ doing = "panic"

(* The blocks of the first run lie side by side. *)
LEMMA FirstBlocksAre ==
    ASSUME FileShape
    PROVE  /\ FirstBlocks \in Nat /\ FirstBlocks <= F!FirstRun /\ F!FirstRun \in Nat \ {0}
           /\ F!FirstRun <= Len(file)
           /\ \A i \in 1 .. FirstBlocks : file[i] = file[1] + i - 1 /\ i <= Len(file)
           /\ file[1] \in Nat \ {0}
<1>1. Direct \in Nat \ {0}
  BY DriversAssumption DEF F!FileAssumption
<1>2. F!FirstRun \in 1 .. Len(file) /\ Len(file) \in Nat \ {0}
  BY FirstRunIs, FileTyped
<1>3. FirstBlocks \in Nat /\ FirstBlocks <= F!FirstRun
  BY <1>1, <1>2 DEF FirstBlocks
<1>4. \A i \in 1 .. FirstBlocks : i \in 1 .. F!FirstRun
  BY <1>2, <1>3
<1>5. file[1] \in Nat \ {0}
  BY <1>2 DEF FileShape
<1> QED
  BY <1>2, <1>3, <1>4, <1>5, FirstRunIs

(* read begins with the search for the end of the first run. *)
LEMMA FirstReadStarts == F!Init => FirstRead
<1> SUFFICES ASSUME F!Init PROVE FirstRead
  OBVIOUS
<1>1. FileShape
  BY FileStarts DEF FileInside
<1>2. /\ walk = [list |-> "direct", index |-> 1, from |-> 1, base |-> file[1],
                 series |-> 0, offset |-> 0]
      /\ doing = "walk"
  BY DEF F!Init, F!Start
<1>3. Direct \in Nat \ {0}
  BY DriversAssumption DEF F!FileAssumption
<1>4. FirstBlocks \in Nat /\ F!FirstRun \in Nat \ {0}
  BY <1>1, FirstBlocksAre
<1>5. CASE FirstBlocks > 0
  BY <1>2, <1>3, <1>4, <1>5 DEF FirstRead, Searching
<1>6. CASE FirstBlocks = 0
  <2>1. StoredBelow(FirstBlocks + 1)
    BY <1>6 DEF StoredBelow
  <2> QED
    BY <1>2, <1>6, <2>1 DEF FirstRead, Behind, Moving
<1> QED
  BY <1>4, <1>5, <1>6

(* The end of the search is the end of the first run. *)
LEMMA SearchEnds ==
    ASSUME FileInside, Searching
    PROVE  /\ walk.index <= NumPointers /\ walk.index \in Nat \ {0}
           /\ F!RunEnds => walk.series = FirstBlocks
           /\ ~F!RunEnds => walk.index < Direct /\ walk.index <= F!FirstRun
<1>1. FileShape
  BY DEF FileInside
<1>2. Direct \in Nat \ {0} /\ walk.index \in Nat \ {0} /\ Len(file) \in Nat \ {0}
  BY <1>1, FileTyped, DriversAssumption DEF F!FileAssumption
<1>3. /\ walk.list = "direct" /\ walk.base = file[1] /\ walk.series = walk.index - 1
      /\ walk.index <= Direct /\ walk.index - 1 <= F!FirstRun /\ FirstBlocks > 0
  BY DEF Searching
<1>4. NumPointers = Direct /\ Position = walk.index
  BY <1>3 DEF NumPointers, Position
<1>5. F!Pointer = IF walk.index <= Len(file) THEN file[walk.index] ELSE 0
  BY <1>1, <1>3, <1>4, PointerIs
<1>6. Len(F!Pointers(walk.list)) = Direct
  BY <1>1, <1>4, PointerIs
<1>7. /\ F!FirstRun \in Nat \ {0} /\ F!FirstRun <= Len(file) /\ file[1] \in Nat \ {0}
      /\ walk.index <= F!FirstRun => file[walk.index] = file[1] + walk.index - 1
      /\ F!FirstRun < Len(file) => file[F!FirstRun + 1] # file[1] + F!FirstRun
  BY <1>1, <1>2, FirstBlocksAre, FirstRunIs
<1>8. F!RunEnds <=> \/ file[1] + (walk.index - 1) # F!Pointer
                    \/ walk.index = Direct /\ walk.index - 1 # 0
  BY <1>3, <1>6 DEF F!RunEnds
<1>9. CASE walk.index <= F!FirstRun
  <2>1. F!Pointer = file[1] + (walk.index - 1)
    BY <1>2, <1>5, <1>7, <1>9
  <2>2. F!RunEnds <=> walk.index = Direct /\ walk.index # 1
    BY <1>2, <1>8, <2>1
  <2>3. walk.index = Direct => walk.index # 1
    BY <1>2, <1>3, <1>7 DEF FirstBlocks
  <2>4. walk.index = Direct => FirstBlocks = walk.index - 1
    BY <1>2, <1>7, <1>9 DEF FirstBlocks
  <2> QED
    BY <1>2, <1>3, <1>4, <1>9, <2>2, <2>3, <2>4
<1>10. CASE walk.index > F!FirstRun
  <2>1. walk.index = F!FirstRun + 1
    BY <1>2, <1>3, <1>7, <1>10
  <2>2. F!Pointer # file[1] + (walk.index - 1)
    BY <1>2, <1>5, <1>7, <2>1
  <2>3. FirstBlocks = F!FirstRun
    BY <1>2, <1>3, <1>7, <2>1 DEF FirstBlocks
  <2> QED
    BY <1>2, <1>3, <1>4, <1>7, <1>8, <2>1, <2>2, <2>3
<1> QED
  BY <1>2, <1>7, <1>9, <1>10

(* Blocks that are read elsewhere do not change what is stored. *)
LEMMA FirstReadStep ==
    ASSUME FileInside, FirstRead, F!Next
    PROVE  FirstRead'
<1>1. FileShape /\ Inside
  BY DEF FileInside
<1>2. /\ FirstBlocks \in Nat /\ FirstBlocks <= F!FirstRun /\ F!FirstRun \in Nat \ {0}
      /\ F!FirstRun <= Len(file) /\ file[1] \in Nat \ {0}
      /\ \A i \in 1 .. FirstBlocks : file[i] = file[1] + i - 1 /\ i <= Len(file)
  BY <1>1, FirstBlocksAre
<1>3. file' = file
  BY DEF F!Next, F!RunGoesOn, F!ReadRun, F!Issue, F!Dispatched, F!RunRead, F!DirectEnds,
     F!IndirectEnds
<1>4. F!FirstRun' = F!FirstRun /\ FirstBlocks' = FirstBlocks
  BY <1>3 DEF F!FirstRun, FirstBlocks
<1>5. contents' = contents => \A n : StoredBelow(n) => StoredBelow(n)'
  BY <1>3, <1>4 DEF StoredBelow
<1>6. doing # "panic" => Searching \/ Fetching \/ Behind
  BY DEF FirstRead
<1>7. CASE F!RunGoesOn
  <2>1. /\ doing = "walk" /\ doing' = "walk" /\ contents' = contents /\ ~F!RunEnds
        /\ walk' = [walk EXCEPT !.index = @ + 1, !.series = @ + 1]
    BY <1>7 DEF F!RunGoesOn
  <2>2. walk' = [list |-> walk.list, index |-> walk.index + 1, from |-> walk.from,
                 base |-> walk.base, series |-> walk.series + 1, offset |-> walk.offset]
    BY <1>1, <2>1, WalkIs
  <2>3. ~Moving /\ ~Moving'
    BY <2>1 DEF Moving
  <2>4. ASSUME Searching PROVE Searching'
    <3>1. walk.index < Direct /\ walk.index <= F!FirstRun /\ walk.index \in Nat \ {0}
      BY <2>1, <2>4, SearchEnds
    <3>2. /\ walk.list = "direct" /\ walk.from = 1 /\ walk.base = file[1]
          /\ walk.series = walk.index - 1 /\ walk.offset = 0 /\ FirstBlocks > 0
      BY <2>4 DEF Searching
    <3>3. Direct \in Nat
      BY DriversAssumption DEF F!FileAssumption
    <3>4. walk'.index = walk.index + 1 /\ walk'.index - 1 = walk.series + 1
      BY <2>2, <3>1, <3>2
    <3>41. walk' = [list |-> "direct", index |-> walk'.index, from |-> 1, base |-> file'[1],
                    series |-> walk'.index - 1, offset |-> 0]
      BY <1>3, <2>2, <3>2, <3>4
    <3>5. walk'.index <= Direct /\ walk'.index - 1 <= F!FirstRun
      BY <3>1, <3>2, <3>3, <3>4, <1>2
    <3> QED
      BY <1>4, <2>1, <3>2, <3>41, <3>5 DEF Searching
  <2>5. ASSUME Behind PROVE Behind'
    <3>1. walk'.from = walk.from /\ walk'.offset = walk.offset
      BY <2>2
    <3> QED
      BY <1>4, <1>5, <2>1, <2>3, <2>5, <3>1 DEF Behind
  <2> QED
    BY <1>6, <2>1, <2>3, <2>4, <2>5 DEF FirstRead, Fetching
<1>8. CASE F!ReadRun
  <2>1. /\ doing = "walk" /\ walk' = walk /\ contents' = contents /\ F!RunEnds
        /\ IF F!Invalid THEN doing' = "panic" /\ UNCHANGED transfer
           ELSE /\ transfer' = [lba |-> walk.base, address |-> walk.from + walk.offset,
                                left |-> walk.series]
                /\ doing' = "transfer"
    BY <1>8 DEF F!ReadRun
  <2>2. ~Moving
    BY <2>1 DEF Moving
  <2>3. CASE doing' = "panic"
    BY <2>3 DEF FirstRead
  <2>4. CASE doing' = "transfer"
    <3>1. /\ transfer'.lba = walk.base /\ transfer'.address = walk.from + walk.offset
          /\ transfer'.left = walk.series
      BY <2>1, <2>4
    <3>2. Moving'
      BY <2>4 DEF Moving
    <3>3. ASSUME Searching PROVE Fetching'
      <4>1. walk.series = FirstBlocks
        BY <2>1, <3>3, SearchEnds
      <4>2. walk.from = 1 /\ walk.base = file[1] /\ walk.offset = 0
        BY <3>3 DEF Searching
      <4>3. StoredBelow(1)'
        BY DEF StoredBelow
      <4>4. transfer'.address = 1
        BY <3>1, <4>2
      <4>5. /\ walk'.from = 1 /\ walk'.offset = 0 /\ walk'.series = FirstBlocks'
            /\ transfer'.address <= FirstBlocks' + 1
        BY <1>2, <1>4, <2>1, <4>1, <4>2, <4>4
      <4>6. transfer'.lba = file'[1] + transfer'.address - 1
        BY <1>2, <1>3, <3>1, <4>2, <4>4
      <4>7. transfer'.left = FirstBlocks' + 1 - transfer'.address
        BY <1>2, <1>4, <3>1, <4>1, <4>4
      <4> QED
        BY <3>2, <4>3, <4>4, <4>5, <4>6, <4>7 DEF Fetching
    <3>4. ASSUME Behind PROVE Behind'
      BY <1>4, <1>5, <2>1, <3>1, <3>4 DEF Behind
    <3> QED
      BY <1>6, <2>1, <2>2, <3>3, <3>4 DEF FirstRead, Fetching
  <2> QED
    BY <2>1, <2>3, <2>4
<1>9. CASE F!Issue
  <2>1. /\ doing = "transfer" /\ walk' = walk /\ contents' = contents /\ transfer' = transfer
        /\ doing' = IF F!Listed(F!Fetched, transfer.address) THEN "dispatch" ELSE "stray"
    BY <1>9 DEF F!Issue
  <2>2. Moving /\ Moving'
    BY <2>1 DEF Moving
  <2>3. Fetching => Fetching'
    BY <1>3, <1>4, <1>5, <2>1, <2>2 DEF Fetching
  <2>4. Behind => Behind'
    BY <1>4, <1>5, <2>1, <2>2 DEF Behind
  <2> QED
    BY <1>6, <2>1, <2>3, <2>4 DEF FirstRead, Searching
<1>10. CASE F!Dispatched
  <2>1. /\ doing = "dispatch" /\ doing' = "transfer" /\ walk' = walk
        /\ transfer' = [lba |-> F!NextLba, address |-> transfer.address + command.length,
                        left |-> transfer.left - command.length]
        /\ contents' = [i \in DOMAIN contents |->
              IF i \in command.address..(command.address + command.length - 1)
              THEN command.lba + i - command.address ELSE contents[i]]
    BY <1>10 DEF F!Dispatched
  <2>2. /\ command.address = transfer.address /\ command.lba = transfer.lba
        /\ command.length \in 1 .. transfer.left
    BY <1>1, <2>1 DEF Inside, Commanded
  <2>3. Moving /\ Moving'
    BY <2>1 DEF Moving
  <2>4. /\ transfer'.lba = transfer.lba + command.length
        /\ transfer'.address = transfer.address + command.length
        /\ transfer'.left = transfer.left - command.length
    BY <2>1 DEF F!NextLba
  <2>5. /\ transfer.lba \in Nat /\ transfer.address \in Nat \ {0} /\ transfer.left \in Nat
        /\ command.length \in Nat
    BY <1>1, <2>2, FileTyped
  <2>6. \A i \in 1 .. Len(file) :
          contents'[i] = IF transfer.address <= i /\ i <= transfer.address + command.length - 1
                         THEN transfer.lba + i - transfer.address ELSE contents[i]
    BY <1>1, <2>1, <2>2, <2>5 DEF FileShape
  <2>7. ASSUME Fetching PROVE Fetching'
    <3>1. StoredBelow(transfer.address)
      BY <2>7 DEF Fetching
    <3>2. walk.from = 1 /\ walk.offset = 0 /\ walk.series = FirstBlocks
      BY <2>7 DEF Fetching
    <3>3. /\ transfer.lba = file[1] + transfer.address - 1
          /\ transfer.left = FirstBlocks + 1 - transfer.address
          /\ transfer.address <= FirstBlocks + 1
      BY <2>7 DEF Fetching
    <3>4. ASSUME NEW i \in 1 .. FirstBlocks, i < transfer.address + command.length
          PROVE  contents'[i] = file[i]
      <4>1. i \in 1 .. Len(file) /\ file[i] = file[1] + i - 1
        BY <1>1, <1>2, FileTyped
      <4>2. i < transfer.address => contents[i] = file[i]
        BY <3>1 DEF StoredBelow
      <4>3. i >= transfer.address => contents'[i] = transfer.lba + i - transfer.address
        BY <2>5, <2>6, <3>4, <4>1
      <4>4. i < transfer.address => contents'[i] = contents[i]
        BY <2>5, <2>6, <4>1
      <4>5. i \in Int /\ file[1] \in Int
        BY <1>2
      <4>6. transfer.lba + i - transfer.address = file[1] + i - 1
        BY <2>5, <3>3, <4>5
      <4> QED
        BY <2>5, <4>1, <4>2, <4>3, <4>4, <4>5, <4>6
    <3>5. StoredBelow(transfer.address)'
      BY <1>3, <1>4, <2>4, <3>4 DEF StoredBelow
    <3>6. file[1] \in Nat /\ FirstBlocks \in Nat
      BY <1>2
    <3>7. transfer'.lba = file[1] + transfer'.address - 1
      BY <2>4, <2>5, <3>3, <3>6
    <3>8. transfer'.left = FirstBlocks + 1 - transfer'.address
      BY <2>4, <2>5, <3>3, <3>6
    <3>9. transfer'.address <= FirstBlocks + 1
      BY <2>2, <2>4, <2>5, <3>3, <3>6
    <3> QED
      BY <1>3, <1>4, <2>1, <2>3, <3>2, <3>5, <3>7, <3>8, <3>9 DEF Fetching
  <2>8. ASSUME Behind PROVE Behind'
    <3>1. transfer.address > FirstBlocks /\ StoredBelow(FirstBlocks + 1)
          /\ walk.from + walk.offset > FirstBlocks
      BY <2>3, <2>8 DEF Behind
    <3>2. StoredBelow(FirstBlocks + 1)'
      <4> SUFFICES ASSUME NEW i \in 1 .. FirstBlocks PROVE contents'[i] = file[i]
        BY <1>3, <1>4 DEF StoredBelow
      <4>1. i \in 1 .. Len(file)
        BY <1>1, <1>2, FileTyped
      <4>2. contents[i] = file[i]
        BY <1>2, <3>1 DEF StoredBelow
      <4> QED
        BY <1>2, <2>5, <2>6, <3>1, <4>1, <4>2
    <3>3. transfer'.address > FirstBlocks'
      BY <1>2, <1>4, <2>4, <2>5, <3>1
    <3> QED
      BY <1>4, <2>1, <3>1, <3>2, <3>3 DEF Behind
  <2> QED
    BY <1>6, <2>1, <2>7, <2>8 DEF FirstRead, Searching
<1>11. CASE F!RunRead
  <2>1. /\ doing = "transfer" /\ transfer.left = 0 /\ doing' = "walk"
        /\ contents' = contents
        /\ walk' = [walk EXCEPT !.base = F!NextBase, !.offset = @ + walk.series,
                       !.series = 0,
                       !.index = IF F!Pointer = 0 THEN Len(F!Pointers(walk.list)) + 1
                                 ELSE @ + 1]
    BY <1>11 DEF F!RunRead
  <2>2. /\ walk.from \in Nat \ {0} /\ walk.offset \in Nat /\ walk.series \in Nat
        /\ transfer.address \in Nat \ {0}
    BY <1>1, FileTyped
  <2>3. walk'.from = walk.from /\ walk'.offset = walk.offset + walk.series
    <3>1. walk = [list |-> walk.list, index |-> walk.index, from |-> walk.from,
                  base |-> walk.base, series |-> walk.series, offset |-> walk.offset]
      BY <1>1, WalkIs
    <3> QED
      BY <2>1, <3>1
  <2>4. ~Moving' /\ Moving
    BY <2>1 DEF Moving
  <2>5. ASSUME Fetching PROVE Behind'
    <3>1. /\ transfer.left = FirstBlocks + 1 - transfer.address
          /\ StoredBelow(transfer.address)
          /\ walk.from = 1 /\ walk.offset = 0 /\ walk.series = FirstBlocks
      BY <2>5 DEF Fetching
    <3>2. transfer.address = FirstBlocks + 1
      BY <1>2, <2>1, <2>2, <3>1
    <3>3. StoredBelow(FirstBlocks + 1)
      BY <3>1, <3>2
    <3>31. StoredBelow(FirstBlocks + 1)'
      BY <1>3, <1>4, <2>1, <3>3 DEF StoredBelow
    <3>4. walk'.from + walk'.offset > FirstBlocks'
      BY <1>2, <1>4, <2>3, <3>1
    <3> QED
      BY <1>4, <2>4, <3>31, <3>4 DEF Behind
  <2>6. ASSUME Behind PROVE Behind'
    <3>1. walk.from + walk.offset > FirstBlocks /\ StoredBelow(FirstBlocks + 1)
      BY <2>6 DEF Behind
    <3>2. walk'.from + walk'.offset > FirstBlocks'
      BY <1>2, <1>4, <2>2, <2>3, <3>1
    <3> QED
      BY <1>4, <1>5, <2>1, <2>4, <3>1, <3>2 DEF Behind
  <2> QED
    BY <1>6, <2>1, <2>5, <2>6 DEF FirstRead, Searching
<1>12. CASE F!DirectEnds
  <2>1. /\ doing = "walk" /\ F!AtEnd /\ walk.list = "direct" /\ contents' = contents
        /\ \/ doing' = "complete" /\ walk' = walk
           \/ doing' = doing /\ walk' = F!Start("indirect", walk.from + walk.offset,
                                                file[Direct + 1])
    BY <1>12 DEF F!DirectEnds
  <2>2. walk.index > NumPointers /\ NumPointers \in Nat /\ walk.index \in Nat
    BY <1>1, <2>1, PointerIs, FileTyped, DriversAssumption DEF NumPointers, F!FileAssumption
  <2>3. Behind
    BY <1>6, <2>1, <2>2, SearchEnds DEF Fetching, Moving
  <2>4. walk'.from + walk'.offset = walk.from + walk.offset
    BY <1>1, <2>1, FileTyped DEF F!Start
  <2>5. ~Moving'
    BY <2>1 DEF Moving
  <2> QED
    BY <1>4, <1>5, <2>1, <2>3, <2>4, <2>5 DEF Behind, FirstRead
<1>13. CASE F!IndirectEnds
  <2>1. /\ doing = "walk" /\ walk.list = "indirect" /\ contents' = contents
        /\ walk' = walk /\ doing' \in {"complete", "todo"}
    BY <1>13 DEF F!IndirectEnds
  <2>2. walk.list # "direct"
    BY <2>1
  <2>3. Behind
    BY <1>6, <2>1, <2>2 DEF Fetching, Moving, Searching
  <2>4. ~Moving'
    BY <2>1 DEF Moving
  <2> QED
    BY <1>4, <1>5, <2>1, <2>3, <2>4 DEF Behind, FirstRead
<1> QED
  BY <1>7, <1>8, <1>9, <1>10, <1>11, <1>12, <1>13 DEF F!Next

(* A read that ends has passed the first run. *)
LEMMA ReadExact ==
    ASSUME FileInside, FirstRead
    PROVE  F!FirstRunExact /\ F!TransfersInside
<1>1. FileShape /\ Inside
  BY DEF FileInside
<1>2. F!FirstRunExact
  <2> SUFFICES ASSUME doing = "complete", NEW i \in 1 .. F!FirstRun, i < Direct
               PROVE  contents[i] = file[i]
    BY DEF F!FirstRunExact
  <2>1. Behind
    BY DEF FirstRead, Searching, Fetching, Moving
  <2>2. F!FirstRun \in Nat /\ Direct \in Nat /\ FirstBlocks \in Nat
    BY <1>1, FirstBlocksAre, DriversAssumption DEF F!FileAssumption
  <2>3. i \in 1 .. FirstBlocks
    BY <2>2 DEF FirstBlocks
  <2> QED
    BY <2>1, <2>2, <2>3 DEF Behind, StoredBelow
<1>3. F!TransfersInside
  <2> SUFFICES ASSUME Commanded
               PROVE  command.address + command.length - 1 <= Len(file)
    BY DEF F!TransfersInside, Commanded
  <2>1. Moving
    BY DEF Moving, Commanded
  <2> QED
    BY <1>1, <2>1, FileTyped DEF Inside
<1> QED
  BY <1>2, <1>3

(* The pages behind the first one: those that construct_prp counts are those *)
(* from the first block's to the last block's.                               *)
LEMMA PagesCounted ==
    ASSUME NEW n \in Nat \ {0}, NEW a \in Nat \ {0}
    PROVE  LET p == F!Page(a + n - 1) - F!Page(a) IN
           /\ F!Page(a) \in Nat /\ p \in Nat
           /\ n <= F!Took(a) => p = 0
           /\ n > F!Took(a) => p = F!Following(n, a)
           /\ n > F!Took(a) /\ n - F!Took(a) <= PerPage => p = 1
           /\ n - F!Took(a) > PerPage => n > F!Took(a)
<1> DEFINE q == (a - 1) \div PerPage
           r == (a - 1) % PerPage
           m == r + (n - 1)
<1>1. PerPage \in Nat \ {0} /\ a - 1 \in Nat
  BY DriversAssumption DEF F!FileAssumption
<1>2. q \in Nat /\ r \in Nat /\ r < PerPage /\ a - 1 = q * PerPage + r
  BY <1>1, DivMod
<1>3. F!Page(a) = q /\ F!Took(a) = PerPage - r
  BY DEF F!Page, F!Took
<1>4. F!Page(a + n - 1) = (((a + n) - 1) - 1) \div PerPage
  BY DEF F!Page
<1>5. F!Following(n, a) = (n - (PerPage - r) + PerPage - 1) \div PerPage
  BY <1>3 DEF F!Following
<1> HIDE DEF q, r
<1>6. m \in Nat
  BY <1>2
<1>7. m \div PerPage \in Nat /\ m % PerPage \in Nat /\ m % PerPage < PerPage
      /\ m = (m \div PerPage) * PerPage + (m % PerPage)
  BY <1>1, <1>6, DivMod
<1>8. F!Page(a + n - 1) = q + m \div PerPage
  <2>1. ((a + n) - 1) - 1 = q * PerPage + m
    <3>1. q * PerPage \in Nat
      BY <1>1, <1>2
    <3> QED
      BY <1>2, <3>1
  <2> HIDE DEF m
  <2>2. (q * PerPage + m) \div PerPage = q + m \div PerPage
    <3>1. \A x, y \in Nat, d \in Nat \ {0} : (x * d + y) \div d = x + y \div d
      BY DivAdds, Zenon
    <3>2. q \in Nat /\ m \in Nat /\ PerPage \in Nat \ {0}
      BY <1>1, <1>2, <1>6
    <3> QED
      BY <3>1, <3>2, Zenon
  <2> QED
    BY <1>4, <2>1, <2>2
<1>9. F!Following(n, a) = m \div PerPage
  <2>1. n - (PerPage - r) + PerPage - 1 = m
    BY <1>1, <1>2
  <2> QED
    BY <1>5, <2>1
<1>10. ASSUME n <= F!Took(a) PROVE m \div PerPage = 0
  <2>1. m < PerPage
    BY <1>1, <1>2, <1>3, <1>10
  <2> QED
    BY <1>1, <1>6, <2>1, m = 0 * PerPage + m, DivIs
<1>11. ASSUME n > F!Took(a), n - F!Took(a) <= PerPage PROVE m \div PerPage = 1
  <2>1. m - PerPage \in Nat /\ m - PerPage < PerPage
    BY <1>1, <1>2, <1>3, <1>11
  <2>2. m = 1 * PerPage + (m - PerPage)
    BY <1>1, <1>6
  <2>3. (1 * PerPage + (m - PerPage)) \div PerPage = 1
    BY <1>1, <2>1, DivIs
  <2> QED
    BY <2>2, <2>3
<1>12. F!Page(a + n - 1) - F!Page(a) = m \div PerPage
  <2> DEFINE d == m \div PerPage
  <2>1. d \in Nat /\ F!Page(a + n - 1) = q + d
    BY <1>7, <1>8
  <2> HIDE DEF d
  <2>2. F!Page(a + n - 1) - F!Page(a) = d
    BY <1>2, <1>3, <2>1
  <2> QED
    BY <2>2 DEF d
<1>13. n - F!Took(a) > PerPage => n > F!Took(a)
  BY <1>1, <1>2, <1>3
<1> HIDE DEF m
<1> QED
  BY <1>2, <1>3, <1>7, <1>9, <1>10, <1>11, <1>12, <1>13

(* What the controller takes from the lists that construct_prp makes are the *)
(* pages behind the first one, in their order.                               *)
LEMMA ListsDescribe ==
    ASSUME NEW n \in Nat \ {0}, NEW a \in Nat \ {0}, F!Listed(n, a),
           F!Page(a + n - 1) - F!Page(a) > 0
    PROVE  LET p == F!Page(a + n - 1) - F!Page(a)
           IN  F!Described(F!ConstructPrp(n, a), p) =
                 [i \in 1 .. p |-> <<"page", F!Page(a) + i>>]
<1> DEFINE p == F!Page(a + n - 1) - F!Page(a)
           q == F!Page(a)
           prps == F!ConstructPrp(n, a)
           Pages == [i \in 1 .. p |-> <<"page", q + i>>]
           e == PerList - 1
<1>1. /\ q \in Nat /\ p \in Nat /\ n > F!Took(a) /\ p = F!Following(n, a)
      /\ n - F!Took(a) <= PerPage => p = 1
  <2>1. F!Took(a) \in Int
    BY DriversAssumption DEF F!Took, F!FileAssumption
  <2>2. /\ q \in Nat /\ p \in Nat
        /\ n <= F!Took(a) => p = 0
        /\ n > F!Took(a) => p = F!Following(n, a)
        /\ n > F!Took(a) /\ n - F!Took(a) <= PerPage => p = 1
    BY PagesCounted, Zenon
  <2> HIDE DEF p, q
  <2>3. p > 0
    BY DEF p
  <2>4. n > F!Took(a)
    BY <2>1, <2>2, <2>3
  <2> QED
    BY <2>2, <2>4
<1>2. PerList \in Nat /\ PerList > 2 /\ e \in Nat \ {0} /\ F!Took(a) \in Int /\ PerPage \in Int
  BY DriversAssumption DEF F!Took, F!FileAssumption
<1>3. p > 0 /\ (p <= PerList \/ p % (PerList - 1) = 0)
  BY <1>1, <1>2 DEF F!Listed
<1>4. CASE n - F!Took(a) <= PerPage
  <2>1. prps.tables = <<>> /\ prps.second = <<"page", q + 1>> /\ p = 1
    BY <1>1, <1>2, <1>4 DEF F!ConstructPrp
  <2>2. F!Described(prps, p) = [i \in 1 .. p |-> prps.second]
    BY <2>1 DEF F!Described
  <2>3. Pages = [i \in 1 .. p |-> <<"page", q + 1>>]
    BY <1>1, <2>1
  <2> QED
    BY <2>1, <2>2, <2>3
<1> DEFINE final == IF p <= PerList THEN 0 ELSE (p - PerList + PerList - 2) \div (PerList - 1)
           Before(i) == IF (i - 1) \div (PerList - 1) < final
                        THEN (i - 1) \div (PerList - 1) ELSE final
           Entry(i) == prps.tables[Before(i) + 1][i - Before(i) * (PerList - 1)]
<1>5. ASSUME n - F!Took(a) > PerPage, prps.tables # <<>>,
             \A i \in 1 .. p : Entry(i) = <<"page", q + i>>
      PROVE  F!Described(prps, p) = Pages
  <2>1. F!Described(prps, p) = [i \in 1 .. p |-> Entry(i)]
    BY <1>5 DEF F!Described
  <2> HIDE DEF Entry
  <2> QED
    BY <1>5, <2>1
<1>10. ASSUME n - F!Took(a) > PerPage
       PROVE  prps.tables = IF p <= PerList THEN <<F!PagesFrom(q, p)>>
                            ELSE [k \in 1 .. (p \div e) |-> F!Chained(q, k)]
  <2>1. ~(n <= F!Took(a)) /\ ~(n - F!Took(a) <= PerPage)
    BY <1>1, <1>2, <1>10
  <2>2. prps.tables = LET x == F!Following(n, a) IN
                        IF x <= PerList THEN <<F!PagesFrom(q, x)>>
                        ELSE [k \in 1 .. (x \div e) |-> F!Chained(q, k)]
    BY <2>1 DEF F!ConstructPrp
  <2> HIDE DEF p
  <2> QED
    BY <1>1, <2>2
<1>6. CASE n - F!Took(a) > PerPage /\ p <= PerList
  <2>1. prps.tables = <<F!PagesFrom(q, p)>>
    BY <1>6, <1>10
  <2>2. ASSUME NEW i \in 1 .. p PROVE Entry(i) = <<"page", q + i>>
    <3>1. (i - 1) \div e \in Nat
      BY <1>1, <1>2, DivMod
    <3>2. Before(i) = 0
      BY <1>6, <3>1
    <3> HIDE DEF Before
    <3>3. Entry(i) = F!PagesFrom(q, p)[i]
      BY <1>1, <1>2, <2>1, <3>2
    <3> QED
      BY <1>1, <1>2, <1>6, <3>3 DEF F!PagesFrom
  <2>3. prps.tables # <<>>
    BY <2>1
  <2> HIDE DEF Entry
  <2> QED
    BY <1>5, <1>6, <2>2, <2>3
<1>7. CASE n - F!Took(a) > PerPage /\ p > PerList
  <2> DEFINE m == p \div e
  <2>1. m \in Nat /\ p = m * e
    <3>1. p % e = 0
      BY <1>1, <1>2, <1>3, <1>7
    <3>2. p \div e \in Nat /\ p = (p \div e) * e + (p % e)
      BY <1>1, <1>2, DivMod
    <3> QED
      BY <1>2, <3>1, <3>2
  <2>2. prps.tables = [k \in 1 .. m |-> F!Chained(q, k)]
    <3>1. ~(p <= PerList)
      BY <1>1, <1>2, <1>7
    <3> QED
      BY <1>7, <1>10, <3>1
  <2> HIDE DEF m
  <2>3. m > 0
    BY <1>2, <1>3, <2>1
  <2>4. final = m - 1
    <3>1. p - PerList + PerList - 2 = (m - 1) * e + (e - 2)
      <4>1. (m - 1) * e = m * e - e
        BY <1>2, <2>1
      <4> QED
        BY <1>1, <1>2, <2>1, <4>1
    <3>2. ((m - 1) * e + (e - 2)) \div e = m - 1
      <4>1. e \in Nat \ {0} /\ e - 2 \in Nat /\ e - 2 < e /\ m - 1 \in Nat
        BY <1>2, <2>1, <2>3
      <4> HIDE DEF e
      <4> QED
        BY <4>1, DivIs
    <3> QED
      BY <1>1, <1>2, <1>7, <3>1, <3>2
  <2> HIDE DEF final
  <2>5. ASSUME NEW i \in 1 .. p PROVE Entry(i) = <<"page", q + i>>
    <3> DEFINE b == (i - 1) \div e
               s == (i - 1) % e
    <3>1. b \in Nat /\ s \in Nat /\ s < e /\ i - 1 = b * e + s
      <4>1. i - 1 \in Nat /\ e \in Nat \ {0}
        BY <1>1, <1>2
      <4> HIDE DEF e
      <4> QED
        BY <4>1, DivMod
    <3>2. Before(i) = IF b < final THEN b ELSE final
      OBVIOUS
    <3> HIDE DEF b, s, Before
    <3>3. b <= m - 1
      <4>1. CASE b >= m
        <5>1. PICK k \in Nat : b = m + k
          BY <2>1, <3>1, <4>1, b = m + (b - m), b - m \in Nat
        <5>2. b * e = m * e + k * e /\ k * e \in Nat /\ m * e \in Nat
          BY <1>2, <2>1, <5>1
        <5>3. i - 1 >= p
          BY <1>1, <2>1, <3>1, <5>2
        <5> QED
          BY <1>1, <5>3
      <4> QED
        BY <2>1, <3>1, <4>1
    <3>4. Before(i) = b
      BY <2>1, <2>4, <3>1, <3>2, <3>3
    <3>5. i - b * e = s + 1
      <4>1. b * e \in Nat
        BY <1>2, <3>1
      <4> QED
        BY <1>1, <3>1, <4>1
    <3>6. Entry(i) = F!Chained(q, b + 1)[s + 1]
      <4>1. b + 1 \in 1 .. m
        BY <2>1, <2>3, <3>1, <3>3
      <4> QED
        BY <2>2, <3>4, <3>5, <4>1
    <3> HIDE DEF Entry
    <3>7. F!Chained(q, b + 1)[s + 1] = F!PagesFrom(q + b * e, PerList)[s + 1]
      <4>1. (b + 1) - 1 = b
        BY <3>1
      <4>2. F!Chained(q, b + 1) =
              [F!PagesFrom(q + b * e, PerList) EXCEPT ![PerList] = <<"table", (b + 1) + 1>>]
        BY <4>1 DEF F!Chained
      <4>3. s + 1 # PerList /\ s + 1 \in 1 .. PerList
        BY <1>2, <3>1
      <4>4. DOMAIN F!PagesFrom(q + b * e, PerList) = 1 .. PerList
        BY DEF F!PagesFrom
      <4> QED
        BY <4>2, <4>3, <4>4
    <3>8. F!PagesFrom(q + b * e, PerList)[s + 1] = <<"page", (q + b * e) + (s + 1)>>
      <4>1. s + 1 \in 1 .. PerList /\ s + 1 <= PerList
        BY <1>2, <3>1
      <4> QED
        BY <4>1 DEF F!PagesFrom
    <3>9. (q + b * e) + (s + 1) = q + i
      <4>1. b * e \in Nat
        BY <1>2, <3>1
      <4> QED
        BY <1>1, <3>1, <4>1
    <3> QED
      BY <3>6, <3>7, <3>8, <3>9
  <2>6. prps.tables # <<>>
    BY <2>1, <2>2, <2>3
  <2> HIDE DEF Entry
  <2> QED
    BY <1>5, <1>7, <2>5, <2>6
<1>8. F!Took(a) \in Int /\ PerPage \in Int /\ p \in Int /\ PerList \in Int
  BY <1>1, <1>2
<1>9. \/ n - F!Took(a) <= PerPage
      \/ n - F!Took(a) > PerPage /\ p <= PerList
      \/ n - F!Took(a) > PerPage /\ p > PerList
  <2> HIDE DEF p
  <2> QED
    BY <1>8
<1> QED
  BY <1>4, <1>6, <1>7, <1>9

-----------------------------------------------------------------------------
(* The part that is modelled, with the others that do not move.            *)
FileInv == which = "file" => FileInside /\ FirstRead

(* The reading of a file starts as the invariant says. *)
LEMMA FileInvStarts == InitDrivers => FileInv
<1> SUFFICES ASSUME InitDrivers, which = "file" PROVE FileInv
  BY DEF FileInv
<1>1. F!Init
  BY DEF InitDrivers
<1> QED
  BY <1>1, FileStarts, FirstReadStarts DEF FileInv

(* No step of any part breaks it. *)
LEMMA FileInvKept ==
    FileInv /\ [NextDrivers]_<<which, vars, rVars, cVars, kVars, fVars>> => FileInv'
<1> SUFFICES ASSUME FileInv, [NextDrivers]_<<which, vars, rVars, cVars, kVars, fVars>>,
                    which' = "file"
             PROVE  FileInv'
  BY DEF FileInv
<1>1. CASE F!Next /\ which = "file"
  BY <1>1, FileStep, FirstReadStep DEF FileInv
<1>2. CASE UNCHANGED <<which, fVars>>
  <2>1. UNCHANGED <<which, file, bulk, walk, transfer, command, contents, doing>>
    BY <1>2 DEF fVars
  <2>2. FileShape /\ which = "file" => FileShape'
    BY <2>1 DEF FileShape
  <2>3. NumPointers' = NumPointers /\ Position' = Position /\ Moving' = Moving
        /\ Commanded' = Commanded
    BY <2>1 DEF NumPointers, Position, Moving, Commanded
  <2>4. Inside => Inside'
    BY <2>1, <2>3 DEF Inside
  <2>5. ListsMade => ListsMade'
    BY <2>1 DEF ListsMade
  <2>6. F!FirstRun' = F!FirstRun
    BY <2>1 DEF F!FirstRun
  <2>7. FirstBlocks' = FirstBlocks
    BY <2>6 DEF FirstBlocks
  <2>8. \A n : StoredBelow(n) => StoredBelow(n)'
    BY <2>1, <2>7 DEF StoredBelow
  <2>9. StoredBelow(transfer.address) => StoredBelow(transfer.address)'
    BY <2>1, <2>7 DEF StoredBelow
  <2>10. StoredBelow(FirstBlocks + 1) => StoredBelow(FirstBlocks + 1)'
    BY <2>1, <2>7 DEF StoredBelow
  <2>11. Searching => Searching'
    BY <2>1, <2>6, <2>7 DEF Searching
  <2>12. Fetching => Fetching'
    BY <2>1, <2>3, <2>7, <2>9 DEF Fetching
  <2>13. Behind => Behind'
    BY <2>1, <2>3, <2>7, <2>10 DEF Behind
  <2> QED
    BY <2>1, <2>2, <2>4, <2>5, <2>11, <2>12, <2>13 DEF FileInv, FileInside, FirstRead
<1> QED
  BY <1>1, <1>2 DEF NextDrivers

(* What was read of the first run of a file's blocks stands where it       *)
(* belongs, whatever transfers read_into_buffer cuts the run into, and no  *)
(* transfer reaches behind the buffer of GfsFile::read.                    *)
THEOREM FilesReadExact == SpecDrivers => []FileReadExact
<1>1. FileInv => FileReadExact
  BY ReadExact DEF FileInv, FileReadExact
<1> QED
  BY <1>1, FileInvStarts, FileInvKept, PTL DEF SpecDrivers

(* construct_prp gives the controller the pages of a transfer, each once   *)
(* and in their order: for every size of a page and of a page of PRPs, by  *)
(* the arithmetic of the two ways to count the pages.                      *)
THEOREM PrpsExact == SpecDrivers => []NvmePrpExact
<1>1. FileInv => NvmePrpExact
  <2> SUFFICES ASSUME FileInv, which = "file", doing = "dispatch",
                      F!Page(command.address + command.length - 1)
                        - F!Page(command.address) > 0
               PROVE  F!PrpExact
    BY DEF NvmePrpExact, F!PrpExact
  <2>1. FileShape /\ Inside /\ ListsMade
    BY DEF FileInv, FileInside
  <2>2. command.length \in Nat \ {0} /\ command.address \in Nat \ {0}
    BY <2>1, FileTyped DEF Inside, Commanded
  <2>3. /\ F!Listed(command.length, command.address)
        /\ command.prps = F!ConstructPrp(command.length, command.address)
    BY <2>1 DEF ListsMade
  <2> QED
    BY <2>2, <2>3, ListsDescribe, Zenon DEF F!PrpExact
<1> QED
  BY <1>1, FileInvStarts, FileInvKept, PTL DEF SpecDrivers

-----------------------------------------------------------------------------
(* The keyboard.                                                           *)

(* What the recursion of Translate computes step by step: f keeps those of *)
(* the characters that are some, in their order.                           *)
Keeps(f, N, char) ==
    f = [n \in 0..N |-> IF n = 0 THEN <<>>
                        ELSE IF char[n] = K!NoChar THEN f[n - 1]
                        ELSE Append(f[n - 1], char[n])]

(* Such a function exists, for any number of characters. *)
LEMMA KeepsExists ==
    ASSUME NEW N \in Nat, NEW char
    PROVE  \E f : Keeps(f, N, char)
<1> DEFINE Missing == {n \in Nat : ~\E f : Keeps(f, n, char)}
<1> SUFFICES ASSUME Missing # {} PROVE FALSE
  OBVIOUS
<1>1. PICK n \in Missing : \A m \in Missing : n <= m
  BY LeastNumber
<1>2. n # 0
  <2>1. Keeps([k \in 0..0 |-> <<>>], 0, char)
    BY DEF Keeps
  <2> QED
    BY <1>1, <2>1
<1>3. n - 1 \in Nat /\ n - 1 \notin Missing
  BY <1>1, <1>2
<1>4. PICK f : Keeps(f, n - 1, char)
  BY <1>3
<1> DEFINE g == [k \in 0..n |-> IF k < n THEN f[k]
                                ELSE IF char[n] = K!NoChar THEN f[n - 1]
                                ELSE Append(f[n - 1], char[n])]
           h == [k \in 0..n |-> IF k = 0 THEN <<>>
                                ELSE IF char[k] = K!NoChar THEN g[k - 1]
                                ELSE Append(g[k - 1], char[k])]
<1>5. ASSUME NEW k \in 0..n PROVE g[k] = h[k]
  <2>1. f = [m \in 0..(n - 1) |-> IF m = 0 THEN <<>>
                        ELSE IF char[m] = K!NoChar THEN f[m - 1]
                        ELSE Append(f[m - 1], char[m])]
    BY <1>4 DEF Keeps
  <2>2. CASE k = n
    <3>1. g[k] = (IF char[n] = K!NoChar THEN f[n - 1] ELSE Append(f[n - 1], char[n]))
      BY <2>2
    <3>2. g[n - 1] = f[n - 1]
      BY <1>3
    <3>3. h[k] = (IF char[n] = K!NoChar THEN g[n - 1] ELSE Append(g[n - 1], char[n]))
      BY <1>2, <2>2
    <3> QED
      BY <3>1, <3>2, <3>3
  <2>3. CASE k = 0
    <3>1. f[0] = <<>>
      BY <1>3, <2>1
    <3>2. 0 < n
      BY <1>2
    <3> QED
      BY <2>3, <3>1, <3>2
  <2>4. CASE k # 0 /\ k # n
    <3>1. k \in 0..(n - 1) /\ k - 1 \in 0..n /\ k - 1 < n /\ k < n
      BY <2>4
    <3>2. g[k] = f[k] /\ g[k - 1] = f[k - 1]
      BY <3>1
    <3>3. f[k] = (IF char[k] = K!NoChar THEN f[k - 1] ELSE Append(f[k - 1], char[k]))
      BY <2>1, <2>4, <3>1
    <3>4. h[k] = (IF char[k] = K!NoChar THEN g[k - 1] ELSE Append(g[k - 1], char[k]))
      BY <2>4, <3>1
    <3> QED
      BY <3>2, <3>3, <3>4
  <2> QED
    BY <2>2, <2>3, <2>4
<1>6. g = h
  BY <1>5
<1>7. Keeps(g, n, char)
  BY <1>6 DEF Keeps
<1> QED
  BY <1>1, <1>7

(* What it has kept of the first n characters: those there are, and no     *)
(* more than n.                                                            *)
Kept(f, n, Chars, char) ==
    /\ f[n] \in Seq(Chars) /\ Len(f[n]) <= n
    /\ {f[n][i] : i \in 1..Len(f[n])} = {char[m] : m \in 1..n} \ {K!NoChar}

(* It holds them at every step. *)
LEMMA KeepsThem ==
    ASSUME NEW N \in Nat, NEW Chars, NEW char \in [1..N -> Chars], NEW f, Keeps(f, N, char)
    PROVE  \A n \in 0..N : Kept(f, n, Chars, char)
<1> USE DEF Kept
<1> DEFINE Good(n) == /\ f[n] \in Seq(Chars) /\ Len(f[n]) <= n
                      /\ {f[n][i] : i \in 1..Len(f[n])}
                           = {char[m] : m \in 1..n} \ {K!NoChar}
           Bad == {n \in 0..N : ~Good(n)}
<1> SUFFICES ASSUME Bad # {} PROVE FALSE
  OBVIOUS
<1>0. f = [m \in 0..N |-> IF m = 0 THEN <<>>
                          ELSE IF char[m] = K!NoChar THEN f[m - 1]
                          ELSE Append(f[m - 1], char[m])]
  BY DEF Keeps
<1>1. PICK n \in Bad : \A m \in Bad : n <= m
  <2>1. Bad \subseteq Nat
    OBVIOUS
  <2> HIDE DEF Bad
  <2> QED
    BY <2>1, LeastNumber
<1>2. n \in 0..N /\ ~Good(n)
  BY <1>1
<1>3. n # 0
  <2> SUFFICES ASSUME n = 0 PROVE FALSE
    OBVIOUS
  <2>1. f[0] = <<>>
    BY <1>0
  <2>2. Good(0)
    BY <2>1
  <2> QED
    BY <1>2, <2>2
<1>4. n - 1 \in 0..N /\ n - 1 \notin Bad
  <2>1. n - 1 \in 0..N /\ ~(n <= n - 1)
    BY <1>2, <1>3
  <2> HIDE DEF Bad
  <2> QED
    BY <1>1, <2>1
<1>5. Good(n - 1)
  BY <1>4
<1> DEFINE p == f[n - 1]
<1>6. f[n] = IF char[n] = K!NoChar THEN p ELSE Append(p, char[n])
  BY <1>0, <1>2, <1>3
<1>7. p \in Seq(Chars) /\ Len(p) <= n - 1
      /\ {p[i] : i \in 1..Len(p)} = {char[m] : m \in 1..(n - 1)} \ {K!NoChar}
  BY <1>5
<1>8. char[n] \in Chars /\ n \in 1..N
  BY <1>2, <1>3
<1>9. {char[m] : m \in 1..n} = {char[m] : m \in 1..(n - 1)} \cup {char[n]}
  <2>1. \A m : m \in 1..n <=> m \in 1..(n - 1) \/ m = n
    BY <1>8
  <2> QED
    BY <2>1
<1> HIDE DEF p
<1>10. CASE char[n] = K!NoChar
  <2>1. f[n] = p
    BY <1>6, <1>10
  <2>2. {f[n][i] : i \in 1..Len(f[n])} = {char[m] : m \in 1..n} \ {K!NoChar}
    <3>1. {f[n][i] : i \in 1..Len(f[n])} = {char[m] : m \in 1..(n - 1)} \ {K!NoChar}
      BY <1>7, <2>1, Zenon
    <3>2. \A A, B : B = A \cup {K!NoChar} => B \ {K!NoChar} = A \ {K!NoChar}
      OBVIOUS
    <3>3. {char[m] : m \in 1..n} = {char[m] : m \in 1..(n - 1)} \cup {K!NoChar}
      BY <1>9, <1>10, Zenon
    <3> QED
      BY <3>1, <3>2, <3>3, Zenon
  <2>3. f[n] \in Seq(Chars) /\ Len(f[n]) <= n
    BY <1>2, <1>7, <2>1
  <2> QED
    BY <1>2, <2>2, <2>3
<1>11. CASE char[n] # K!NoChar
  <2>1. f[n] = Append(p, char[n])
    BY <1>6, <1>11
  <2>2. f[n] \in Seq(Chars) /\ Len(f[n]) = Len(p) + 1
    BY <1>7, <1>8, <2>1
  <2>3. \A i \in 1..Len(p) : f[n][i] = p[i]
    BY <1>7, <1>8, <2>1
  <2>4. f[n][Len(p) + 1] = char[n]
    BY <1>7, <1>8, <2>1
  <2>5. {f[n][i] : i \in 1..Len(f[n])} = {p[i] : i \in 1..Len(p)} \cup {char[n]}
    <3>1. Len(p) \in Nat
      BY <1>7
    <3>2. \A i : i \in 1..Len(f[n]) <=> i \in 1..Len(p) \/ i = Len(p) + 1
      BY <2>2, <3>1
    <3> QED
      BY <2>3, <2>4, <3>2
  <2>6. {f[n][i] : i \in 1..Len(f[n])} = {char[m] : m \in 1..n} \ {K!NoChar}
    BY <1>7, <1>9, <1>11, <2>5
  <2>7. Len(f[n]) <= n
    BY <1>2, <1>7, <2>2
  <2> QED
    BY <1>2, <2>2, <2>6, <2>7
<1> QED
  BY <1>10, <1>11

(* translate of usb_report: the characters of the keys, none left out and  *)
(* none added, and no more than there are keys.                            *)
LEMMA TranslateIs ==
    ASSUME NEW upper, NEW S, NEW keys \in Seq(S), NEW behind
    PROVE  LET t == K!Translate(upper, keys, behind) IN
           /\ Len(t) <= Len(keys)
           /\ K!ToSet(t) = {K!CharOf(upper, k, behind) : k \in K!ToSet(keys)} \ {K!NoChar}
<1> DEFINE N == Len(keys)
           t == K!Translate(upper, keys, behind)
           char == [n \in 1..N |-> K!CharOf(upper, keys[N + 1 - n], behind)]
           Chars == {K!CharOf(upper, k, behind) : k \in K!ToSet(keys)}
           f == CHOOSE g : Keeps(g, N, char)
<1>1. N \in Nat
  OBVIOUS
<1>2. t = f[N]
  BY DEF K!Translate, Keeps
<1>3. Keeps(f, N, char)
  <2> HIDE DEF char, N
  <2>1. \E g : Keeps(g, N, char)
    BY <1>1, KeepsExists
  <2> QED
    BY <2>1, Zenon
<1>4. char \in [1..N -> Chars] /\ {char[m] : m \in 1..N} = Chars
  <2>1. \A m \in 1..N : N + 1 - m \in 1..N /\ N + 1 - (N + 1 - m) = m
    BY <1>1
  <2>2. K!ToSet(keys) = {keys[m] : m \in 1..N}
    BY DEF K!ToSet
  <2>3. \A m \in 1..N : char[m] = K!CharOf(upper, keys[N + 1 - m], behind)
    OBVIOUS
  <2>4. \A m \in 1..N : char[m] \in Chars
    BY <2>1, <2>2
  <2>5. ASSUME NEW k \in K!ToSet(keys)
        PROVE  \E m \in 1..N : char[m] = K!CharOf(upper, k, behind)
    <3>1. PICK i \in 1..N : k = keys[i]
      BY <2>2
    <3>2. N + 1 - i \in 1..N /\ char[N + 1 - i] = K!CharOf(upper, k, behind)
      BY <2>1, <2>3, <3>1
    <3> QED
      BY <3>2
  <2> HIDE DEF N
  <2>6. char \in [1..N -> Chars]
    BY <2>4
  <2> HIDE DEF char
  <2> QED
    BY <2>4, <2>5, <2>6
<1> HIDE DEF f, char
<1>5. /\ f[N] \in Seq(Chars) /\ Len(f[N]) <= N
      /\ {f[N][i] : i \in 1..Len(f[N])} = {char[m] : m \in 1..N} \ {K!NoChar}
  <2> HIDE DEF N, Chars
  <2>1. N \in 0..N
    BY <1>1
  <2> QED
    <3>1. \A n \in 0..N : Kept(f, n, Chars, char)
      BY <1>1, <1>3, <1>4, KeepsThem
    <3> QED
      BY <2>1, <3>1, Zenon DEF Kept
<1>6. K!ToSet(f[N]) = {f[N][i] : i \in 1..Len(f[N])}
  BY <1>5 DEF K!ToSet
<1> HIDE DEF N, Chars
<1>7. Len(t) <= N /\ K!ToSet(t) = Chars \ {K!NoChar}
  BY <1>2, <1>4, <1>5, <1>6
<1> QED
  BY <1>7 DEF N, Chars

(* The lower case characters of the main block, by UsKeys. *)
LEMMA KeysLaidOut ==
    /\ K!UsKeys \in Seq(Int) /\ Len(K!UsKeys) = 116
    /\ \A k \in 4..29 : K!UsKeys[k + 1] = 93 + k
    /\ \A k \in 30..38 : K!UsKeys[k + 1] = 19 + k
    /\ <<K!UsKeys[40], K!UsKeys[42], K!UsKeys[43], K!UsKeys[44], K!UsKeys[45], K!UsKeys[46],
         K!UsKeys[47], K!UsKeys[48], K!UsKeys[49], K!UsKeys[50], K!UsKeys[51], K!UsKeys[52],
         K!UsKeys[53], K!UsKeys[54], K!UsKeys[55], K!UsKeys[56], K!UsKeys[57]>>
       = <<48, 255, 255, 9, 32, 45, 61, 91, 93, 92, 255, 59, 39, 96, 44, 46, 47>>
  BY DEF K!UsKeys, K!Untranslated, K!From, K!NoChar

(* The keys of these characters, by UsAscii. *)
LEMMA AsciiLaidOut ==
    /\ \A c \in 97..122 : K!UsAscii[c + 1] = c - 93
    /\ \A c \in 49..57 : K!UsAscii[c + 1] = c - 19
    /\ <<K!UsAscii[49], K!UsAscii[10], K!UsAscii[33], K!UsAscii[46], K!UsAscii[62],
         K!UsAscii[92], K!UsAscii[94], K!UsAscii[93], K!UsAscii[60], K!UsAscii[40],
         K!UsAscii[97], K!UsAscii[45], K!UsAscii[47], K!UsAscii[48]>>
       = <<39, 43, 44, 45, 46, 47, 48, 49, 51, 52, 53, 54, 55, 56>>
<1>1. \A c \in 97..122 : K!UsAscii[c + 1] = c - 93
  BY DEF K!UsAscii, K!UsAsciiPunctuation, K!Untranslated, K!From, K!NoChar
<1>2. \A c \in 49..57 : K!UsAscii[c + 1] = c - 19
  BY DEF K!UsAscii, K!UsAsciiPunctuation, K!Untranslated, K!From, K!NoChar
<1>3. <<K!UsAscii[49], K!UsAscii[10], K!UsAscii[33], K!UsAscii[46], K!UsAscii[62],
         K!UsAscii[92], K!UsAscii[94], K!UsAscii[93], K!UsAscii[60], K!UsAscii[40],
         K!UsAscii[97], K!UsAscii[45], K!UsAscii[47], K!UsAscii[48]>>
       = <<39, 43, 44, 45, 46, 47, 48, 49, 51, 52, 53, 54, 55, 56>>
  BY DEF K!UsAscii, K!UsAsciiPunctuation, K!Untranslated, K!From, K!NoChar
<1> QED
  BY <1>1, <1>2, <1>3
(* The two sequences in a row. *)
LEMMA FirstPart ==
    ASSUME NEW a \in Seq(Int), NEW b \in Seq(Int), NEW i \in 1..Len(a)
    PROVE  (a \o b)[i] = a[i]
  OBVIOUS

(* choose_keyboard's tables are opposite to each other for the main block. *)
LEMMA TablesOpposite ==
    ASSUME NEW k \in 4..56, k # 40, K!CharOf(FALSE, k, K!NoChar) # K!NoChar
    PROVE  K!UsAscii[K!CharOf(FALSE, k, K!NoChar) + 1] = k
<1> DEFINE c == K!CharOf(FALSE, k, K!NoChar)
<1>1. K!UsUppercase \in Seq(Int)
  BY DEF K!UsUppercase, K!Untranslated, K!From, K!NoChar
<1>2. c = K!UsKeys[k + 1]
  <2>1. c = (K!UsKeys \o K!UsUppercase)[k + 1]
    BY DEF K!CharOf, K!MaxImplemented
  <2>2. K!UsKeys \in Seq(Int) /\ k \in Nat
    BY KeysLaidOut
  <2>3. k + 1 \in 1..Len(K!UsKeys)
    BY KeysLaidOut
  <2>4. (K!UsKeys \o K!UsUppercase)[k + 1] = K!UsKeys[k + 1]
    BY <1>1, <2>2, <2>3, FirstPart
  <2> QED
    BY <2>1, <2>4, Zenon
<1>8. c # 255
  BY DEF K!NoChar
<1> HIDE DEF c
<1>3. ASSUME k \in 4..29 PROVE K!UsAscii[c + 1] = k
  <2>1. c = 93 + k
    BY <1>2, <1>3, KeysLaidOut
  <2>2. K!UsAscii[(93 + k) + 1] = (93 + k) - 93
    BY <1>3, AsciiLaidOut
  <2> QED
    BY <2>1, <2>2
<1>4. ASSUME k \in 30..38 PROVE K!UsAscii[c + 1] = k
  <2>1. c = 19 + k
    BY <1>2, <1>4, KeysLaidOut
  <2>2. K!UsAscii[(19 + k) + 1] = (19 + k) - 19
    BY <1>4, AsciiLaidOut
  <2> QED
    BY <2>1, <2>2
<1>5. ASSUME k \in 39..56 PROVE K!UsAscii[c + 1] = k
  <2>1. /\ K!UsKeys[40] = 48 /\ K!UsKeys[42] = 255 /\ K!UsKeys[43] = 255
        /\ K!UsKeys[44] = 9 /\ K!UsKeys[45] = 32 /\ K!UsKeys[46] = 45
        /\ K!UsKeys[47] = 61 /\ K!UsKeys[48] = 91 /\ K!UsKeys[49] = 93
        /\ K!UsKeys[50] = 92 /\ K!UsKeys[51] = 255 /\ K!UsKeys[52] = 59
        /\ K!UsKeys[53] = 39 /\ K!UsKeys[54] = 96 /\ K!UsKeys[55] = 44
        /\ K!UsKeys[56] = 46 /\ K!UsKeys[57] = 47
    BY KeysLaidOut
  <2>2. /\ K!UsAscii[49] = 39 /\ K!UsAscii[10] = 43 /\ K!UsAscii[33] = 44
        /\ K!UsAscii[46] = 45 /\ K!UsAscii[62] = 46 /\ K!UsAscii[92] = 47
        /\ K!UsAscii[94] = 48 /\ K!UsAscii[93] = 49 /\ K!UsAscii[60] = 51
        /\ K!UsAscii[40] = 52 /\ K!UsAscii[97] = 53 /\ K!UsAscii[45] = 54
        /\ K!UsAscii[47] = 55 /\ K!UsAscii[48] = 56
    BY AsciiLaidOut
  <2>4. k \in {39, 41, 42, 43, 44, 45, 46, 47, 48, 49, 50, 51, 52, 53, 54, 55, 56}
    BY <1>5
  <2>5. CASE k \in {39, 41, 42, 43, 44, 45, 46, 47, 48}
    BY <1>2, <2>1, <2>2, <1>8, <2>5
  <2>6. CASE k \in {49, 50, 51, 52, 53, 54, 55, 56}
    BY <1>2, <2>1, <2>2, <1>8, <2>6
  <2> QED
    BY <2>4, <2>5, <2>6
<1>6. k \in 4..29 \/ k \in 30..38 \/ k \in 39..56
  OBVIOUS
<1>7. K!UsAscii[c + 1] = k
  BY <1>3, <1>4, <1>5, <1>6
<1> QED
  BY <1>7 DEF c

-----------------------------------------------------------------------------
(* A report as the device writes it: a packed list of usage codes, or six  *)
(* times the roll-over.                                                    *)
Listing(report) ==
    /\ report.keys \in Seq(4..255) \cup Seq({1})
    /\ report = [shift |-> report.shift, keys |-> report.keys]

EndsIn(report, key) == report.keys # <<>> /\ report.keys[Len(report.keys)] = key

(* The characters of a report, or none. *)
CharactersOf(report, upper, characters) ==
    (report.keys # <<>> /\ ~EndsIn(report, K!CapsLock) /\ characters # <<>>) =>
        /\ Len(characters) <= Len(report.keys)
        /\ \E behind \in K!Behind :
             K!ToSet(characters)
               = {K!CharOf(upper, k, behind) : k \in K!ToSet(report.keys)} \ {K!NoChar}

(* usb_report works on differences to LAST_SCAN, so the bitmap and the     *)
(* characters are about that report, which is never a roll-over, and when  *)
(* a report was handled, about that one.                                   *)
AboutLast ==
    /\ Listing(buffer) /\ Listing(last)
    /\ numPressed = Len(last.keys)
    /\ ~EndsIn(last, K!ErrorRollOver)
    /\ pressed \subseteq K!ToSet(last.keys)
    /\ EndsIn(last, K!CapsLock) \/ K!ToSet(last.keys) \subseteq pressed
    /\ CharactersOf(last, uppercase, translated)
    /\ pending \/ EndsIn(buffer, K!ErrorRollOver) \/ last = buffer

KeyboardInv == which = "keyboard" => AboutLast

(* What the elements of a part of a sequence are. *)
LEMMA PartOf ==
    ASSUME NEW S, NEW s \in Seq(S)
    PROVE  /\ K!ToSet(SubSeq(s, 1, Len(s))) = K!ToSet(s)
           /\ K!ToSet(SubSeq(s, 2, Len(s) - 1)) \subseteq K!ToSet(s)
           /\ s = <<>> => K!ToSet(s) = {}
           /\ s # <<>> => s[Len(s)] \in K!ToSet(s)
<1>1. SubSeq(s, 1, Len(s)) = s
  OBVIOUS
<1>2. ASSUME NEW x \in K!ToSet(SubSeq(s, 2, Len(s) - 1)) PROVE x \in K!ToSet(s)
  <2>1. PICK i \in 1..Len(SubSeq(s, 2, Len(s) - 1)) : x = SubSeq(s, 2, Len(s) - 1)[i]
    BY <1>2 DEF K!ToSet
  <2>2. i + 1 \in 1..Len(s) /\ x = s[i + 1]
    BY <2>1
  <2> QED
    BY <2>2 DEF K!ToSet
<1>3. K!ToSet(SubSeq(s, 1, Len(s))) = K!ToSet(s)
  BY <1>1
<1>4. s = <<>> => K!ToSet(s) = {}
  BY DEF K!ToSet
<1>5. s # <<>> => s[Len(s)] \in K!ToSet(s)
  BY DEF K!ToSet
<1> QED
  BY <1>2, <1>3, <1>4, <1>5

(* The keyboard starts with an empty report. *)
LEMMA KeyboardStarts == K!Init => AboutLast
<1> SUFFICES ASSUME K!Init PROVE AboutLast
  OBVIOUS
<1>1. buffer = K!Empty /\ last = K!Empty /\ numPressed = 0 /\ pressed = {}
      /\ K!Empty = [shift |-> FALSE, keys |-> <<>>]
  BY DEF K!Init, K!Empty
<1>2. last.keys = <<>> /\ Listing(last) /\ Listing(buffer) /\ Len(last.keys) = 0
  BY <1>1 DEF Listing
<1>3. K!ToSet(last.keys) = {}
  BY <1>2 DEF K!ToSet
<1> QED
  BY <1>1, <1>2, <1>3 DEF AboutLast, EndsIn, CharactersOf

(* The device writes a listing. *)
LEMMA ReportsAre == \A r \in K!Reports : Listing(r)
<1> SUFFICES ASSUME NEW r \in K!Reports PROVE Listing(r)
  OBVIOUS
<1> DEFINE Lists == {k \in UNION {[1..n -> Keys] : n \in 0..MaxKeys} : K!IsInjective(k)}
<1>1. PICK down \in BOOLEAN, keys \in Lists \cup {[i \in 1..6 |-> K!ErrorRollOver]} :
          r = [shift |-> down, keys |-> keys]
  BY DEF K!Reports
<1>2. CASE keys \in Lists
  <2>1. PICK n \in 0..MaxKeys : keys \in [1..n -> Keys]
    BY <1>2
  <2>2. n \in Nat
    BY <2>1
  <2>3. keys \in Seq(4..255)
    <3>1. keys \in [1..n -> 4..255]
      BY <2>1, KeysAssumption
    <3> QED
      BY <2>2, <3>1
  <2> QED
    BY <1>1, <2>3 DEF Listing
<1>3. CASE keys = [i \in 1..6 |-> K!ErrorRollOver]
  <2>1. keys \in Seq({1})
    BY <1>3 DEF K!ErrorRollOver
  <2> QED
    BY <1>1, <2>1 DEF Listing
<1> QED
  BY <1>1, <1>2, <1>3

(* A poll and the call of usb_report keep it. *)
LEMMA KeyboardStep ==
    ASSUME AboutLast, K!Next
    PROVE  AboutLast'
<1> USE DEF AboutLast
<1>1. CASE K!Poll
  <2>1. buffer' \in K!Reports /\ pending' = TRUE
        /\ UNCHANGED <<last, modifiers, pressed, translated, numPressed, uppercase>>
    BY <1>1 DEF K!Poll, K!driver
  <2>2. Listing(buffer')
    BY <2>1, ReportsAre
  <2> QED
    BY <2>1, <2>2
<1>2. CASE K!Unchanged
  <2>1. buffer = last /\ UNCHANGED <<buffer, last, modifiers, pressed, translated, numPressed, uppercase>>
    BY <1>2 DEF K!Unchanged, K!driver
  <2> QED
    BY <2>1
<1>3. PICK S : S \in {4..255, {1}} /\ buffer.keys \in Seq(S)
  BY DEF Listing
<1>4. PICK L : L \in {4..255, {1}} /\ last.keys \in Seq(L)
  BY DEF Listing
<1>5. K!ToSet(SubSeq(last.keys, 1, numPressed)) = K!ToSet(last.keys)
  BY <1>4, PartOf
<1>6. CASE K!AllReleased
  <2>1. /\ buffer' = buffer /\ last' = buffer /\ buffer.keys = <<>> /\ numPressed' = 0
        /\ pressed' = pressed \ K!ToSet(SubSeq(last.keys, 1, numPressed))
    BY <1>6 DEF K!AllReleased, K!Modified, K!Unpressed
  <2>2. pressed' = {}
    BY <1>5, <2>1
  <2>3. K!ToSet(last'.keys) = {} /\ Len(last'.keys) = 0
    BY <2>1 DEF K!ToSet
  <2> QED
    BY <2>1, <2>2, <2>3 DEF EndsIn, CharactersOf
<1>7. CASE K!RolledOver
  <2>1. /\ buffer' = buffer /\ last' = [last EXCEPT !.shift = buffer.shift]
        /\ EndsIn(buffer, K!ErrorRollOver) /\ translated' = <<>>
        /\ UNCHANGED <<pressed, numPressed>>
    BY <1>7 DEF K!RolledOver, K!Modified, EndsIn, K!LastKey
  <2>2. last'.keys = last.keys /\ Listing(last')
    BY <2>1 DEF Listing
  <2> QED
    BY <2>1, <2>2 DEF EndsIn, CharactersOf
<1>8. CASE K!CapsLocked
  <2> DEFINE taken == SubSeq(buffer.keys, 2, Len(buffer.keys) - 1)
             toggled == IF K!CapsLock \in pressed THEN pressed \ {K!CapsLock}
                                                  ELSE pressed \cup {K!CapsLock}
  <2>1. /\ buffer' = buffer /\ last' = buffer /\ numPressed' = Len(buffer.keys)
        /\ EndsIn(buffer, K!CapsLock)
        /\ pressed' = (toggled \ K!ToSet(SubSeq(last.keys, 1, numPressed)))
                        \cup K!ToSet(taken)
    BY <1>8 DEF K!CapsLocked, K!Modified, EndsIn, K!LastKey
  <2>2. K!CapsLock \in K!ToSet(buffer.keys) /\ K!ToSet(taken) \subseteq K!ToSet(buffer.keys)
    BY <1>3, <2>1, PartOf DEF EndsIn
  <2>3. pressed' \subseteq K!ToSet(buffer.keys)
    <3>1. toggled \subseteq pressed \cup {K!CapsLock}
      OBVIOUS
    <3> HIDE DEF toggled, taken
    <3> QED
      BY <1>5, <2>1, <2>2, <3>1
  <2>4. ~EndsIn(buffer, K!ErrorRollOver)
    BY <2>1 DEF EndsIn, K!CapsLock, K!ErrorRollOver
  <2> QED
    BY <2>1, <2>3, <2>4 DEF CharactersOf
<1>9. CASE K!KeysDown
  <2>1. /\ buffer' = buffer /\ last' = buffer /\ numPressed' = Len(buffer.keys)
        /\ ~EndsIn(buffer, K!CapsLock) /\ ~EndsIn(buffer, K!ErrorRollOver)
        /\ pressed' = (pressed \ K!ToSet(SubSeq(last.keys, 1, numPressed)))
                        \cup K!ToSet(buffer.keys)
        /\ uppercase' = K!Shifted
    BY <1>9 DEF K!KeysDown, K!Modified, EndsIn, K!LastKey, K!Unpressed
  <2>2. PICK behind \in K!Behind :
          translated' = K!Translate(K!Shifted, buffer.keys, behind)
    BY <1>9 DEF K!KeysDown, K!Taken
  <2>3. pressed' = K!ToSet(buffer.keys)
    BY <1>5, <2>1
  <2>4. /\ Len(translated') <= Len(buffer.keys)
        /\ K!ToSet(translated')
             = {K!CharOf(K!Shifted, k, behind) : k \in K!ToSet(buffer.keys)} \ {K!NoChar}
    BY <1>3, <2>2, TranslateIs
  <2>5. CharactersOf(buffer, uppercase', translated')
    BY <2>1, <2>4, Zenon DEF CharactersOf
  <2> QED
    BY <2>1, <2>3, <2>5
<1> QED
  BY <1>1, <1>2, <1>6, <1>7, <1>8, <1>9 DEF K!Next, K!UsbReport

(* The properties of the keyboard, from what is known of the last report.  *)
LEMMA KeyboardExact ==
    ASSUME AboutLast
    PROVE  K!PressedExact /\ K!TranslatedExact /\ K!TablesAgree
<1>1. ASSUME K!Handled PROVE last = buffer
  BY <1>1 DEF AboutLast, K!Handled, EndsIn, K!LastKey
<1>2. K!CapsLast <=> EndsIn(buffer, K!CapsLock)
  BY DEF K!CapsLast, EndsIn, K!LastKey
<1>3. K!PressedExact
  BY <1>1, <1>2 DEF K!PressedExact, AboutLast
<1>4. K!TranslatedExact
  BY <1>1, <1>2 DEF K!TranslatedExact, AboutLast, CharactersOf
<1>5. K!TablesAgree
  <2> SUFFICES ASSUME K!Handled, ~K!CapsLast, NEW k \in K!ToSet(buffer.keys),
                      k <= 56, k # 40, K!CharOf(FALSE, k, K!NoChar) # K!NoChar
               PROVE  K!IsKeyPressed(K!CharOf(FALSE, k, K!NoChar))
    BY DEF K!TablesAgree
  <2>1. k \in pressed
    BY <1>3 DEF K!PressedExact
  <2>2. k \in 4..56
    <3>1. buffer.keys \in Seq(4..255) \/ buffer.keys \in Seq({1})
      BY DEF AboutLast, Listing
    <3>2. PICK i \in 1..Len(buffer.keys) : k = buffer.keys[i]
      BY DEF K!ToSet
    <3>3. CASE buffer.keys \in Seq(4..255)
      <4>1. \A S : \A s \in Seq(S) : \A j \in 1..Len(s) : s[j] \in S
        OBVIOUS
      <4>2. k \in 4..255
        BY <3>2, <3>3, <4>1, Zenon
      <4>3. \A x \in 4..255 : x <= 56 => x \in 4..56
        OBVIOUS
      <4> QED
        BY <4>2, <4>3, Zenon
    <3>4. CASE buffer.keys \in Seq({1})
      <4>1. EndsIn(buffer, 1)
        BY <3>2, <3>4 DEF EndsIn
      <4> QED
        BY <4>1 DEF K!Handled, EndsIn, K!LastKey, K!ErrorRollOver
    <3> QED
      BY <3>1, <3>3, <3>4
  <2>3. K!UsAscii[K!CharOf(FALSE, k, K!NoChar) + 1] = k
    BY <2>2, TablesOpposite
  <2> QED
    BY <2>1, <2>3 DEF K!IsKeyPressed
<1> QED
  BY <1>3, <1>4, <1>5

(* After any report but a roll-over the bitmap of pressed keys is that of  *)
(* the report, whatever came before; the characters to be read are those   *)
(* of its keys, from none of an earlier report; and is_key_pressed finds   *)
(* the key of each one.                                                    *)
THEOREM KeysAsReported == SpecDrivers => []KeyboardReportExact
<1>1. InitDrivers => KeyboardInv
  BY KeyboardStarts DEF InitDrivers, KeyboardInv
<1>2. KeyboardInv /\ [NextDrivers]_<<which, vars, rVars, cVars, kVars, fVars>>
        => KeyboardInv'
  <2> SUFFICES ASSUME KeyboardInv, which' = "keyboard",
                      [NextDrivers]_<<which, vars, rVars, cVars, kVars, fVars>>
               PROVE  AboutLast'
    BY DEF KeyboardInv
  <2>1. CASE K!Next /\ which = "keyboard"
    BY <2>1, KeyboardStep DEF KeyboardInv
  <2>2. CASE UNCHANGED <<which, kVars>>
    BY <2>2 DEF KeyboardInv, AboutLast, kVars
  <2> QED
    BY <2>1, <2>2 DEF NextDrivers
<1>3. KeyboardInv => KeyboardReportExact
  BY KeyboardExact DEF KeyboardInv, KeyboardReportExact
<1> QED
  BY <1>1, <1>2, <1>3, PTL DEF SpecDrivers
=============================================================================
