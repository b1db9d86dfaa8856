------------------------------ MODULE XhciProofs ------------------------------
(***************************************************************************)
(* Proofs about the xHCI driver, for every number of devices and every     *)
(* size of the rings: the event ring and the rings of interrupt endpoints  *)
(* keep their order over any number of laps, a device is driven through    *)
(* its own slot, and a wait for a transfer ends when that transfer is over. *)
(***************************************************************************)
EXTENDS Xhci, FiniteSetTheorems, TLAPS

Events == [type : {"none", "port", "command", "control", "poll"}, id : Nat]

Commands == [type : {"EnableSlot", "AddressDevice", "EvaluateContext", "ConfigureEndpoint"},
             dev : Devices, slot : Nat]

Steps == [op : {"reset", "isReset", "wait", "enableSlot", "slotEnabled",
                "addressDevice", "addressed", "control", "await", "evaluate",
                "configure", "open"},
          dev : Devices]

Drivers == [pc : Nat, callback : {"none", "enable", "address"}, slot_index : Nat,
            got_events : BOOLEAN, isr : BOOLEAN, dequeue : 0 .. RingSize - 1,
            css : BOOLEAN]

DeviceRecords == [slot : Nat, address : {"none", "assigned", "garbage"},
                  signaled : BOOLEAN, open : BOOLEAN,
                  a_line : {"none", "address", "control", "poll"}]

Controllers == [enqueue : 0 .. RingSize - 1, cycle : BOOLEAN, erdp : 0 .. RingSize - 1,
                commands : Seq(Commands), resetting : Nat, connects : SUBSET Devices,
                owner : Seq(Devices), addressed : SUBSET Nat, transfers : SUBSET Nat,
                configured : SUBSET Devices]

PollRings == [trb : [0 .. PollTrbs - 1 -> BOOLEAN], link : BOOLEAN,
              enqueue : 0 .. PollTrbs - 1, at : 0 .. PollTrbs - 1, ccs : BOOLEAN]

Shape ==
    /\ drv \in Drivers
    /\ dev \in [Devices -> DeviceRecords]
    /\ ring \in [0 .. RingSize - 1 -> [event : Events, cycle : BOOLEAN]]
    /\ hc \in Controllers
    /\ poll \in [Polled -> PollRings]
    /\ pending \in Seq(Events)

-----------------------------------------------------------------------------
(* The thread's script consists of steps for devices. *)
LEMMA Divided ==
    ASSUME NEW m \in Nat \ {0}, NEW l \in Nat, NEW k \in 1 .. l * m
    PROVE  /\ 1 + ((k - 1) % m) \in 1 .. m
           /\ 1 + (k - 1) \div m \in 1 .. l
           /\ k - 1 = m * ((k - 1) \div m) + ((k - 1) % m)
<1>1. k - 1 \in Nat /\ k - 1 < l * m
  OBVIOUS
<1>2. /\ (k - 1) % m \in 0 .. m - 1
      /\ (k - 1) \div m \in Nat
      /\ k - 1 = m * ((k - 1) \div m) + ((k - 1) % m)
  BY <1>1
<1>3. ASSUME NEW q \in Nat, q >= l PROVE m * q >= l * m
  BY <1>3
<1>4. (k - 1) \div m < l
  BY <1>1, <1>2, <1>3
<1> QED
  BY <1>2, <1>4

LEMMA ForEachSteps ==
    ASSUME NEW list \in Seq(Devices), NEW O, NEW ops \in Seq(O), Len(ops) > 0
    PROVE  ForEach(list, ops) \in Seq([op : O, dev : Devices])
<1>1. Len(list) \in Nat /\ Len(ops) \in Nat \ {0} /\ Len(list) * Len(ops) \in Nat
  OBVIOUS
<1>2. ASSUME NEW k \in 1 .. Len(list) * Len(ops)
      PROVE  [op |-> ops[1 + ((k - 1) % Len(ops))], dev |-> list[1 + (k - 1) \div Len(ops)]]
                \in [op : O, dev : Devices]
  BY <1>1, Divided
<1> QED
  BY <1>1, <1>2 DEF ForEach

LEMMA PolledSequence == SetToSeq(Polled) \in Seq(Devices)
<1>1. IsFiniteSet(Polled)
  <2>1. IsFiniteSet(Devices)
    BY XhciAssumption, FS_Interval DEF Devices
  <2> QED
    BY <2>1, XhciAssumption, FS_Subset
<1>2. Cardinality(Polled) \in Nat /\ ExistsBijection(1 .. Cardinality(Polled), Polled)
  BY <1>1, FS_CardinalityType
<1>3. \E f \in [1 .. Cardinality(Polled) -> Polled] : IsInjective(f)
  BY <1>2 DEF ExistsBijection, Bijection, Injection, IsInjective
<1>4. SetToSeq(Polled) \in [1 .. Cardinality(Polled) -> Polled]
  BY <1>3 DEF SetToSeq
<1> QED
  BY <1>2, <1>4, XhciAssumption

(***************************************************************************)
(* The script's first part, nine steps a device.                           *)
(***************************************************************************)
FirstSteps == << "reset", "isReset", "wait", "enableSlot", "wait",
                 "slotEnabled", "addressDevice", "wait", "addressed" >>

LaterOps == {"control", "await", "evaluate", "wait", "configure", "open"}

(* After k of the nine steps for device d. *)
StepOf(d, k) == 9 * (d - 1) + k + 1

LEMMA FirstPart ==
    ASSUME NEW d \in Devices, NEW k \in 0 .. 8
    PROVE  /\ StepOf(d, k) \in 1 .. 9 * NumDevices
           /\ ForEach(AllDevices, FirstSteps)[StepOf(d, k)] =
                [op |-> FirstSteps[k + 1], dev |-> d]
<1>1. NumDevices \in Nat /\ d \in 1 .. NumDevices
  BY XhciAssumption DEF Devices
<1>2. Len(FirstSteps) = 9
  BY DEF FirstSteps
<1>3. Len(AllDevices) = NumDevices /\ AllDevices[d] = d
  BY <1>1 DEF AllDevices, Devices
<1>4. StepOf(d, k) \in 1 .. NumDevices * 9
  BY <1>1 DEF StepOf
<1>5. (StepOf(d, k) - 1) % 9 = k /\ (StepOf(d, k) - 1) \div 9 = d - 1
  BY <1>1 DEF StepOf
<1>6. ForEach(AllDevices, FirstSteps)[StepOf(d, k)] =
        [op |-> FirstSteps[1 + k], dev |-> AllDevices[1 + (d - 1)]]
  BY <1>2, <1>3, <1>4, <1>5 DEF ForEach
<1>7. 1 + (d - 1) = d /\ 1 + k = k + 1 /\ NumDevices * 9 = 9 * NumDevices
  BY <1>1
<1> QED
  BY <1>3, <1>4, <1>6, <1>7

LEMMA ScriptParts ==
    \E rest \in Seq([op : LaterOps, dev : Devices]) :
      /\ Script = ForEach(AllDevices, FirstSteps) \o rest
      /\ ForEach(AllDevices, FirstSteps) \in Seq(Steps)
      /\ Len(ForEach(AllDevices, FirstSteps)) = 9 * NumDevices
<1> DEFINE o1 == FirstSteps
           o2 == << "control", "await", "evaluate", "wait", "control", "await" >>
           o3 == << "control", "await", "control", "await", "control", "await" >>
           o4 == << "control", "await", "configure", "wait", "open" >>
           Ops == {"reset", "isReset", "wait", "enableSlot", "slotEnabled",
                   "addressDevice", "addressed", "control", "await", "evaluate",
                   "configure", "open"}
<1>1. /\ AllDevices \in Seq(Devices) /\ Len(AllDevices) = NumDevices
      /\ NumDevices \in Nat
  BY XhciAssumption DEF AllDevices, Devices
<1>2. /\ Len(o1) = 9 /\ o1 \in Seq(Ops)
      /\ Len(o2) = 6 /\ o2 \in Seq(LaterOps)
      /\ Len(o3) = 6 /\ o3 \in Seq(LaterOps)
      /\ Len(o4) = 5 /\ o4 \in Seq(LaterOps)
  BY DEF FirstSteps, LaterOps
<1>3. Script = ForEach(AllDevices, o1) \o ForEach(AllDevices, o2)
                 \o ForEach(AllDevices, o3) \o ForEach(SetToSeq(Polled), o4)
  BY DEF Script, FirstSteps
<1> HIDE DEF o1, o2, o3, o4, Ops
<1>4. Len(o1) > 0 /\ Len(o2) > 0 /\ Len(o3) > 0 /\ Len(o4) > 0
  BY <1>2
<1> DEFINE Later == [op : LaterOps, dev : Devices]
           f1 == ForEach(AllDevices, o1)
           f2 == ForEach(AllDevices, o2)
           f3 == ForEach(AllDevices, o3)
           f4 == ForEach(SetToSeq(Polled), o4)
<1>5. f1 \in Seq([op : Ops, dev : Devices])
  BY <1>1, <1>2, <1>4, ForEachSteps
<1>6. f1 \in Seq(Steps)
  BY <1>5 DEF Steps, Ops
<1>7. f2 \in Seq(Later)
  BY <1>1, <1>2, <1>4, ForEachSteps
<1>8. f3 \in Seq(Later)
  BY <1>1, <1>2, <1>4, ForEachSteps
<1>9. f4 \in Seq(Later)
  BY <1>2, <1>4, ForEachSteps, PolledSequence
<1>10. Len(f1) = 9 * NumDevices
  <2>1. Len(AllDevices) * Len(o1) = 9 * NumDevices /\ 9 * NumDevices \in Nat
    BY <1>1, <1>2
  <2> QED
    BY <2>1 DEF ForEach
<1> HIDE DEF f1, f2, f3, f4, Later
<1>11. ASSUME NEW S, NEW s \in Seq(S), NEW t \in Seq(S) PROVE s \o t \in Seq(S)
  OBVIOUS
<1>12. Later \subseteq Steps
  BY DEF Later, LaterOps, Steps
<1>13. f2 \o f3 \in Seq(Later)
  BY <1>7, <1>8, <1>11
<1>14. (f2 \o f3) \o f4 \in Seq(Later)
  BY <1>9, <1>11, <1>13
<1>15. ((f1 \o f2) \o f3) \o f4 = f1 \o ((f2 \o f3) \o f4)
  <2>1. \A r, s, t \in Seq(Steps) : (r \o s) \o t = r \o (s \o t)
    OBVIOUS
  <2>2. f1 \in Seq(Steps) /\ f2 \in Seq(Steps) /\ f3 \in Seq(Steps) /\ f4 \in Seq(Steps)
    BY <1>6, <1>7, <1>8, <1>9, <1>12
  <2>3. f1 \o f2 \in Seq(Steps) /\ f2 \o f3 \in Seq(Steps)
    BY <1>11, <2>2
  <2>4. ((f1 \o f2) \o f3) \o f4 = (f1 \o f2) \o (f3 \o f4)
    BY <2>1, <2>2, <2>3
  <2>5. f3 \o f4 \in Seq(Steps)
    BY <1>11, <2>2
  <2>6. (f1 \o f2) \o (f3 \o f4) = f1 \o (f2 \o (f3 \o f4))
    BY <2>1, <2>2, <2>5
  <2>7. f2 \o (f3 \o f4) = (f2 \o f3) \o f4
    BY <2>1, <2>2
  <2> QED
    BY <2>4, <2>6, <2>7
<1>16. Script = f1 \o ((f2 \o f3) \o f4)
  BY <1>3, <1>15 DEF f1, f2, f3, f4
<1> QED
  BY <1>6, <1>10, <1>14, <1>16 DEF f1, o1, Later

LEMMA ScriptSteps == Script \in Seq(Steps)
<1>1. PICK rest \in Seq([op : LaterOps, dev : Devices]) :
        /\ Script = ForEach(AllDevices, FirstSteps) \o rest
        /\ ForEach(AllDevices, FirstSteps) \in Seq(Steps)
  BY ScriptParts
<1>2. [op : LaterOps, dev : Devices] \subseteq Steps
  BY DEF LaterOps, Steps
<1>3. rest \in Seq(Steps)
  <2> DEFINE L == [op : LaterOps, dev : Devices]
  <2>1. rest \in Seq(L) /\ L \subseteq Steps
    BY <1>2
  <2> HIDE DEF L
  <2> QED
    BY <2>1
<1>4. ASSUME NEW s \in Seq(Steps), NEW t \in Seq(Steps) PROVE s \o t \in Seq(Steps)
  OBVIOUS
<1>5. ForEach(AllDevices, FirstSteps) \o rest \in Seq(Steps)
  BY <1>1, <1>3, <1>4
<1> QED
  BY <1>1, <1>5

-----------------------------------------------------------------------------
(* The shape of the state. *)
LEMMA ShapeHoldsAtBoot == Init => Shape
<1> SUFFICES ASSUME Init PROVE Shape
  OBVIOUS
<1>1. /\ RingSize \in Nat /\ RingSize > 1 /\ PollTrbs \in Nat /\ PollTrbs > 0
      /\ Polled \subseteq Devices
  BY XhciAssumption
<1>2. NoEvent \in Events
  BY DEF NoEvent, Events
<1>3. drv \in Drivers
  BY <1>1 DEF Init, Drivers
<1>4. dev \in [Devices -> DeviceRecords]
  BY DEF Init, DeviceRecords
<1>5. ring \in [0 .. RingSize - 1 -> [event : Events, cycle : BOOLEAN]]
  BY <1>1, <1>2 DEF Init
<1>6. hc \in Controllers
  <2>1. (IF quiet THEN {} ELSE Devices) \in SUBSET Devices
    OBVIOUS
  <2> QED
    BY <1>1, <2>1 DEF Init, Controllers
<1>7. poll \in [Polled -> PollRings]
  BY <1>1 DEF Init, PollRings
<1>8. pending \in Seq(Events)
  BY DEF Init
<1> QED
  BY <1>3, <1>4, <1>5, <1>6, <1>7, <1>8 DEF Shape

LEMMA AtStep ==
    ASSUME Shape, NEW op, At(op)
    PROVE  D \in Devices /\ drv.pc + 1 \in Nat /\ drv.pc \in 1 .. Len(Script)
<1>1. Script[drv.pc] \in Steps /\ drv.pc \in 1 .. Len(Script)
  BY ScriptSteps DEF At
<1>2. D \in Devices
  BY <1>1 DEF D, Steps
<1> QED
  BY <1>1, <1>2

LEMMA IssueShape ==
    ASSUME Shape, NEW d \in Devices,
           NEW type \in {"EnableSlot", "AddressDevice", "EvaluateContext", "ConfigureEndpoint"},
           Issue(type, d)
    PROVE  hc' \in Controllers
<1>1. [type |-> type, dev |-> d, slot |-> dev[d].slot] \in Commands
  BY DEF Commands, Shape, DeviceRecords
<1>2. Append(hc.commands, [type |-> type, dev |-> d, slot |-> dev[d].slot]) \in Seq(Commands)
  BY <1>1 DEF Shape, Controllers
<1> QED
  BY <1>2 DEF Issue, Shape, Controllers

LEMMA PostShape ==
    ASSUME Shape, NEW e \in Events, NEW h \in Controllers,
           h.enqueue = hc.enqueue, Post(e, h)
    PROVE  /\ ring' \in [0 .. RingSize - 1 -> [event : Events, cycle : BOOLEAN]]
           /\ hc' \in Controllers
           /\ pending' \in Seq(Events)
<1>1. hc.enqueue \in 0 .. RingSize - 1 /\ hc.cycle \in BOOLEAN /\ h.cycle \in BOOLEAN
  BY DEF Shape, Controllers
<1>2. [event |-> e, cycle |-> hc.cycle] \in [event : Events, cycle : BOOLEAN]
  BY <1>1
<1>3. ring' \in [0 .. RingSize - 1 -> [event : Events, cycle : BOOLEAN]]
  BY <1>1, <1>2 DEF Shape, Post
<1>4. pending' \in Seq(Events)
  BY DEF Shape, Post
<1>5. hc' \in Controllers
  <2>1. hc.enqueue + 1 # RingSize => hc.enqueue + 1 \in 0 .. RingSize - 1
    BY <1>1, XhciAssumption
  <2>2. 0 \in 0 .. RingSize - 1
    BY XhciAssumption
  <2>3. CASE hc.enqueue + 1 = RingSize
    BY <2>2, <2>3 DEF Post, Controllers
  <2>4. CASE hc.enqueue + 1 # RingSize
    BY <2>1, <2>4 DEF Post, Controllers
  <2> QED
    BY <2>3, <2>4
<1> QED
  BY <1>3, <1>4, <1>5

LEMMA AdvancedShape ==
    ASSUME NEW r \in Drivers
    PROVE  Advanced(r) \in Drivers
<1>1. r.dequeue \in 0 .. RingSize - 1
  BY DEF Drivers
<1>2. r.dequeue + 1 # RingSize => r.dequeue + 1 \in 0 .. RingSize - 1
  BY <1>1, XhciAssumption
<1>3. 0 \in 0 .. RingSize - 1
  BY XhciAssumption
<1>4. CASE r.dequeue + 1 = RingSize
  BY <1>3, <1>4 DEF Advanced, Drivers
<1>5. CASE r.dequeue + 1 # RingSize
  BY <1>2, <1>3, <1>5 DEF Advanced, Drivers
<1> QED
  BY <1>4, <1>5

LEMMA GivenBackShape ==
    ASSUME NEW p \in PollRings
    PROVE  GivenBack(p) \in PollRings
<1>1. p.enqueue \in 0 .. PollTrbs - 1 /\ p.trb \in [0 .. PollTrbs - 1 -> BOOLEAN]
  BY DEF PollRings
<1>2. p.enqueue # PollTrbs - 1 => p.enqueue + 1 \in 0 .. PollTrbs - 1
  BY <1>1, XhciAssumption
<1>3. 0 \in 0 .. PollTrbs - 1
  BY XhciAssumption
<1>4. [p.trb EXCEPT ![p.enqueue] = ~@] \in [0 .. PollTrbs - 1 -> BOOLEAN]
  BY <1>1
<1>5. CASE p.enqueue = PollTrbs - 1
  BY <1>3, <1>4, <1>5 DEF GivenBack, PollRings
<1>6. CASE p.enqueue # PollTrbs - 1
  BY <1>2, <1>4, <1>6 DEF GivenBack, PollRings
<1> QED
  BY <1>5, <1>6

LEMMA ExecutedShape ==
    ASSUME Shape, hc.commands # <<>>,
           NEW slot \in Nat
    PROVE  /\ Executed(Head(hc.commands), slot) \in Controllers
           /\ Executed(Head(hc.commands), slot).enqueue = hc.enqueue
<1> DEFINE c == Head(hc.commands)
           h == [hc EXCEPT !.commands = Tail(@)]
<1>1. hc \in Controllers /\ hc.commands \in Seq(Commands)
  BY DEF Shape, Controllers
<1>2. c \in Commands /\ Tail(hc.commands) \in Seq(Commands)
  BY <1>1
<1>3. c.dev \in Devices
  BY <1>2 DEF Commands
<1>4. h \in Controllers /\ h.enqueue = hc.enqueue
  BY <1>1, <1>2 DEF Controllers
<1> HIDE DEF c, h
<1>5. Append(h.owner, c.dev) \in Seq(Devices) /\ h.addressed \cup {slot} \in SUBSET Nat
      /\ h.configured \cup {c.dev} \in SUBSET Devices
  BY <1>3, <1>4 DEF Controllers
<1>6. /\ [h EXCEPT !.owner = Append(@, c.dev)] \in Controllers
      /\ [h EXCEPT !.addressed = @ \cup {slot}] \in Controllers
      /\ [h EXCEPT !.configured = @ \cup {c.dev}] \in Controllers
  BY <1>4, <1>5 DEF Controllers
<1>7. /\ [h EXCEPT !.owner = Append(@, c.dev)].enqueue = hc.enqueue
      /\ [h EXCEPT !.addressed = @ \cup {slot}].enqueue = hc.enqueue
      /\ [h EXCEPT !.configured = @ \cup {c.dev}].enqueue = hc.enqueue
  BY <1>4 DEF Controllers
<1>8. Executed(c, slot) =
        CASE c.type = "EnableSlot" -> [h EXCEPT !.owner = Append(@, c.dev)]
          [] c.type = "AddressDevice" -> [h EXCEPT !.addressed = @ \cup {slot}]
          [] c.type = "ConfigureEndpoint" /\ dev[c.dev].a_line = "poll" ->
               [h EXCEPT !.configured = @ \cup {c.dev}]
          [] OTHER -> h
  BY DEF Executed, h
<1>9. Executed(c, slot) \in Controllers /\ Executed(c, slot).enqueue = hc.enqueue
  BY <1>4, <1>6, <1>7, <1>8
<1> QED
  BY <1>9 DEF c

LEMMA ThreadShape ==
    ASSUME Shape, Thread PROVE Shape'
<1> USE DEF Shape
<1>1. drv.pc + 1 \in Nat
  BY DEF Drivers
<1>2. CASE ResetPort
  <2>1. D \in Nat
    BY <1>2, AtStep, XhciAssumption DEF ResetPort, Devices
  <2>2. hc' \in Controllers
    BY <1>2, <2>1 DEF ResetPort, Controllers
  <2>3. drv' \in Drivers
    BY <1>1, <1>2 DEF ResetPort, Drivers
  <2> QED
    BY <1>2, <2>2, <2>3 DEF ResetPort
<1>3. CASE IsReset
  BY <1>1, <1>3 DEF IsReset, Drivers
<1>4. CASE Wakes
  BY <1>1, <1>4 DEF Wakes, Drivers
<1>5. CASE EnableSlot
  <2>1. hc' \in Controllers
    BY <1>5, AtStep, IssueShape DEF EnableSlot
  <2>2. drv' \in Drivers
    BY <1>1, <1>5 DEF EnableSlot, Drivers
  <2> QED
    BY <1>5, <2>1, <2>2 DEF EnableSlot
<1>6. CASE SlotEnabled
  <2>1. D \in Devices /\ dev[D] \in DeviceRecords /\ drv.slot_index \in Nat
    BY <1>6, AtStep DEF SlotEnabled, Drivers
  <2>2. [dev[D] EXCEPT !.slot = drv.slot_index] \in DeviceRecords
    BY <2>1 DEF DeviceRecords
  <2>3. dev' \in [Devices -> DeviceRecords]
    BY <1>6, <2>1, <2>2 DEF SlotEnabled
  <2>4. drv' \in Drivers
    BY <1>1, <1>6 DEF SlotEnabled, Drivers
  <2> QED
    BY <1>6, <2>3, <2>4 DEF SlotEnabled
<1>7. CASE AddressDevice
  <2>1. D \in Devices /\ dev[D] \in DeviceRecords
    BY <1>7, AtStep DEF AddressDevice
  <2>2. [dev[D] EXCEPT !.a_line = "address"] \in DeviceRecords
    BY <2>1 DEF DeviceRecords
  <2>3. dev' \in [Devices -> DeviceRecords]
    BY <1>7, <2>1, <2>2 DEF AddressDevice
  <2>4. drv' \in Drivers
    BY <1>1, <1>7 DEF AddressDevice, Drivers
  <2>5. hc' \in Controllers
    BY <1>7, <2>1, IssueShape DEF AddressDevice
  <2> QED
    BY <1>7, <2>3, <2>4, <2>5 DEF AddressDevice
<1>8. CASE Addressed
  <2>1. D \in Devices /\ dev[D] \in DeviceRecords
    BY <1>8, AtStep DEF Addressed
  <2>2. ASSUME NEW a \in {"assigned", "garbage"}
        PROVE  [dev[D] EXCEPT !.address = a] \in DeviceRecords
    BY <2>1 DEF DeviceRecords
  <2>3. dev' \in [Devices -> DeviceRecords]
    BY <1>8, <2>1, <2>2 DEF Addressed
  <2>4. drv' \in Drivers
    BY <1>1, <1>8 DEF Addressed, Drivers
  <2> QED
    BY <1>8, <2>3, <2>4 DEF Addressed
<1>9. CASE SendControl
  <2>1. D \in Devices /\ dev[D] \in DeviceRecords
    BY <1>9, AtStep DEF SendControl
  <2>2. dev[D].slot \in Nat
    BY <2>1 DEF DeviceRecords
  <2>3. hc.transfers \cup ({dev[D].slot} \ {0}) \in SUBSET Nat
    BY <2>2 DEF Controllers
  <2>4. hc' \in Controllers
    BY <1>9, <2>3 DEF SendControl, Controllers
  <2>5. drv' \in Drivers
    BY <1>1, <1>9 DEF SendControl, Drivers
  <2> QED
    BY <1>9, <2>4, <2>5 DEF SendControl
<1>10. CASE AwaitInterrupt
  <2>1. D \in Devices /\ dev[D] \in DeviceRecords
    BY <1>10, AtStep DEF AwaitInterrupt
  <2>2. [dev[D] EXCEPT !.signaled = FALSE] \in DeviceRecords
    BY <2>1 DEF DeviceRecords
  <2>3. dev' \in [Devices -> DeviceRecords]
    BY <1>10, <2>1, <2>2 DEF AwaitInterrupt
  <2>4. drv' \in Drivers
    BY <1>1, <1>10 DEF AwaitInterrupt, Drivers
  <2> QED
    BY <1>10, <2>3, <2>4 DEF AwaitInterrupt
<1>11. CASE EvaluateContext
  <2>1. D \in Devices /\ dev[D] \in DeviceRecords
    BY <1>11, AtStep DEF EvaluateContext
  <2>2. [dev[D] EXCEPT !.a_line = "control"] \in DeviceRecords
    BY <2>1 DEF DeviceRecords
  <2>3. dev' \in [Devices -> DeviceRecords]
    BY <1>11, <2>1, <2>2 DEF EvaluateContext
  <2>4. drv' \in Drivers
    BY <1>1, <1>11 DEF EvaluateContext, Drivers
  <2>5. hc' \in Controllers
    BY <1>11, <2>1, IssueShape DEF EvaluateContext
  <2> QED
    BY <1>11, <2>3, <2>4, <2>5 DEF EvaluateContext
<1>12. CASE ConfigureEndpoint
  <2>1. D \in Devices /\ dev[D] \in DeviceRecords
    BY <1>12, AtStep DEF ConfigureEndpoint
  <2>2. [dev[D] EXCEPT !.a_line = "poll"] \in DeviceRecords
    BY <2>1 DEF DeviceRecords
  <2>3. dev' \in [Devices -> DeviceRecords]
    BY <1>12, <2>1, <2>2 DEF ConfigureEndpoint
  <2>4. drv' \in Drivers
    BY <1>1, <1>12 DEF ConfigureEndpoint, Drivers
  <2>5. hc' \in Controllers
    BY <1>12, <2>1, IssueShape DEF ConfigureEndpoint
  <2> QED
    BY <1>12, <2>3, <2>4, <2>5 DEF ConfigureEndpoint
<1>13. CASE OpenEndpoint
  <2>1. D \in Devices /\ dev[D] \in DeviceRecords
    BY <1>13, AtStep DEF OpenEndpoint
  <2>2. [dev[D] EXCEPT !.a_line = "none", !.open = TRUE] \in DeviceRecords
    BY <2>1 DEF DeviceRecords
  <2>3. dev' = [dev EXCEPT ![D] = [dev[D] EXCEPT !.a_line = "none", !.open = TRUE]]
    BY <1>13, <2>1 DEF OpenEndpoint
  <2>4. dev' \in [Devices -> DeviceRecords]
    BY <2>1, <2>2, <2>3
  <2>5. drv' \in Drivers
    BY <1>1, <1>13 DEF OpenEndpoint, Drivers
  <2> QED
    BY <1>13, <2>4, <2>5 DEF OpenEndpoint
<1> QED
  BY <1>2, <1>3, <1>4, <1>5, <1>6, <1>7, <1>8, <1>9, <1>10, <1>11, <1>12, <1>13 DEF Thread

LEMMA HandlerShape ==
    ASSUME Shape, panic = "none" /\ HasEvent => pending # <<>>, Handler
    PROVE  Shape'
<1> USE DEF Shape
<1>1. CASE Interrupt
  BY <1>1 DEF Interrupt, Drivers
<1>2. drv.dequeue \in 0 .. RingSize - 1 /\ Event \in Events
  BY DEF Drivers, Event
<1>3. Event.id \in Nat
  BY <1>2 DEF Events
<1>4. ASSUME pending # <<>>, pending' = Tail(pending)
      PROVE  pending' \in Seq(Events)
  BY <1>4
<1>5. CASE HandleCallback
  <2>1. [drv EXCEPT !.slot_index = Event.id] \in Drivers
    BY <1>3 DEF Drivers
  <2>2. drv' \in Drivers
    BY <1>5, <2>1, AdvancedShape DEF HandleCallback
  <2>3. pending' \in Seq(Events)
    BY <1>4, <1>5 DEF HandleCallback, Handling
  <2> QED
    BY <1>5, <2>2, <2>3 DEF HandleCallback
<1>6. CASE HandleControl
  <2>1. ASSUME NEW d \in Devices PROVE [dev[d] EXCEPT !.signaled = TRUE] \in DeviceRecords
    BY DEF DeviceRecords
  <2>2. dev' \in [Devices -> DeviceRecords]
    BY <1>6, <2>1 DEF HandleControl
  <2>3. drv' \in Drivers
    BY <1>6, AdvancedShape DEF HandleControl
  <2>4. pending' \in Seq(Events)
    BY <1>4, <1>6 DEF HandleControl, Handling
  <2> QED
    BY <1>6, <2>2, <2>3, <2>4 DEF HandleControl
<1>7. CASE HandlePoll
  <2>1. poll' \in [Polled -> PollRings]
    BY <1>7, GivenBackShape DEF HandlePoll
  <2>2. drv' \in Drivers
    BY <1>7, AdvancedShape DEF HandlePoll
  <2>3. pending' \in Seq(Events)
    BY <1>4, <1>7 DEF HandlePoll, Handling
  <2> QED
    BY <1>7, <2>1, <2>2, <2>3 DEF HandlePoll
<1>8. CASE InterruptEnds
  <2>1. hc' \in Controllers
    BY <1>2, <1>8 DEF InterruptEnds, Controllers
  <2>2. drv' \in Drivers
    BY <1>8 DEF InterruptEnds, Drivers
  <2> QED
    BY <1>8, <2>1, <2>2 DEF InterruptEnds
<1> QED
  BY <1>1, <1>5, <1>6, <1>7, <1>8 DEF Handler

LEMMA ControllerShape ==
    ASSUME Shape, Controller \/ Report PROVE Shape'
<1> USE DEF Shape
<1>1. CASE PortReset
  <2>1. PortEvent \in Events
    BY DEF PortEvent, Events
  <2>2. /\ [hc EXCEPT !.resetting = 0] \in Controllers
        /\ [hc EXCEPT !.resetting = 0].enqueue = hc.enqueue
    BY DEF Controllers
  <2> QED
    BY <1>1, <2>1, <2>2, PostShape DEF PortReset
<1>2. CASE PortConnects
  <2>1. PortEvent \in Events
    BY DEF PortEvent, Events
  <2>2. PICK q \in hc.connects : Post(PortEvent, [hc EXCEPT !.connects = @ \ {q}])
    BY <1>2 DEF PortConnects
  <2>3. /\ [hc EXCEPT !.connects = @ \ {q}] \in Controllers
        /\ [hc EXCEPT !.connects = @ \ {q}].enqueue = hc.enqueue
    BY DEF Controllers
  <2> QED
    BY <1>2, <2>1, <2>2, <2>3, PostShape DEF PortConnects
<1>3. CASE ExecuteCommand
  <2> DEFINE c == Head(hc.commands)
             slot == IF c.type = "EnableSlot" THEN Len(hc.owner) + 1 ELSE c.slot
  <2>1. hc.commands \in Seq(Commands) /\ hc.commands # <<>> /\ hc.owner \in Seq(Devices)
    BY <1>3 DEF ExecuteCommand, Controllers
  <2>2. c \in Commands
    BY <2>1
  <2>3. slot \in Nat
    BY <2>1, <2>2 DEF Commands
  <2>4. [type |-> "command", id |-> slot] \in Events
    BY <2>3 DEF Events
  <2>5. Post([type |-> "command", id |-> slot], Executed(c, slot))
    BY <1>3 DEF ExecuteCommand
  <2>6. Executed(c, slot) \in Controllers /\ Executed(c, slot).enqueue = hc.enqueue
    BY <2>1, <2>3, ExecutedShape
  <2> HIDE DEF c, slot
  <2>7. UNCHANGED <<drv, dev, poll>>
    BY <1>3 DEF ExecuteCommand
  <2> QED
    BY <2>4, <2>5, <2>6, <2>7, PostShape
<1>4. CASE CompleteTransfer
  <2>1. PICK t \in hc.transfers :
          Post([type |-> "control", id |-> t], [hc EXCEPT !.transfers = @ \ {t}])
    BY <1>4 DEF CompleteTransfer
  <2>2. [type |-> "control", id |-> t] \in Events
    BY DEF Events, Controllers
  <2>3. /\ [hc EXCEPT !.transfers = @ \ {t}] \in Controllers
        /\ [hc EXCEPT !.transfers = @ \ {t}].enqueue = hc.enqueue
    BY DEF Controllers
  <2> QED
    BY <1>4, <2>1, <2>2, <2>3, PostShape DEF CompleteTransfer
<1>5. CASE Report
  <2>1. PICK d \in hc.configured :
          /\ poll' = [poll EXCEPT ![d].at = (@ + 1) % PollTrbs,
                                  ![d].ccs = IF poll[d].at = PollTrbs - 1 THEN ~@ ELSE @]
          /\ Post([type |-> "poll", id |-> d], hc)
    BY <1>5 DEF Report
  <2>2. d \in Nat
    BY XhciAssumption DEF Controllers, Devices
  <2>3. [type |-> "poll", id |-> d] \in Events
    BY <2>2 DEF Events
  <2>4. poll' \in [Polled -> PollRings]
    <3>1. CASE d \notin Polled
      BY <2>1, <3>1
    <3>2. CASE d \in Polled
      <4>1. poll[d] \in PollRings
        BY <3>2
      <4>2. poll[d].at \in 0 .. PollTrbs - 1 /\ poll[d].ccs \in BOOLEAN
        BY <4>1 DEF PollRings
      <4>3. (poll[d].at + 1) % PollTrbs \in 0 .. PollTrbs - 1
        BY <4>2, XhciAssumption
      <4>4. (IF poll[d].at = PollTrbs - 1 THEN ~poll[d].ccs ELSE poll[d].ccs) \in BOOLEAN
        BY <4>2
      <4>5. [poll[d] EXCEPT !.at = (poll[d].at + 1) % PollTrbs,
                            !.ccs = IF poll[d].at = PollTrbs - 1 THEN ~poll[d].ccs
                                                                 ELSE poll[d].ccs]
              \in PollRings
        BY <4>1, <4>3, <4>4 DEF PollRings
      <4>6. poll' = [poll EXCEPT ![d] =
              [poll[d] EXCEPT !.at = (poll[d].at + 1) % PollTrbs,
                              !.ccs = IF poll[d].at = PollTrbs - 1 THEN ~poll[d].ccs
                                                                   ELSE poll[d].ccs]]
        BY <2>1, <3>2, <4>1 DEF PollRings
      <4> QED
        BY <3>2, <4>5, <4>6
    <3> QED
      BY <3>1, <3>2
  <2> QED
    BY <1>5, <2>1, <2>3, <2>4, PostShape DEF Report
<1> QED
  BY <1>1, <1>2, <1>3, <1>4, <1>5 DEF Controller

LEMMA ShapeKept ==
    ASSUME Shape, panic = "none" /\ HasEvent => pending # <<>>, [Next]_vars
    PROVE  Shape'
<1>1. CASE TimesOut
  BY <1>1 DEF TimesOut, Shape
<1>2. CASE UNCHANGED vars
  BY <1>2 DEF vars, Shape
<1> QED
  BY <1>1, <1>2, ThreadShape, HandlerShape, ControllerShape DEF Next

-----------------------------------------------------------------------------
(***************************************************************************)
(* The event ring.  Every step leaves it alone, adds an event, takes one,  *)
(* or tells the controller how far the driver came.                        *)
(***************************************************************************)
RingKept ==
    /\ UNCHANGED <<ring, pending>>
    /\ hc'.enqueue = hc.enqueue /\ hc'.cycle = hc.cycle /\ hc'.erdp = hc.erdp
    /\ drv'.dequeue = drv.dequeue /\ drv'.css = drv.css

Posted(e) ==
    /\ CanPost
    /\ ring' = [ring EXCEPT ![hc.enqueue] = [event |-> e, cycle |-> hc.cycle]]
    /\ pending' = Append(pending, e)
    /\ hc.enqueue + 1 = RingSize => hc'.enqueue = 0 /\ hc'.cycle = ~hc.cycle
    /\ hc.enqueue + 1 # RingSize => hc'.enqueue = hc.enqueue + 1 /\ hc'.cycle = hc.cycle
    /\ hc'.erdp = hc.erdp
    /\ drv' = drv

EventTaken ==
    /\ panic = "none" /\ HasEvent
    /\ UNCHANGED ring
    /\ pending' = Tail(pending)
    /\ hc' = hc
    /\ drv.dequeue + 1 = RingSize => drv'.dequeue = 0 /\ drv'.css = ~drv.css
    /\ drv.dequeue + 1 # RingSize => drv'.dequeue = drv.dequeue + 1 /\ drv'.css = drv.css

ProgressTold ==
    /\ ~HasEvent
    /\ UNCHANGED <<ring, pending>>
    /\ hc'.enqueue = hc.enqueue /\ hc'.cycle = hc.cycle /\ hc'.erdp = drv.dequeue
    /\ drv'.dequeue = drv.dequeue /\ drv'.css = drv.css

LEMMA PostIsPosted ==
    ASSUME Shape, NEW e, NEW h \in Controllers, Post(e, h), CanPost, drv' = drv,
           h.enqueue = hc.enqueue, h.cycle = hc.cycle, h.erdp = hc.erdp
    PROVE  Posted(e)
<1>1. /\ hc.enqueue + 1 = RingSize => hc'.enqueue = 0 /\ hc'.cycle = ~hc.cycle
      /\ hc.enqueue + 1 # RingSize => hc'.enqueue = hc.enqueue + 1 /\ hc'.cycle = hc.cycle
      /\ hc'.erdp = hc.erdp
  <2>1. CASE hc.enqueue + 1 = RingSize
    BY <2>1 DEF Post, Controllers
  <2>2. CASE hc.enqueue + 1 # RingSize
    BY <2>2 DEF Post, Controllers
  <2> QED
    BY <2>1, <2>2
<1> QED
  BY <1>1 DEF Post, Posted

LEMMA ThreadKeepsRing == ASSUME Shape, Thread PROVE RingKept /\ UNCHANGED <<poll, panic>>
<1> USE DEF RingKept
<1>1. drv \in Drivers /\ hc \in Controllers
  BY DEF Shape
<1>2. ASSUME NEW type, NEW d, Issue(type, d)
      PROVE  hc'.enqueue = hc.enqueue /\ hc'.cycle = hc.cycle /\ hc'.erdp = hc.erdp
  BY <1>1, <1>2 DEF Issue, Controllers
<1>3. CASE ResetPort
  BY <1>1, <1>3 DEF ResetPort, Drivers, Controllers
<1>4. CASE IsReset
  BY <1>1, <1>4 DEF IsReset, Drivers
<1>5. CASE Wakes
  BY <1>1, <1>5 DEF Wakes, Drivers
<1>6. CASE EnableSlot
  BY <1>1, <1>2, <1>6 DEF EnableSlot, Drivers
<1>7. CASE SlotEnabled
  BY <1>1, <1>7 DEF SlotEnabled, Drivers
<1>8. CASE AddressDevice
  BY <1>1, <1>2, <1>8 DEF AddressDevice, Drivers
<1>9. CASE Addressed
  BY <1>1, <1>9 DEF Addressed, Drivers
<1>10. CASE SendControl
  BY <1>1, <1>10 DEF SendControl, Drivers, Controllers
<1>11. CASE AwaitInterrupt
  BY <1>1, <1>11 DEF AwaitInterrupt, Drivers
<1>12. CASE EvaluateContext
  BY <1>1, <1>2, <1>12 DEF EvaluateContext, Drivers
<1>13. CASE ConfigureEndpoint
  BY <1>1, <1>2, <1>13 DEF ConfigureEndpoint, Drivers
<1>14. CASE OpenEndpoint
  BY <1>1, <1>14 DEF OpenEndpoint, Drivers
<1> QED
  BY <1>3, <1>4, <1>5, <1>6, <1>7, <1>8, <1>9, <1>10, <1>11, <1>12, <1>13, <1>14 DEF Thread

LEMMA AdvancedTakes ==
    ASSUME NEW r \in Drivers
    PROVE  /\ r.dequeue + 1 = RingSize =>
                Advanced(r).dequeue = 0 /\ Advanced(r).css = ~r.css
           /\ r.dequeue + 1 # RingSize =>
                Advanced(r).dequeue = r.dequeue + 1 /\ Advanced(r).css = r.css
           /\ Advanced(r).got_events
<1>1. CASE r.dequeue + 1 = RingSize
  BY <1>1 DEF Advanced, Drivers
<1>2. CASE r.dequeue + 1 # RingSize
  BY <1>2 DEF Advanced, Drivers
<1> QED
  BY <1>1, <1>2

LEMMA HandlerTakes ==
    ASSUME Shape, Handler
    PROVE  RingKept \/ EventTaken \/ ProgressTold \/ panic' # "none"
<1>1. drv \in Drivers /\ hc \in Controllers
  BY DEF Shape
<1>2. CASE Interrupt
  BY <1>1, <1>2 DEF Interrupt, RingKept, Drivers
<1>3. CASE HandleCallback
  <2>1. Event \in Events
    BY DEF Shape, Drivers, Event
  <2>2. [drv EXCEPT !.slot_index = Event.id] \in Drivers
    BY <1>1, <2>1 DEF Drivers, Events
  <2>3. /\ [drv EXCEPT !.slot_index = Event.id].dequeue = drv.dequeue
        /\ [drv EXCEPT !.slot_index = Event.id].css = drv.css
    BY <1>1 DEF Drivers
  <2>4. CASE panic' = panic
    <3>1. drv' = Advanced([drv EXCEPT !.slot_index = Event.id]) \/ drv' = Advanced(drv)
      BY <1>3, <2>4 DEF HandleCallback, Handling
    <3>2. /\ drv.dequeue + 1 = RingSize => drv'.dequeue = 0 /\ drv'.css = ~drv.css
          /\ drv.dequeue + 1 # RingSize => drv'.dequeue = drv.dequeue + 1 /\ drv'.css = drv.css
      <4>1. CASE drv' = Advanced(drv)
        BY <1>1, <4>1, AdvancedTakes
      <4>2. CASE drv' = Advanced([drv EXCEPT !.slot_index = Event.id])
        <5> DEFINE r == [drv EXCEPT !.slot_index = Event.id]
        <5>1. r \in Drivers /\ r.dequeue = drv.dequeue /\ r.css = drv.css /\ drv' = Advanced(r)
          BY <2>2, <2>3, <4>2
        <5> HIDE DEF r
        <5> QED
          BY <5>1, AdvancedTakes
      <4> QED
        BY <3>1, <4>1, <4>2
    <3> QED
      BY <1>3, <3>2 DEF HandleCallback, Handling, EventTaken
  <2> QED
    BY <1>3, <2>4 DEF HandleCallback
<1>4. CASE HandleControl
  BY <1>1, <1>4, AdvancedTakes DEF HandleControl, Handling, EventTaken
<1>5. CASE HandlePoll
  BY <1>1, <1>5, AdvancedTakes DEF HandlePoll, Handling, EventTaken
<1>6. CASE InterruptEnds
  BY <1>1, <1>6 DEF InterruptEnds, ProgressTold, Drivers, Controllers
<1> QED
  BY <1>2, <1>3, <1>4, <1>5, <1>6 DEF Handler

LEMMA ExecutedKeeps ==
    ASSUME Shape, NEW c, NEW slot
    PROVE  /\ Executed(c, slot).enqueue = hc.enqueue
           /\ Executed(c, slot).cycle = hc.cycle
           /\ Executed(c, slot).erdp = hc.erdp
<1> DEFINE h == [hc EXCEPT !.commands = Tail(@)]
<1>1. hc \in Controllers
  BY DEF Shape
<1>2. h.enqueue = hc.enqueue /\ h.cycle = hc.cycle /\ h.erdp = hc.erdp
  BY <1>1 DEF Controllers
<1>3. \A x : /\ [h EXCEPT !.owner = x].enqueue = hc.enqueue
             /\ [h EXCEPT !.owner = x].cycle = hc.cycle
             /\ [h EXCEPT !.owner = x].erdp = hc.erdp
             /\ [h EXCEPT !.addressed = x].enqueue = hc.enqueue
             /\ [h EXCEPT !.addressed = x].cycle = hc.cycle
             /\ [h EXCEPT !.addressed = x].erdp = hc.erdp
             /\ [h EXCEPT !.configured = x].enqueue = hc.enqueue
             /\ [h EXCEPT !.configured = x].cycle = hc.cycle
             /\ [h EXCEPT !.configured = x].erdp = hc.erdp
  BY <1>1 DEF Controllers
<1> HIDE DEF h
<1>4. Executed(c, slot) =
        CASE c.type = "EnableSlot" -> [h EXCEPT !.owner = Append(@, c.dev)]
          [] c.type = "AddressDevice" -> [h EXCEPT !.addressed = @ \cup {slot}]
          [] c.type = "ConfigureEndpoint" /\ dev[c.dev].a_line = "poll" ->
               [h EXCEPT !.configured = @ \cup {c.dev}]
          [] OTHER -> h
  BY DEF Executed, h
<1> QED
  BY <1>2, <1>3, <1>4

LEMMA ControllerPosts ==
    ASSUME Shape, Controller
    PROVE  /\ \E e \in Events : e.type # "poll" /\ Posted(e)
           /\ UNCHANGED <<poll, panic>>
<1>1. hc \in Controllers
  BY DEF Shape
<1>2. PortEvent \in Events /\ PortEvent.type # "poll"
  BY DEF PortEvent, Events
<1>3. CASE PortReset
  <2>1. [hc EXCEPT !.resetting = 0] \in Controllers
    BY <1>1 DEF Controllers
  <2>2. /\ [hc EXCEPT !.resetting = 0].enqueue = hc.enqueue
        /\ [hc EXCEPT !.resetting = 0].cycle = hc.cycle
        /\ [hc EXCEPT !.resetting = 0].erdp = hc.erdp
    BY <1>1 DEF Controllers
  <2>3. Posted(PortEvent)
    BY <1>3, <2>1, <2>2, PostIsPosted DEF PortReset
  <2> QED
    BY <1>2, <1>3, <2>3 DEF PortReset
<1>4. CASE PortConnects
  <2>1. PICK q \in hc.connects : Post(PortEvent, [hc EXCEPT !.connects = @ \ {q}])
    BY <1>4 DEF PortConnects
  <2>2. [hc EXCEPT !.connects = @ \ {q}] \in Controllers
    BY <1>1 DEF Controllers
  <2>3. /\ [hc EXCEPT !.connects = @ \ {q}].enqueue = hc.enqueue
        /\ [hc EXCEPT !.connects = @ \ {q}].cycle = hc.cycle
        /\ [hc EXCEPT !.connects = @ \ {q}].erdp = hc.erdp
    BY <1>1 DEF Controllers
  <2>4. Posted(PortEvent)
    BY <1>4, <2>1, <2>2, <2>3, PostIsPosted DEF PortConnects
  <2> QED
    BY <1>2, <1>4, <2>4 DEF PortConnects
<1>5. CASE ExecuteCommand
  <2> DEFINE c == Head(hc.commands)
             slot == IF c.type = "EnableSlot" THEN Len(hc.owner) + 1 ELSE c.slot
             e == [type |-> "command", id |-> slot]
  <2>1. hc.commands \in Seq(Commands) /\ hc.commands # <<>> /\ hc.owner \in Seq(Devices)
    BY <1>1, <1>5 DEF ExecuteCommand, Controllers
  <2>2. c \in Commands
    BY <2>1
  <2>3. slot \in Nat
    BY <2>1, <2>2 DEF Commands
  <2>4. e \in Events /\ e.type # "poll"
    BY <2>3 DEF Events
  <2>5. Post(e, Executed(c, slot))
    BY <1>5 DEF ExecuteCommand
  <2>6. Executed(c, slot) \in Controllers
    BY <2>1, <2>3, ExecutedShape
  <2> HIDE DEF c, slot, e
  <2>7. CanPost /\ UNCHANGED <<drv, poll, panic>>
    BY <1>5 DEF ExecuteCommand
  <2>8. Posted(e)
    BY <2>5, <2>6, <2>7, ExecutedKeeps, PostIsPosted
  <2> QED
    BY <2>4, <2>7, <2>8
<1>6. CASE CompleteTransfer
  <2>1. PICK t \in hc.transfers :
          Post([type |-> "control", id |-> t], [hc EXCEPT !.transfers = @ \ {t}])
    BY <1>6 DEF CompleteTransfer
  <2>2. [type |-> "control", id |-> t] \in Events
    BY <1>1 DEF Events, Controllers
  <2>3. [hc EXCEPT !.transfers = @ \ {t}] \in Controllers
    BY <1>1 DEF Controllers
  <2>4. /\ [hc EXCEPT !.transfers = @ \ {t}].enqueue = hc.enqueue
        /\ [hc EXCEPT !.transfers = @ \ {t}].cycle = hc.cycle
        /\ [hc EXCEPT !.transfers = @ \ {t}].erdp = hc.erdp
    BY <1>1 DEF Controllers
  <2>5. Posted([type |-> "control", id |-> t])
    BY <1>6, <2>1, <2>3, <2>4, PostIsPosted DEF CompleteTransfer
  <2> QED
    BY <1>6, <2>2, <2>5 DEF CompleteTransfer
<1> QED
  BY <1>3, <1>4, <1>5, <1>6 DEF Controller

(* An index behind dequeue by less than a lap. *)
Slot(x) == IF x < RingSize THEN x ELSE x - RingSize

(* What the two cycle bits mean: with equal bits the driver is on the      *)
(* controller's lap and behind it, else a lap behind and ahead of it in    *)
(* the ring.  The controller keeps one slot off the place the driver told. *)
Laps ==
    /\ drv.css = hc.cycle =>
         /\ drv.dequeue <= hc.enqueue
         /\ Len(pending) = hc.enqueue - drv.dequeue
         /\ hc.erdp <= drv.dequeue \/ hc.erdp > hc.enqueue
    /\ drv.css # hc.cycle =>
         /\ hc.enqueue < hc.erdp
         /\ hc.erdp <= drv.dequeue
         /\ Len(pending) = RingSize - drv.dequeue + hc.enqueue

CycleBits ==
    \A i \in 0 .. RingSize - 1 :
      ring[i].cycle = (IF i < hc.enqueue THEN hc.cycle ELSE ~hc.cycle)

InOrder ==
    \A i \in 1 .. Len(pending) : ring[Slot(drv.dequeue + i - 1)].event = pending[i]

RingInv == panic = "none" => Laps /\ CycleBits /\ InOrder

LEMMA Typed ==
    ASSUME Shape
    PROVE  /\ RingSize \in Nat /\ RingSize > 1
           /\ drv.dequeue \in 0 .. RingSize - 1 /\ drv.css \in BOOLEAN
           /\ hc.enqueue \in 0 .. RingSize - 1 /\ hc.cycle \in BOOLEAN
           /\ hc.erdp \in 0 .. RingSize - 1
           /\ pending \in Seq(Events) /\ Len(pending) \in Nat
           /\ \A i \in 0 .. RingSize - 1 : ring[i].cycle \in BOOLEAN
<1>1. drv \in Drivers /\ hc \in Controllers /\ pending \in Seq(Events)
  BY DEF Shape
<1>2. drv.dequeue \in 0 .. RingSize - 1 /\ drv.css \in BOOLEAN
  BY <1>1 DEF Drivers
<1>3. hc.enqueue \in 0 .. RingSize - 1 /\ hc.cycle \in BOOLEAN /\ hc.erdp \in 0 .. RingSize - 1
  BY <1>1 DEF Controllers
<1>4. \A i \in 0 .. RingSize - 1 : ring[i].cycle \in BOOLEAN
  BY DEF Shape
<1> QED
  BY <1>1, <1>2, <1>3, <1>4, XhciAssumption

(* The driver finds an event exactly when one waits, and it is the oldest. *)
LEMMA RingInvMeans ==
    ASSUME Shape, RingInv
    PROVE  EventsExact
<1> SUFFICES ASSUME panic = "none"
             PROVE  /\ HasEvent = (pending # <<>>)
                    /\ HasEvent => Event = Head(pending)
  BY DEF EventsExact
<1>1. Laps /\ CycleBits /\ InOrder
  BY DEF RingInv
<1>2. ring[drv.dequeue].cycle =
        (IF drv.dequeue < hc.enqueue THEN hc.cycle ELSE ~hc.cycle)
  BY <1>1, Typed DEF CycleBits
<1>3. HasEvent <=> Len(pending) > 0
  <2>1. CASE drv.css = hc.cycle
    <3>1. /\ drv.dequeue <= hc.enqueue
          /\ Len(pending) = hc.enqueue - drv.dequeue
      BY <1>1, <2>1 DEF Laps
    <3>2. CASE drv.dequeue < hc.enqueue
      <4>1. HasEvent
        BY <1>2, <2>1, <3>2, Typed DEF HasEvent
      <4>2. Len(pending) > 0
        BY <3>1, <3>2, Typed
      <4> QED
        BY <4>1, <4>2
    <3>3. CASE drv.dequeue = hc.enqueue
      <4>1. ring[drv.dequeue].cycle = ~hc.cycle
        BY <1>2, <3>3, Typed
      <4>2. ~HasEvent
        BY <2>1, <4>1, Typed DEF HasEvent
      <4>3. Len(pending) = 0
        BY <3>1, <3>3, Typed
      <4> QED
        BY <4>2, <4>3
    <3> QED
      BY <3>1, <3>2, <3>3, Typed
  <2>2. CASE drv.css # hc.cycle
    <3>1. /\ hc.enqueue < drv.dequeue
          /\ Len(pending) = RingSize - drv.dequeue + hc.enqueue
      BY <1>1, <2>2, Typed DEF Laps
    <3>2. ring[drv.dequeue].cycle = ~hc.cycle
      BY <1>2, <3>1, Typed
    <3>3. HasEvent
      BY <2>2, <3>2, Typed DEF HasEvent
    <3>4. Len(pending) > 0
      BY <3>1, Typed
    <3> QED
      BY <3>3, <3>4
  <2> QED
    BY <2>1, <2>2
<1>4. pending # <<>> <=> Len(pending) > 0
  BY Typed
<1>5. HasEvent => Event = Head(pending)
  <2> SUFFICES ASSUME HasEvent PROVE Event = Head(pending)
    OBVIOUS
  <2>1. Len(pending) > 0
    BY <1>3
  <2>2. ring[Slot(drv.dequeue + 1 - 1)].event = pending[1]
    BY <1>1, <2>1, Typed DEF InOrder
  <2>3. Slot(drv.dequeue + 1 - 1) = drv.dequeue
    BY Typed DEF Slot
  <2>4. Head(pending) = pending[1]
    BY <2>1, Typed
  <2> QED
    BY <2>2, <2>3, <2>4 DEF Event
<1> QED
  BY <1>3, <1>4, <1>5 DEF HasEvent

LEMMA RingInvAtBoot == Init => RingInv
<1> SUFFICES ASSUME Init PROVE RingInv
  OBVIOUS
<1>1. drv.dequeue = 0 /\ drv.css = hc.cycle
  BY DEF Init
<1>2. hc.enqueue = 0 /\ hc.cycle /\ hc.erdp = 0
  BY DEF Init
<1>3. Len(pending) = 0
  BY DEF Init
<1>4. ASSUME NEW i \in 0 .. RingSize - 1
      PROVE  ring[i].cycle = ~hc.cycle /\ ~(i < hc.enqueue)
  <2>1. ring[i].cycle = FALSE
    BY DEF Init
  <2>2. ring[i].cycle = ~hc.cycle
    BY <1>2, <2>1
  <2>3. ~(i < hc.enqueue)
    BY <1>2
  <2> QED
    BY <2>2, <2>3
<1>5. Laps
  <2>1. /\ drv.dequeue <= hc.enqueue
        /\ Len(pending) = hc.enqueue - drv.dequeue
        /\ hc.erdp <= drv.dequeue
    BY <1>1, <1>2, <1>3
  <2> QED
    BY <1>1, <2>1 DEF Laps
<1>6. CycleBits
  BY <1>4 DEF CycleBits
<1>7. InOrder
  BY <1>3 DEF InOrder
<1> QED
  BY <1>5, <1>6, <1>7 DEF RingInv

LEMMA KeptKeepsRingInv ==
    ASSUME Shape, RingInv, RingKept, panic' = "none" => panic = "none"
    PROVE  RingInv'
BY DEF RingInv, RingKept, Laps, CycleBits, InOrder

LEMMA ToldKeepsRingInv ==
    ASSUME Shape, RingInv, ProgressTold, panic = "none"
    PROVE  RingInv'
<1>1. Laps /\ CycleBits /\ InOrder
  BY DEF RingInv
<1>2. pending = <<>>
  BY RingInvMeans DEF EventsExact, ProgressTold
<1>3. Len(pending) = 0
  BY <1>2
<1>4. drv.css = hc.cycle /\ drv.dequeue = hc.enqueue
  BY <1>1, <1>3, Typed DEF Laps
<1>5. Laps'
  BY <1>3, <1>4, Typed DEF Laps, ProgressTold
<1>6. CycleBits' /\ InOrder'
  BY <1>1 DEF CycleBits, InOrder, ProgressTold
<1> QED
  BY <1>5, <1>6 DEF RingInv

LEMMA SmallRemainder == \A n \in Nat : \A a \in 0 .. n - 1 : a % n = a
OBVIOUS

(* CanPost in the terms of Laps. *)
LEMMA RoomToPost ==
    ASSUME Shape, CanPost
    PROVE  /\ hc.enqueue + 1 = RingSize => hc.erdp # 0
           /\ hc.enqueue + 1 # RingSize => hc.erdp # hc.enqueue + 1
<1>1. CASE hc.enqueue + 1 = RingSize
  <2>1. RingSize % RingSize = 0
    BY Typed
  <2> QED
    BY <1>1, <2>1 DEF CanPost
<1>2. CASE hc.enqueue + 1 # RingSize
  <2>1. hc.enqueue + 1 \in 0 .. RingSize - 1
    BY <1>2, Typed
  <2>2. (hc.enqueue + 1) % RingSize = hc.enqueue + 1
    BY <2>1, Typed, SmallRemainder
  <2> QED
    BY <1>2, <2>2 DEF CanPost
<1> QED
  BY <1>1, <1>2

LEMMA PostedKeepsRingInv ==
    ASSUME Shape, RingInv, panic = "none", NEW e \in Events, Posted(e)
    PROVE  RingInv'
<1>1. Laps /\ CycleBits /\ InOrder
  BY DEF RingInv
<1>2. Len(pending') = Len(pending) + 1 /\ drv' = drv /\ hc'.erdp = hc.erdp
  BY Typed DEF Posted
<1>3. /\ hc.enqueue + 1 = RingSize => hc'.enqueue = 0 /\ hc'.cycle = ~hc.cycle
      /\ hc.enqueue + 1 # RingSize => hc'.enqueue = hc.enqueue + 1 /\ hc'.cycle = hc.cycle
  BY DEF Posted
<1>4. /\ hc.enqueue + 1 = RingSize => hc.erdp # 0
      /\ hc.enqueue + 1 # RingSize => hc.erdp # hc.enqueue + 1
  BY RoomToPost DEF Posted
<1>5. Laps'
  <2>1. CASE drv.css = hc.cycle
    <3>1. /\ drv.dequeue <= hc.enqueue
          /\ Len(pending) = hc.enqueue - drv.dequeue
          /\ hc.erdp <= drv.dequeue \/ hc.erdp > hc.enqueue
      BY <1>1, <2>1 DEF Laps
    <3>2. CASE hc.enqueue + 1 = RingSize
      <4>1. drv'.css # hc'.cycle /\ hc'.enqueue = 0
        BY <1>2, <1>3, <2>1, <3>2, Typed
      <4>2. /\ hc'.enqueue < hc'.erdp /\ hc'.erdp <= drv'.dequeue
            /\ Len(pending') = RingSize - drv'.dequeue + hc'.enqueue
        BY <1>2, <1>4, <3>1, <3>2, <4>1, Typed
      <4> QED
        BY <4>1, <4>2 DEF Laps
    <3>3. CASE hc.enqueue + 1 # RingSize
      <4>1. drv'.css = hc'.cycle /\ hc'.enqueue = hc.enqueue + 1
        BY <1>2, <1>3, <2>1, <3>3
      <4>2. /\ drv'.dequeue <= hc'.enqueue
            /\ Len(pending') = hc'.enqueue - drv'.dequeue
            /\ hc'.erdp <= drv'.dequeue \/ hc'.erdp > hc'.enqueue
        BY <1>2, <1>4, <3>1, <3>3, <4>1, Typed
      <4> QED
        BY <4>1, <4>2 DEF Laps
    <3> QED
      BY <3>2, <3>3
  <2>2. CASE drv.css # hc.cycle
    <3>1. /\ hc.enqueue < hc.erdp /\ hc.erdp <= drv.dequeue
          /\ Len(pending) = RingSize - drv.dequeue + hc.enqueue
      BY <1>1, <2>2 DEF Laps
    <3>2. hc.enqueue + 1 # RingSize
      BY <3>1, Typed
    <3>3. drv'.css # hc'.cycle /\ hc'.enqueue = hc.enqueue + 1
      BY <1>2, <1>3, <2>2, <3>2
    <3>4. /\ hc'.enqueue < hc'.erdp /\ hc'.erdp <= drv'.dequeue
          /\ Len(pending') = RingSize - drv'.dequeue + hc'.enqueue
      <4>1. drv'.dequeue = drv.dequeue /\ hc.erdp # hc.enqueue + 1
        BY <1>2, <1>4, <3>2
      <4>2. hc'.enqueue < hc'.erdp
        BY <1>2, <3>1, <3>3, <4>1, Typed
      <4>3. hc'.erdp <= drv'.dequeue
        BY <1>2, <3>1, <4>1
      <4>4. Len(pending') = RingSize - drv'.dequeue + hc'.enqueue
        BY <1>2, <3>1, <3>3, <4>1, Typed
      <4> QED
        BY <4>2, <4>3, <4>4
    <3> QED
      BY <3>3, <3>4 DEF Laps
  <2> QED
    BY <2>1, <2>2
<1>6. CycleBits'
  <2> SUFFICES ASSUME NEW i \in 0 .. RingSize - 1
               PROVE  ring'[i].cycle = (IF i < hc'.enqueue THEN hc'.cycle ELSE ~hc'.cycle)
    BY DEF CycleBits
  <2>1. ring'[i].cycle = IF i = hc.enqueue THEN hc.cycle ELSE ring[i].cycle
    BY Typed DEF Posted, Shape
  <2>2. ring[i].cycle = (IF i < hc.enqueue THEN hc.cycle ELSE ~hc.cycle)
    BY <1>1 DEF CycleBits
  <2>3. CASE hc.enqueue + 1 = RingSize
    <3>1. ring'[i].cycle = hc.cycle
      BY <2>1, <2>2, <2>3, Typed
    <3>2. ~(i < hc'.enqueue) /\ hc'.cycle = ~hc.cycle
      BY <1>3, <2>3
    <3> QED
      BY <3>1, <3>2, Typed
  <2>4. CASE hc.enqueue + 1 # RingSize
    <3>1. hc'.enqueue = hc.enqueue + 1 /\ hc'.cycle = hc.cycle
      BY <1>3, <2>4
    <3>2. CASE i = hc.enqueue
      BY <2>1, <3>1, <3>2, Typed
    <3>3. CASE i # hc.enqueue
      <4>1. i < hc'.enqueue <=> i < hc.enqueue
        BY <3>1, <3>3, Typed
      <4> QED
        BY <2>1, <2>2, <3>1, <3>3, <4>1
    <3> QED
      BY <3>2, <3>3
  <2> QED
    BY <2>3, <2>4
<1>7. InOrder'
  <2>1. drv'.dequeue = drv.dequeue
    BY DEF Posted
  <2> SUFFICES ASSUME NEW i \in 1 .. Len(pending) + 1
               PROVE  ring'[Slot(drv.dequeue + i - 1)].event = pending'[i]
    BY <1>2, <2>1 DEF InOrder
  <2>2. Len(pending) < RingSize
    BY <1>1, Typed DEF Laps
  <2>3. Slot(drv.dequeue + i - 1) \in 0 .. RingSize - 1
    BY <2>2, Typed DEF Slot
  <2>4. CASE i = Len(pending) + 1
    <3>1. Slot(drv.dequeue + i - 1) = hc.enqueue
      <4>1. CASE drv.css = hc.cycle
        BY <1>1, <2>4, <4>1, Typed DEF Laps, Slot
      <4>2. CASE drv.css # hc.cycle
        BY <1>1, <2>4, <4>2, Typed DEF Laps, Slot
      <4> QED
        BY <4>1, <4>2
    <3>2. pending'[i] = e
      BY <2>4, Typed DEF Posted
    <3>3. ring'[hc.enqueue].event = e
      BY Typed DEF Posted, Shape
    <3> QED
      BY <3>1, <3>2, <3>3
  <2>5. CASE i # Len(pending) + 1
    <3>1. i \in 1 .. Len(pending)
      BY <2>5, Typed
    <3>2. Slot(drv.dequeue + i - 1) # hc.enqueue
      <4>1. CASE drv.css = hc.cycle
        BY <1>1, <3>1, <4>1, Typed DEF Laps, Slot
      <4>2. CASE drv.css # hc.cycle
        BY <1>1, <3>1, <4>2, Typed DEF Laps, Slot
      <4> QED
        BY <4>1, <4>2
    <3>3. pending'[i] = pending[i]
      BY <3>1, Typed DEF Posted
    <3>4. ring'[Slot(drv.dequeue + i - 1)] = ring[Slot(drv.dequeue + i - 1)]
      BY <2>3, <3>2 DEF Posted, Shape
    <3> QED
      BY <1>1, <3>1, <3>3, <3>4 DEF InOrder
  <2> QED
    BY <2>4, <2>5
<1> QED
  BY <1>5, <1>6, <1>7 DEF RingInv

LEMMA TakenKeepsRingInv ==
    ASSUME Shape, RingInv, EventTaken
    PROVE  RingInv'
<1>1. Laps /\ CycleBits /\ InOrder
  BY DEF RingInv, EventTaken
<1>2. pending # <<>>
  BY RingInvMeans DEF EventsExact, EventTaken
<1>3. Len(pending) > 0 /\ Len(pending') = Len(pending) - 1
  BY <1>2, Typed DEF EventTaken
<1>4. /\ drv.dequeue + 1 = RingSize => drv'.dequeue = 0 /\ drv'.css = ~drv.css
      /\ drv.dequeue + 1 # RingSize => drv'.dequeue = drv.dequeue + 1 /\ drv'.css = drv.css
      /\ hc' = hc
  BY DEF EventTaken
<1>5. Laps'
  <2>1. CASE drv.css = hc.cycle
    <3>1. /\ drv.dequeue <= hc.enqueue
          /\ Len(pending) = hc.enqueue - drv.dequeue
          /\ hc.erdp <= drv.dequeue \/ hc.erdp > hc.enqueue
      BY <1>1, <2>1 DEF Laps
    <3>2. drv.dequeue + 1 # RingSize
      BY <1>3, <3>1, Typed
    <3>3. drv'.css = hc'.cycle /\ drv'.dequeue = drv.dequeue + 1
      BY <1>4, <2>1, <3>2
    <3>4. /\ drv'.dequeue <= hc'.enqueue
          /\ Len(pending') = hc'.enqueue - drv'.dequeue
          /\ hc'.erdp <= drv'.dequeue \/ hc'.erdp > hc'.enqueue
      BY <1>3, <1>4, <3>1, <3>3, Typed
    <3> QED
      BY <3>3, <3>4 DEF Laps
  <2>2. CASE drv.css # hc.cycle
    <3>1. /\ hc.enqueue < hc.erdp /\ hc.erdp <= drv.dequeue
          /\ Len(pending) = RingSize - drv.dequeue + hc.enqueue
      BY <1>1, <2>2 DEF Laps
    <3>2. CASE drv.dequeue + 1 = RingSize
      <4>1. drv'.css = hc'.cycle /\ drv'.dequeue = 0
        BY <1>4, <2>2, <3>2, Typed
      <4>2. /\ drv'.dequeue <= hc'.enqueue
            /\ Len(pending') = hc'.enqueue - drv'.dequeue
            /\ hc'.erdp <= drv'.dequeue \/ hc'.erdp > hc'.enqueue
        BY <1>3, <1>4, <3>1, <3>2, <4>1, Typed
      <4> QED
        BY <4>1, <4>2 DEF Laps
    <3>3. CASE drv.dequeue + 1 # RingSize
      <4>1. drv'.css # hc'.cycle /\ drv'.dequeue = drv.dequeue + 1
        BY <1>4, <2>2, <3>3
      <4>2. /\ hc'.enqueue < hc'.erdp /\ hc'.erdp <= drv'.dequeue
            /\ Len(pending') = RingSize - drv'.dequeue + hc'.enqueue
        BY <1>3, <1>4, <3>1, <4>1, Typed
      <4> QED
        BY <4>1, <4>2 DEF Laps
    <3> QED
      BY <3>2, <3>3
  <2> QED
    BY <2>1, <2>2
<1>6. CycleBits'
  BY <1>1 DEF CycleBits, EventTaken
<1>7. InOrder'
  <2> SUFFICES ASSUME NEW i \in 1 .. Len(pending) - 1
               PROVE  ring[Slot(drv'.dequeue + i - 1)].event = pending'[i]
    BY <1>3 DEF InOrder, EventTaken
  <2>1. pending'[i] = pending[i + 1]
    BY <1>2, Typed DEF EventTaken
  <2>2. i + 1 \in 1 .. Len(pending)
    BY Typed
  <2>3. Slot(drv'.dequeue + i - 1) = Slot(drv.dequeue + (i + 1) - 1)
    <3>1. Len(pending) < RingSize
      BY <1>1, Typed DEF Laps
    <3>2. CASE drv.dequeue + 1 = RingSize
      <4>1. drv'.dequeue = 0 /\ drv.dequeue = RingSize - 1
        BY <1>4, <3>2, Typed
      <4>2. Slot(drv'.dequeue + i - 1) = i - 1
        BY <3>1, <4>1, Typed DEF Slot
      <4>3. Slot(drv.dequeue + (i + 1) - 1) = i - 1
        BY <4>1, Typed DEF Slot
      <4> QED
        BY <4>2, <4>3
    <3>3. CASE drv.dequeue + 1 # RingSize
      BY <1>4, <3>3, Typed DEF Slot
    <3> QED
      BY <3>2, <3>3
  <2> QED
    BY <1>1, <2>1, <2>2, <2>3 DEF InOrder
<1> QED
  BY <1>5, <1>6, <1>7 DEF RingInv

-----------------------------------------------------------------------------
(***************************************************************************)
(* The rings of the interrupt endpoints.                                   *)
(***************************************************************************)
PollEvent(d) == [type |-> "poll", id |-> d]

Reports(d, s) == {i \in DOMAIN s : s[i] = PollEvent(d)}

LEMMA ReportsFinite ==
    ASSUME NEW d, NEW s \in Seq(Events)
    PROVE  /\ IsFiniteSet(Reports(d, s))
           /\ Cardinality(Reports(d, s)) \in Nat
           /\ Reports(d, s) \subseteq 1 .. Len(s)
<1>1. Reports(d, s) \subseteq 1 .. Len(s)
  BY DEF Reports
<1>2. IsFiniteSet(1 .. Len(s))
  BY FS_Interval
<1> QED
  BY <1>1, <1>2, FS_Subset, FS_CardinalityType

LEMMA ReportsAppended ==
    ASSUME NEW d, NEW s \in Seq(Events), NEW e \in Events
    PROVE  Cardinality(Reports(d, Append(s, e))) =
             IF e = PollEvent(d) THEN Cardinality(Reports(d, s)) + 1
                                 ELSE Cardinality(Reports(d, s))
<1>1. /\ DOMAIN Append(s, e) = 1 .. Len(s) + 1
      /\ DOMAIN s = 1 .. Len(s)
      /\ Append(s, e)[Len(s) + 1] = e
      /\ \A i \in 1 .. Len(s) : Append(s, e)[i] = s[i]
      /\ Len(s) \in Nat
  OBVIOUS
<1>2. Len(s) + 1 \notin Reports(d, s)
  BY <1>1, ReportsFinite
<1>3. CASE e = PollEvent(d)
  <2>1. Reports(d, Append(s, e)) = Reports(d, s) \cup {Len(s) + 1}
    BY <1>1, <1>3 DEF Reports
  <2> QED
    BY <1>2, <1>3, <2>1, ReportsFinite, FS_AddElement
<1>4. CASE e # PollEvent(d)
  <2>1. Reports(d, Append(s, e)) = Reports(d, s)
    BY <1>1, <1>4 DEF Reports
  <2> QED
    BY <1>4, <2>1
<1> QED
  BY <1>3, <1>4

LEMMA ReportsOfTail ==
    ASSUME NEW d, NEW s \in Seq(Events), s # <<>>
    PROVE  Cardinality(Reports(d, s)) =
             IF Head(s) = PollEvent(d) THEN Cardinality(Reports(d, Tail(s))) + 1
                                       ELSE Cardinality(Reports(d, Tail(s)))
<1> DEFINE R == Reports(d, s) \ {1}
           T == Reports(d, Tail(s))
           f == [i \in R |-> i - 1]
<1>1. /\ Tail(s) \in Seq(Events) /\ Len(s) \in Nat /\ Len(s) > 0
      /\ DOMAIN Tail(s) = 1 .. Len(s) - 1 /\ DOMAIN s = 1 .. Len(s)
      /\ \A i \in 1 .. Len(s) - 1 : Tail(s)[i] = s[i + 1]
      /\ Head(s) = s[1]
  OBVIOUS
<1>2. ASSUME NEW i \in R PROVE i - 1 \in T /\ i \in Int
  <2>1. i \in 2 .. Len(s) /\ s[i] = PollEvent(d)
    BY <1>1 DEF Reports
  <2>2. i - 1 \in 1 .. Len(s) - 1 /\ Tail(s)[i - 1] = s[(i - 1) + 1]
    BY <1>1, <2>1
  <2>3. (i - 1) + 1 = i
    BY <2>1
  <2> QED
    BY <1>1, <2>1, <2>2, <2>3 DEF Reports
<1>3. ASSUME NEW j \in T PROVE j + 1 \in R /\ j = (j + 1) - 1
  <2>1. j \in 1 .. Len(s) - 1 /\ s[j + 1] = PollEvent(d)
    BY <1>1 DEF Reports
  <2>2. j + 1 \in 1 .. Len(s) /\ j + 1 # 1
    BY <1>1, <2>1
  <2> QED
    BY <1>1, <2>1, <2>2 DEF Reports
<1>4. f \in Bijection(R, T)
  <2> HIDE DEF R, T
  <2>1. f \in [R -> T]
    BY <1>2
  <2>2. \A a, b \in R : f[a] = f[b] => a = b
    BY <1>2
  <2>3. \A j \in T : \E i \in R : f[i] = j
    BY <1>3
  <2> QED
    BY <2>1, <2>2, <2>3 DEF Bijection, Injection, Surjection, IsInjective
<1>5. IsFiniteSet(Reports(d, s)) /\ Cardinality(Reports(d, s)) \in Nat
  BY ReportsFinite
<1>6. IsFiniteSet(R) /\ Cardinality(R) =
        IF 1 \in Reports(d, s) THEN Cardinality(Reports(d, s)) - 1
                               ELSE Cardinality(Reports(d, s))
  BY <1>5, FS_RemoveElement
<1>7. Cardinality(T) = Cardinality(R)
  <2> HIDE DEF R, T, f
  <2>1. ExistsBijection(R, T)
    BY <1>4 DEF ExistsBijection
  <2> QED
    BY <1>6, <2>1, FS_Bijection
<1>8. 1 \in Reports(d, s) <=> Head(s) = PollEvent(d)
  BY <1>1 DEF Reports
<1> QED
  BY <1>5, <1>6, <1>7, <1>8

(* With w reports waiting: the driver's TRBs are the w from enqueue on; the *)
(* controller is behind them, on the driver's lap or one ahead.            *)
PollRingInv(p, w) ==
    /\ w <= PollTrbs
    /\ p.enqueue + w < PollTrbs => p.at = p.enqueue + w /\ p.ccs = p.link
    /\ p.enqueue + w >= PollTrbs => p.at = p.enqueue + w - PollTrbs /\ p.ccs = ~p.link
    /\ \A i \in 0 .. PollTrbs - 1 :
         p.trb[i] = (IF i < p.enqueue THEN ~p.link ELSE p.link)

PollInv ==
    panic = "none" =>
      \A d \in Polled : PollRingInv(poll[d], Cardinality(Reports(d, pending)))

LEMMA PollTyped ==
    ASSUME NEW p \in PollRings
    PROVE  /\ PollTrbs \in Nat /\ PollTrbs > 0
           /\ p.enqueue \in 0 .. PollTrbs - 1 /\ p.at \in 0 .. PollTrbs - 1
           /\ p.link \in BOOLEAN /\ p.ccs \in BOOLEAN
           /\ p.trb \in [0 .. PollTrbs - 1 -> BOOLEAN]
BY XhciAssumption DEF PollRings

(* A report uses the TRB the controller is at. *)
LEMMA ReportKeepsPollRing ==
    ASSUME NEW p \in PollRings, NEW w \in Nat, PollRingInv(p, w),
           p.trb[p.at] = p.ccs, NEW q \in PollRings,
           q.trb = p.trb, q.link = p.link, q.enqueue = p.enqueue,
           q.at = IF p.at = PollTrbs - 1 THEN 0 ELSE p.at + 1,
           q.ccs = IF p.at = PollTrbs - 1 THEN ~p.ccs ELSE p.ccs
    PROVE  PollRingInv(q, w + 1)
<1>1. /\ w <= PollTrbs
      /\ p.enqueue + w < PollTrbs => p.at = p.enqueue + w /\ p.ccs = p.link
      /\ p.enqueue + w >= PollTrbs => p.at = p.enqueue + w - PollTrbs /\ p.ccs = ~p.link
  BY DEF PollRingInv
<1>2. p.trb[p.at] = (IF p.at < p.enqueue THEN ~p.link ELSE p.link)
  BY PollTyped DEF PollRingInv
<1>3. w < PollTrbs
  <2> SUFFICES ASSUME w = PollTrbs PROVE FALSE
    BY <1>1, PollTyped
  <2>1. p.at = p.enqueue /\ p.ccs = ~p.link
    BY <1>1, PollTyped
  <2>2. p.trb[p.at] = p.link
    BY <1>2, <2>1, PollTyped
  <2> QED
    BY <2>1, <2>2, PollTyped
<1>4. \A i \in 0 .. PollTrbs - 1 :
        q.trb[i] = (IF i < q.enqueue THEN ~q.link ELSE q.link)
  BY DEF PollRingInv
<1>5. CASE p.enqueue + w < PollTrbs
  <2>1. p.at = p.enqueue + w /\ p.ccs = p.link
    BY <1>1, <1>5
  <2>2. CASE p.at = PollTrbs - 1
    <3>1. q.enqueue + (w + 1) = PollTrbs /\ q.at = 0
      BY <1>5, <2>1, <2>2, PollTyped
    <3>2. q.ccs = ~q.link
      BY <2>1, <2>2
    <3> QED
      BY <1>3, <1>4, <3>1, <3>2, PollTyped DEF PollRingInv
  <2>3. CASE p.at # PollTrbs - 1
    <3>1. q.enqueue + (w + 1) < PollTrbs /\ q.at = q.enqueue + (w + 1)
      BY <1>5, <2>1, <2>3, PollTyped
    <3>2. q.ccs = q.link
      BY <2>1, <2>3
    <3> QED
      BY <1>3, <1>4, <3>1, <3>2, PollTyped DEF PollRingInv
  <2> QED
    BY <2>2, <2>3
<1>6. CASE p.enqueue + w >= PollTrbs
  <2>1. p.at = p.enqueue + w - PollTrbs /\ p.ccs = ~p.link
    BY <1>1, <1>6
  <2>2. p.at # PollTrbs - 1
    BY <1>3, <2>1, PollTyped
  <2>3. q.enqueue + (w + 1) >= PollTrbs /\ q.at = q.enqueue + (w + 1) - PollTrbs
    BY <1>6, <2>1, <2>2, PollTyped
  <2>4. q.ccs = ~q.link
    BY <2>1, <2>2
  <2> QED
    BY <1>3, <1>4, <2>3, <2>4, PollTyped DEF PollRingInv
<1> QED
  BY <1>5, <1>6, PollTyped

(* The handler gives back the TRB of the oldest report. *)
LEMMA GivenBackKeepsPollRing ==
    ASSUME NEW p \in PollRings, NEW w \in Nat, PollRingInv(p, w + 1)
    PROVE  PollRingInv(GivenBack(p), w)
<1> DEFINE q == GivenBack(p)
<1>1. /\ w + 1 <= PollTrbs
      /\ p.enqueue + (w + 1) < PollTrbs => p.at = p.enqueue + (w + 1) /\ p.ccs = p.link
      /\ p.enqueue + (w + 1) >= PollTrbs =>
           p.at = p.enqueue + (w + 1) - PollTrbs /\ p.ccs = ~p.link
      /\ \A i \in 0 .. PollTrbs - 1 :
           p.trb[i] = (IF i < p.enqueue THEN ~p.link ELSE p.link)
  BY DEF PollRingInv
<1>2. q \in PollRings /\ q.at = p.at /\ q.ccs = p.ccs
  <2>1. q \in PollRings
    BY GivenBackShape
  <2>2. CASE p.enqueue = PollTrbs - 1
    BY <2>1, <2>2 DEF GivenBack, PollRings
  <2>3. CASE p.enqueue # PollTrbs - 1
    BY <2>1, <2>3 DEF GivenBack, PollRings
  <2> QED
    BY <2>1, <2>2, <2>3
<1>3. \A i \in 0 .. PollTrbs - 1 :
        q.trb[i] = IF i = p.enqueue THEN ~p.trb[i] ELSE p.trb[i]
  <2>1. q.trb = [p.trb EXCEPT ![p.enqueue] = ~@]
    <3>1. CASE p.enqueue = PollTrbs - 1
      BY <3>1 DEF GivenBack, PollRings
    <3>2. CASE p.enqueue # PollTrbs - 1
      BY <3>2 DEF GivenBack, PollRings
    <3> QED
      BY <3>1, <3>2
  <2> QED
    BY <2>1, PollTyped
<1>4. /\ p.enqueue = PollTrbs - 1 => q.enqueue = 0 /\ q.link = ~p.link
      /\ p.enqueue # PollTrbs - 1 => q.enqueue = p.enqueue + 1 /\ q.link = p.link
  <2>1. CASE p.enqueue = PollTrbs - 1
    BY <2>1 DEF GivenBack, PollRings
  <2>2. CASE p.enqueue # PollTrbs - 1
    BY <2>2 DEF GivenBack, PollRings
  <2> QED
    BY <2>1, <2>2
<1> HIDE DEF q
<1>5. CASE p.enqueue = PollTrbs - 1
  <2>1. q.enqueue = 0 /\ q.link = ~p.link
    BY <1>4, <1>5
  <2>2. p.at = w /\ p.ccs = ~p.link
    BY <1>1, <1>5, PollTyped
  <2>3. q.enqueue + w < PollTrbs /\ q.at = q.enqueue + w /\ q.ccs = q.link
    BY <1>1, <1>2, <2>1, <2>2, PollTyped
  <2>4. ASSUME NEW i \in 0 .. PollTrbs - 1 PROVE q.trb[i] = q.link /\ ~(i < q.enqueue)
    <3>1. p.trb[i] = (IF i < p.enqueue THEN ~p.link ELSE p.link)
      BY <1>1
    <3>2. q.trb[i] = IF i = p.enqueue THEN ~p.trb[i] ELSE p.trb[i]
      BY <1>3
    <3>3. CASE i = p.enqueue
      BY <2>1, <3>1, <3>2, <3>3, PollTyped
    <3>4. CASE i # p.enqueue
      <4>1. i < p.enqueue
        BY <1>5, <3>4, PollTyped
      <4> QED
        BY <2>1, <3>1, <3>2, <3>4, <4>1, PollTyped
    <3> QED
      BY <3>3, <3>4
  <2> QED
    BY <1>1, <1>2, <2>3, <2>4, PollTyped DEF PollRingInv, q
<1>6. CASE p.enqueue # PollTrbs - 1
  <2>1. q.enqueue = p.enqueue + 1 /\ q.link = p.link
    BY <1>4, <1>6
  <2>2. q.enqueue + w = p.enqueue + (w + 1)
    BY <2>1, PollTyped
  <2>3. /\ q.enqueue + w < PollTrbs => q.at = q.enqueue + w /\ q.ccs = q.link
        /\ q.enqueue + w >= PollTrbs => q.at = q.enqueue + w - PollTrbs /\ q.ccs = ~q.link
    <3>1. q.enqueue + w < PollTrbs => q.at = q.enqueue + w /\ q.ccs = q.link
      BY <1>1, <1>2, <2>1, <2>2
    <3>2. ASSUME q.enqueue + w >= PollTrbs
          PROVE  q.at = q.enqueue + w - PollTrbs /\ q.ccs = ~q.link
      <4>1. p.at = p.enqueue + (w + 1) - PollTrbs /\ p.ccs = ~p.link
        BY <1>1, <2>2, <3>2
      <4> QED
        BY <1>2, <2>1, <2>2, <4>1, PollTyped
    <3> QED
      BY <3>1, <3>2
  <2>4. ASSUME NEW i \in 0 .. PollTrbs - 1
        PROVE  q.trb[i] = (IF i < q.enqueue THEN ~q.link ELSE q.link)
    <3>1. p.trb[i] = (IF i < p.enqueue THEN ~p.link ELSE p.link)
      BY <1>1
    <3>2. q.trb[i] = IF i = p.enqueue THEN ~p.trb[i] ELSE p.trb[i]
      BY <1>3
    <3>3. CASE i = p.enqueue
      <4>1. i < q.enqueue /\ ~(i < p.enqueue)
        BY <2>1, <3>3, PollTyped
      <4> QED
        BY <2>1, <3>1, <3>2, <3>3, <4>1, PollTyped
    <3>4. CASE i # p.enqueue
      <4>1. i < q.enqueue <=> i < p.enqueue
        BY <2>1, <3>4, PollTyped
      <4> QED
        BY <2>1, <3>1, <3>2, <3>4, <4>1, PollTyped
    <3> QED
      BY <3>3, <3>4
  <2>5. w <= PollTrbs
    BY <1>1, PollTyped
  <2> QED
    BY <2>3, <2>4, <2>5 DEF PollRingInv, q
<1> QED
  BY <1>5, <1>6

LEMMA RemainderOneLap ==
    \A n \in Nat : \A a \in 0 .. 2 * n - 1 : a % n = IF a < n THEN a ELSE a - n
<1> SUFFICES ASSUME NEW n \in Nat, NEW a \in 0 .. 2 * n - 1
             PROVE  a % n = IF a < n THEN a ELSE a - n
  OBVIOUS
<1>1. CASE a < n
  BY <1>1
<1>2. CASE a >= n
  <2>1. a - n \in 0 .. n - 1
    BY <1>2
  <2>2. a % n = ((a - n) + n) % n
    BY <2>1
  <2> QED
    BY <1>2, <2>1, <2>2
<1> QED
  BY <1>1, <1>2

(* The TRBs of the waiting reports, by enqueue and at alone. *)
LEMMA UsedTrbs ==
    ASSUME NEW p \in PollRings, NEW w \in Nat, PollRingInv(p, w),
           NEW i \in 0 .. PollTrbs - 1
    PROVE  i \in {(p.enqueue + k) % PollTrbs : k \in 0 .. w - 1} <=>
             IF p.enqueue + w < PollTrbs
               THEN p.enqueue <= i /\ i < p.enqueue + w
               ELSE p.enqueue <= i \/ i < p.enqueue + w - PollTrbs
<1> DEFINE n == PollTrbs
           q == p.enqueue
<1>1. n \in Nat /\ n > 0 /\ q \in 0 .. n - 1 /\ w <= n /\ i \in 0 .. n - 1
  BY PollTyped DEF PollRingInv
<1> HIDE DEF n, q
<1>2. ASSUME NEW k \in 0 .. w - 1
      PROVE  (q + k) % n = IF q + k < n THEN q + k ELSE q + k - n
  <2>1. q + k \in 0 .. 2 * n - 1
    BY <1>1
  <2> QED
    BY <1>1, <2>1, RemainderOneLap
<1>3. ASSUME NEW k \in 0 .. w - 1, i = (q + k) % n
      PROVE  IF q + w < n THEN q <= i /\ i < q + w ELSE q <= i \/ i < q + w - n
  <2>1. i = IF q + k < n THEN q + k ELSE q + k - n
    BY <1>2, <1>3
  <2> QED
    BY <1>1, <2>1
<1>4. ASSUME IF q + w < n THEN q <= i /\ i < q + w ELSE q <= i \/ i < q + w - n
      PROVE  \E k \in 0 .. w - 1 : i = (q + k) % n
  <2>1. CASE q <= i
    <3>1. i - q \in 0 .. w - 1 /\ q + (i - q) = i
      BY <1>1, <1>4, <2>1
    <3>2. (q + (i - q)) % n = i
      BY <1>1, <1>2, <3>1
    <3> QED
      BY <3>1, <3>2
  <2>2. CASE i < q
    <3>1. (i + n) - q \in 0 .. w - 1 /\ q + ((i + n) - q) = i + n
      BY <1>1, <1>4, <2>2
    <3>2. (q + ((i + n) - q)) % n = i
      BY <1>1, <1>2, <3>1
    <3> QED
      BY <3>1, <3>2
  <2> QED
    BY <1>1, <2>1, <2>2
<1>5. i \in {(q + k) % n : k \in 0 .. w - 1} <=>
        IF q + w < n THEN q <= i /\ i < q + w ELSE q <= i \/ i < q + w - n
  BY <1>3, <1>4
<1> QED
  BY <1>5 DEF n, q

LEMMA PollRingOwned ==
    ASSUME NEW p \in PollRings, NEW w \in Nat, PollRingInv(p, w),
           NEW i \in 0 .. PollTrbs - 1
    PROVE  (p.trb[i] = (IF i >= p.at THEN p.ccs ELSE ~p.ccs)) =
             (i \notin {(p.enqueue + k) % PollTrbs : k \in 0 .. w - 1})
<1> DEFINE Used == {(p.enqueue + k) % PollTrbs : k \in 0 .. w - 1}
<1>1. p.trb[i] = (IF i < p.enqueue THEN ~p.link ELSE p.link)
  BY DEF PollRingInv
<1>2. CASE p.enqueue + w < PollTrbs
  <2>1. p.at = p.enqueue + w /\ p.ccs = p.link
    BY <1>2 DEF PollRingInv
  <2>2. i \in Used <=> p.enqueue <= i /\ i < p.at
    BY <1>2, <2>1, UsedTrbs
  <2> HIDE DEF Used
  <2>3. CASE i < p.enqueue
    <3>1. i \notin Used /\ ~(i >= p.at)
      BY <2>1, <2>2, <2>3, PollTyped
    <3>2. p.trb[i] = ~p.ccs
      BY <1>1, <2>1, <2>3
    <3> QED
      BY <3>1, <3>2 DEF Used
  <2>4. CASE p.enqueue <= i /\ i < p.at
    <3>1. i \in Used /\ ~(i >= p.at) /\ ~(i < p.enqueue)
      BY <2>2, <2>4, PollTyped
    <3>2. p.trb[i] = p.ccs
      BY <1>1, <2>1, <3>1
    <3>3. (p.trb[i] = ~p.ccs) = FALSE
      BY <3>2, PollTyped
    <3> QED
      BY <3>1, <3>3 DEF Used
  <2>5. CASE i >= p.at
    <3>1. i \notin Used /\ ~(i < p.enqueue)
      BY <2>1, <2>2, <2>5, PollTyped
    <3>2. p.trb[i] = p.ccs
      BY <1>1, <2>1, <3>1
    <3> QED
      BY <2>5, <3>1, <3>2 DEF Used
  <2> QED
    BY <2>1, <2>3, <2>4, <2>5, PollTyped
<1>3. CASE p.enqueue + w >= PollTrbs
  <2>1. p.at = p.enqueue + w - PollTrbs /\ p.ccs = ~p.link /\ p.at <= p.enqueue
    BY <1>3, PollTyped DEF PollRingInv
  <2>2. i \in Used <=> p.enqueue <= i \/ i < p.at
    BY <1>3, <2>1, UsedTrbs, PollTyped
  <2> HIDE DEF Used
  <2>3. CASE i < p.at
    <3>1. i \in Used /\ i < p.enqueue /\ ~(i >= p.at)
      BY <2>1, <2>2, <2>3, PollTyped
    <3>2. p.trb[i] = p.ccs
      BY <1>1, <2>1, <3>1
    <3>3. (p.trb[i] = ~p.ccs) = FALSE
      BY <3>2, PollTyped
    <3> QED
      BY <3>1, <3>3 DEF Used
  <2>4. CASE i >= p.at /\ i < p.enqueue
    <3>1. i \notin Used
      BY <2>2, <2>4, PollTyped
    <3>2. p.trb[i] = p.ccs
      BY <1>1, <2>1, <2>4
    <3> QED
      BY <2>4, <3>1, <3>2 DEF Used
  <2>5. CASE i >= p.enqueue
    <3>1. i \in Used /\ ~(i < p.enqueue) /\ i >= p.at
      BY <2>1, <2>2, <2>5, PollTyped
    <3>2. p.trb[i] = p.link
      BY <1>1, <3>1
    <3>3. (p.trb[i] = p.ccs) = FALSE
      BY <2>1, <3>2, PollTyped
    <3> QED
      BY <3>1, <3>3 DEF Used
  <2> QED
    BY <2>3, <2>4, <2>5, PollTyped
<1> QED
  BY <1>2, <1>3, PollTyped

LEMMA PollInvMeans ==
    ASSUME Shape, PollInv
    PROVE  PollRingExact
<1> SUFFICES ASSUME NEW d \in Polled, panic = "none"
             PROVE  LET p == poll[d]
                        waiting == Cardinality({i \in DOMAIN pending :
                                     pending[i] = [type |-> "poll", id |-> d]})
                        used == {(p.enqueue + i) % PollTrbs : i \in 0 .. waiting - 1}
                        Owned(i) == p.trb[i] = (IF i >= p.at THEN p.ccs ELSE ~p.ccs)
                    IN /\ waiting <= PollTrbs
                       /\ \A i \in 0 .. PollTrbs - 1 : Owned(i) = (i \notin used)
                       /\ (p.enqueue + waiting) % PollTrbs = p.at
                       /\ (p.link = p.ccs) = (p.enqueue + waiting < PollTrbs)
  BY DEF PollRingExact
<1> DEFINE p == poll[d]
           w == Cardinality(Reports(d, pending))
<1>1. p \in PollRings /\ w \in Nat /\ PollRingInv(p, w)
  BY ReportsFinite DEF Shape, PollInv
<1>2. w = Cardinality({i \in DOMAIN pending : pending[i] = [type |-> "poll", id |-> d]})
  BY DEF Reports, PollEvent
<1> HIDE DEF p, w
<1>3. \A i \in 0 .. PollTrbs - 1 :
        (p.trb[i] = (IF i >= p.at THEN p.ccs ELSE ~p.ccs)) =
          (i \notin {(p.enqueue + k) % PollTrbs : k \in 0 .. w - 1})
  BY <1>1, PollRingOwned
<1>4. w <= PollTrbs
  BY <1>1 DEF PollRingInv
<1>5. (p.enqueue + w) % PollTrbs = p.at
  <2>1. p.enqueue + w \in 0 .. 2 * PollTrbs - 1
    BY <1>1, <1>4, PollTyped
  <2> DEFINE a == p.enqueue + w
  <2>2. PollTrbs \in Nat /\ a \in 0 .. 2 * PollTrbs - 1
    BY <2>1, XhciAssumption
  <2>3. p.at = IF a < PollTrbs THEN a ELSE a - PollTrbs
    BY <1>1, PollTyped DEF PollRingInv
  <2> HIDE DEF a
  <2>4. a % PollTrbs = IF a < PollTrbs THEN a ELSE a - PollTrbs
    BY <2>2, RemainderOneLap
  <2>5. a % PollTrbs = p.at
    BY <2>3, <2>4
  <2> QED
    BY <2>5, Zenon DEF a
<1>6. (p.link = p.ccs) = (p.enqueue + w < PollTrbs)
  <2>1. CASE p.enqueue + w < PollTrbs
    BY <1>1, <2>1 DEF PollRingInv
  <2>2. CASE p.enqueue + w >= PollTrbs
    <3>1. p.ccs = ~p.link
      BY <1>1, <2>2 DEF PollRingInv
    <3>2. (p.link = p.ccs) = FALSE
      BY <1>1, <3>1, PollTyped
    <3>3. (p.enqueue + w < PollTrbs) = FALSE
      BY <1>1, <2>2, PollTyped
    <3> QED
      BY <3>2, <3>3
  <2> QED
    BY <1>1, <2>1, <2>2, PollTyped
<1> QED
  BY <1>2, <1>3, <1>4, <1>5, <1>6 DEF p

LEMMA PollInvAtBoot == Init => PollInv
<1> SUFFICES ASSUME Init, NEW d \in Polled
             PROVE  PollRingInv(poll[d], Cardinality(Reports(d, pending)))
  BY DEF PollInv
<1> DEFINE p == poll[d]
<1>1. Cardinality(Reports(d, pending)) = 0
  <2>1. Reports(d, pending) = {}
    BY DEF Init, Reports
  <2> QED
    BY <2>1, FS_EmptySet
<1>2. p = [trb |-> [i \in 0 .. PollTrbs - 1 |-> TRUE], link |-> TRUE,
            enqueue |-> 0, at |-> 0, ccs |-> TRUE]
  BY DEF Init
<1> HIDE DEF p
<1>3. p.enqueue = 0 /\ p.at = 0 /\ p.ccs = p.link
  BY <1>2
<1>4. ASSUME NEW i \in 0 .. PollTrbs - 1 PROVE p.trb[i] = p.link /\ ~(i < p.enqueue)
  <2>1. p.trb[i] = p.link
    BY <1>2
  <2>2. ~(i < p.enqueue)
    BY <1>3
  <2> QED
    BY <2>1, <2>2
<1>5. p.enqueue + 0 < PollTrbs /\ 0 <= PollTrbs /\ ~(p.enqueue + 0 >= PollTrbs)
      /\ p.at = p.enqueue + 0
  BY <1>3, XhciAssumption
<1>6. PollRingInv(p, 0)
  BY <1>3, <1>4, <1>5 DEF PollRingInv
<1> QED
  BY <1>1, <1>6 DEF p

LEMMA ThreadKeepsPollInv ==
    ASSUME Shape, PollInv, UNCHANGED <<poll, panic, pending>>
    PROVE  PollInv'
BY DEF PollInv, PollRingInv, Reports

LEMMA ControllerKeepsPollInv ==
    ASSUME Shape, PollInv, Controller
    PROVE  PollInv'
<1>1. PICK e \in Events : e.type # "poll" /\ Posted(e)
  BY ControllerPosts
<1>2. UNCHANGED <<poll, panic>> /\ pending' = Append(pending, e)
  BY <1>1, ControllerPosts DEF Posted
<1>3. ASSUME NEW d \in Polled
      PROVE  Cardinality(Reports(d, pending')) = Cardinality(Reports(d, pending))
  <2>1. e # PollEvent(d)
    BY <1>1 DEF PollEvent
  <2> QED
    BY <1>2, <2>1, ReportsAppended DEF Shape
<1> QED
  BY <1>2, <1>3 DEF PollInv, PollRingInv

LEMMA ReportStep ==
    ASSUME Shape, Report
    PROVE  \E d \in Devices :
             /\ poll[d].trb[poll[d].at] = poll[d].ccs
             /\ poll' = [poll EXCEPT ![d].at = (@ + 1) % PollTrbs,
                                     ![d].ccs = IF poll[d].at = PollTrbs - 1 THEN ~@ ELSE @]
             /\ PollEvent(d) \in Events /\ Posted(PollEvent(d))
             /\ panic' = panic
<1>1. PICK d \in hc.configured :
        /\ poll[d].trb[poll[d].at] = poll[d].ccs
        /\ poll' = [poll EXCEPT ![d].at = (@ + 1) % PollTrbs,
                                ![d].ccs = IF poll[d].at = PollTrbs - 1 THEN ~@ ELSE @]
        /\ Post(PollEvent(d), hc)
  BY DEF Report, PollEvent
<1>2. d \in Devices /\ hc \in Controllers
  BY DEF Shape, Controllers
<1>3. d \in Nat
  BY <1>2, XhciAssumption DEF Devices
<1>4. PollEvent(d) \in Events
  BY <1>3 DEF PollEvent, Events
<1>5. CanPost /\ drv' = drv /\ panic' = panic
  BY DEF Report
<1>6. Posted(PollEvent(d))
  BY <1>1, <1>2, <1>5, PostIsPosted
<1> QED
  BY <1>1, <1>2, <1>4, <1>5, <1>6

LEMMA ReportKeepsPollInv ==
    ASSUME Shape, PollInv, Shape', Report
    PROVE  PollInv'
<1>1. PICK r \in Devices :
        /\ poll[r].trb[poll[r].at] = poll[r].ccs
        /\ poll' = [poll EXCEPT ![r].at = (@ + 1) % PollTrbs,
                                ![r].ccs = IF poll[r].at = PollTrbs - 1 THEN ~@ ELSE @]
        /\ PollEvent(r) \in Events /\ Posted(PollEvent(r))
        /\ panic' = panic
  BY ReportStep
<1>2. pending' = Append(pending, PollEvent(r)) /\ pending \in Seq(Events)
  BY <1>1 DEF Posted, Shape
<1>3. poll \in [Polled -> PollRings] /\ poll' \in [Polled -> PollRings]
  BY DEF Shape
<1> SUFFICES ASSUME NEW d \in Polled, panic = "none"
             PROVE  PollRingInv(poll'[d], Cardinality(Reports(d, pending')))
  BY <1>1 DEF PollInv
<1>4. PollRingInv(poll[d], Cardinality(Reports(d, pending)))
  BY DEF PollInv
<1>5. CASE d # r
  <2>1. PollEvent(r) # PollEvent(d)
    BY <1>5 DEF PollEvent
  <2>2. Cardinality(Reports(d, pending')) = Cardinality(Reports(d, pending))
    BY <1>1, <1>2, <2>1, ReportsAppended
  <2>3. poll'[d] = poll[d]
    BY <1>1, <1>3, <1>5
  <2> QED
    BY <1>4, <2>2, <2>3
<1>6. CASE d = r
  <2> DEFINE p == poll[d]
             q == poll'[d]
             w == Cardinality(Reports(d, pending))
  <2>1. p \in PollRings /\ q \in PollRings /\ w \in Nat
    BY <1>2, <1>3, ReportsFinite
  <2>2. Cardinality(Reports(d, pending')) = w + 1
    BY <1>1, <1>2, <1>6, ReportsAppended
  <2>3. /\ q.trb = p.trb /\ q.link = p.link /\ q.enqueue = p.enqueue
        /\ q.at = (p.at + 1) % PollTrbs
        /\ q.ccs = IF p.at = PollTrbs - 1 THEN ~p.ccs ELSE p.ccs
    BY <1>1, <1>3, <1>6, <2>1 DEF PollRings
  <2>4. (p.at + 1) % PollTrbs = IF p.at = PollTrbs - 1 THEN 0 ELSE p.at + 1
    <3> DEFINE a == p.at
    <3>1. PollTrbs \in Nat /\ PollTrbs > 0 /\ a \in 0 .. PollTrbs - 1
      BY <2>1, PollTyped
    <3> HIDE DEF a
    <3>2. a + 1 \in 0 .. 2 * PollTrbs - 1
      BY <3>1
    <3>3. (a + 1) % PollTrbs = IF a + 1 < PollTrbs THEN a + 1 ELSE a + 1 - PollTrbs
      BY <3>1, <3>2, RemainderOneLap
    <3>4. (a + 1) % PollTrbs = IF a = PollTrbs - 1 THEN 0 ELSE a + 1
      BY <3>1, <3>3
    <3> QED
      BY <3>4 DEF a
  <2>5. q.at = IF p.at = PollTrbs - 1 THEN 0 ELSE p.at + 1
    BY <2>3, <2>4
  <2>6. PollRingInv(p, w) /\ p.trb[p.at] = p.ccs
    BY <1>1, <1>4, <1>6
  <2> HIDE DEF p, q, w
  <2>7. PollRingInv(q, w + 1)
    BY <2>1, <2>3, <2>5, <2>6, ReportKeepsPollRing
  <2> QED
    BY <2>2, <2>7 DEF q
<1> QED
  BY <1>5, <1>6

LEMMA HandlerKeepsPollInv ==
    ASSUME Shape, PollInv, EventsExact, Handler, panic' = "none"
    PROVE  PollInv'
<1>1. panic = "none"
  BY DEF Handler, Interrupt, HandleCallback, HandleControl, HandlePoll, InterruptEnds, Handling
<1>2. pending \in Seq(Events) /\ poll \in [Polled -> PollRings]
  BY DEF Shape
<1>3. HasEvent => pending # <<>> /\ Event = Head(pending)
  BY <1>1 DEF EventsExact
<1>4. \A d \in Polled : PollRingInv(poll[d], Cardinality(Reports(d, pending)))
  BY <1>1 DEF PollInv
<1>5. CASE Interrupt \/ InterruptEnds
  BY <1>4, <1>5, ThreadKeepsPollInv DEF Interrupt, InterruptEnds
<1>6. CASE HandleCallback \/ HandleControl
  <2>1. HasEvent /\ Event.type # "poll" /\ pending' = Tail(pending) /\ poll' = poll
    BY <1>6 DEF HandleCallback, HandleControl, Handling
  <2>2. ASSUME NEW d \in Polled
        PROVE  Cardinality(Reports(d, pending')) = Cardinality(Reports(d, pending))
    <3>1. Head(pending) # PollEvent(d)
      BY <1>3, <2>1 DEF PollEvent
    <3> QED
      BY <1>2, <1>3, <2>1, <3>1, ReportsOfTail
  <2> QED
    BY <1>4, <2>1, <2>2 DEF PollInv
<1>7. CASE HandlePoll
  <2>1. /\ HasEvent /\ Event.type = "poll" /\ pending' = Tail(pending)
        /\ poll' = [poll EXCEPT ![Event.id] = GivenBack(@)]
    BY <1>7 DEF HandlePoll, Handling
  <2>2. Event \in Events
    BY DEF Shape, Drivers, Event
  <2>3. Event = PollEvent(Event.id)
    BY <2>1, <2>2 DEF Events, PollEvent
  <2> SUFFICES ASSUME NEW d \in Polled
               PROVE  PollRingInv(poll'[d], Cardinality(Reports(d, pending')))
    BY DEF PollInv
  <2>4. CASE d # Event.id
    <3>1. Head(pending) # PollEvent(d)
      BY <1>3, <2>1, <2>3, <2>4 DEF PollEvent
    <3>2. Cardinality(Reports(d, pending')) = Cardinality(Reports(d, pending))
      BY <1>2, <1>3, <2>1, <3>1, ReportsOfTail
    <3>3. poll'[d] = poll[d]
      BY <1>2, <2>1, <2>4
    <3> QED
      BY <1>4, <3>2, <3>3
  <2>5. CASE d = Event.id
    <3>1. Head(pending) = PollEvent(d)
      BY <1>3, <2>1, <2>3, <2>5
    <3>2. /\ Cardinality(Reports(d, pending)) = Cardinality(Reports(d, pending')) + 1
          /\ pending' \in Seq(Events)
      BY <1>2, <1>3, <2>1, <3>1, ReportsOfTail
    <3>3. poll'[d] = GivenBack(poll[d])
      BY <1>2, <2>1, <2>5
    <3>4. Cardinality(Reports(d, pending')) \in Nat /\ poll[d] \in PollRings
      BY <1>2, <3>2, ReportsFinite
    <3>5. PollRingInv(poll[d], Cardinality(Reports(d, pending')) + 1)
      BY <1>4, <3>2
    <3> QED
      BY <3>3, <3>4, <3>5, GivenBackKeepsPollRing
  <2> QED
    BY <2>4, <2>5
<1> QED
  BY <1>5, <1>6, <1>7 DEF Handler
-----------------------------------------------------------------------------
RingsInv == Shape /\ RingInv /\ PollInv

LEMMA RingsInvKept == RingsInv /\ [Next]_vars => RingsInv'
<1> SUFFICES ASSUME Shape, RingInv, PollInv, [Next]_vars
             PROVE  RingsInv'
  BY DEF RingsInv
<1>1. EventsExact
  BY RingInvMeans
<1>2. Shape'
  BY <1>1, ShapeKept DEF EventsExact
<1>3. CASE Thread
  <2>1. RingKept /\ UNCHANGED <<poll, panic, pending>>
    BY <1>3, ThreadKeepsRing DEF RingKept
  <2> QED
    BY <1>2, <2>1, KeptKeepsRingInv, ThreadKeepsPollInv DEF RingsInv
<1>4. CASE Handler
  <2>1. CASE panic' # "none"
    BY <1>2, <2>1 DEF RingsInv, RingInv, PollInv
  <2>2. CASE panic' = "none"
    <3>1. panic = "none"
      BY <1>4 DEF Handler, Interrupt, HandleCallback, HandleControl, HandlePoll,
                  InterruptEnds, Handling
    <3>2. RingInv'
      BY <1>4, <2>2, <3>1, HandlerTakes, KeptKeepsRingInv, TakenKeepsRingInv, ToldKeepsRingInv
    <3>3. PollInv'
      BY <1>1, <1>4, <2>2, HandlerKeepsPollInv
    <3> QED
      BY <1>2, <3>2, <3>3 DEF RingsInv
  <2> QED
    BY <2>1, <2>2
<1>5. CASE Controller
  <2>1. PICK e \in Events : Posted(e)
    BY <1>5, ControllerPosts
  <2>2. panic' = panic
    BY <1>5, ControllerPosts
  <2>3. RingInv'
    <3>1. CASE panic = "none"
      BY <2>1, <3>1, PostedKeepsRingInv
    <3>2. CASE panic # "none"
      BY <2>2, <3>2 DEF RingInv
    <3> QED
      BY <3>1, <3>2
  <2>4. PollInv'
    BY <1>5, ControllerKeepsPollInv
  <2> QED
    BY <1>2, <2>3, <2>4 DEF RingsInv
<1>6. CASE Report
  <2>1. PICK e \in Events : Posted(e) /\ panic' = panic
    BY <1>6, ReportStep
  <2>2. RingInv'
    <3>1. CASE panic = "none"
      BY <2>1, <3>1, PostedKeepsRingInv
    <3>2. CASE panic # "none"
      BY <2>1, <3>2 DEF RingInv
    <3> QED
      BY <3>1, <3>2
  <2>3. PollInv'
    BY <1>2, <1>6, ReportKeepsPollInv
  <2> QED
    BY <1>2, <2>2, <2>3 DEF RingsInv
<1>7. CASE TimesOut
  BY <1>2, <1>7 DEF TimesOut, RingsInv, RingInv, PollInv
<1>8. CASE UNCHANGED vars
  <2>1. RingKept /\ UNCHANGED <<poll, panic, pending>>
    BY <1>8 DEF vars, RingKept
  <2> QED
    BY <1>2, <2>1, KeptKeepsRingInv, ThreadKeepsPollInv DEF RingsInv
<1> QED
  BY <1>3, <1>4, <1>5, <1>6, <1>7, <1>8 DEF Next

(* The event ring and the rings of the interrupt endpoints lose, repeat    *)
(* and reorder nothing, however long the rings are and however often they  *)
(* wrap (consume_events, xhci_interrupt0, the TRBs given back there).      *)
THEOREM RingsKeepOrder == Spec => []XhciRingsExact
<1>1. Init => RingsInv
  BY ShapeHoldsAtBoot, RingInvAtBoot, PollInvAtBoot DEF RingsInv
<1>2. RingsInv => XhciRingsExact
  BY RingInvMeans, PollInvMeans DEF RingsInv, XhciRingsExact
<1> QED
  BY <1>1, <1>2, RingsInvKept, PTL DEF Spec

-----------------------------------------------------------------------------
(***************************************************************************)
(* Slots.                                                                  *)
(***************************************************************************)
LEMMA ScriptStep ==
    /\ \A d \in Devices : \A k \in 0 .. 8 :
         /\ StepOf(d, k) \in 1 .. 9 * NumDevices
         /\ Script[StepOf(d, k)] = [op |-> FirstSteps[k + 1], dev |-> d]
    /\ \A i \in DOMAIN Script : i > 9 * NumDevices => Script[i].op \in LaterOps
<1> DEFINE f == ForEach(AllDevices, FirstSteps)
<1>1. PICK rest \in Seq([op : LaterOps, dev : Devices]) :
        Script = f \o rest /\ f \in Seq(Steps) /\ Len(f) = 9 * NumDevices
  BY ScriptParts
<1>2. ASSUME NEW d \in Devices, NEW k \in 0 .. 8
      PROVE  /\ StepOf(d, k) \in 1 .. 9 * NumDevices
             /\ f[StepOf(d, k)] = [op |-> FirstSteps[k + 1], dev |-> d]
  BY FirstPart
<1> HIDE DEF f
<1>3. \A i \in 1 .. Len(f) : Script[i] = f[i]
  BY <1>1
<1>4. ASSUME NEW i \in DOMAIN Script, i > Len(f)
      PROVE  Script[i].op \in LaterOps
  <2>1. i - Len(f) \in 1 .. Len(rest) /\ Script[i] = rest[i - Len(f)]
    BY <1>1, <1>4
  <2>2. rest[i - Len(f)] \in [op : LaterOps, dev : Devices]
    <3> DEFINE L == [op : LaterOps, dev : Devices]
    <3> HIDE DEF L
    <3>1. \A r \in Seq(L) : \A j \in 1 .. Len(r) : r[j] \in L
      OBVIOUS
    <3> QED
      BY <2>1, <3>1 DEF L
  <2> QED
    BY <2>1, <2>2
<1> QED
  BY <1>1, <1>2, <1>3, <1>4

LEMMA FirstStepNames ==
    ASSUME NEW k \in 0 .. 8
    PROVE  /\ FirstSteps[k + 1] = "reset" <=> k = 0
           /\ FirstSteps[k + 1] = "isReset" <=> k = 1
           /\ FirstSteps[k + 1] = "wait" <=> k \in {2, 4, 7}
           /\ FirstSteps[k + 1] = "enableSlot" <=> k = 3
           /\ FirstSteps[k + 1] = "slotEnabled" <=> k = 5
           /\ FirstSteps[k + 1] = "addressDevice" <=> k = 6
           /\ FirstSteps[k + 1] = "addressed" <=> k = 8
           /\ FirstSteps[k + 1] \notin LaterOps \ {"wait"}
<1> DEFINE f == FirstSteps[k + 1]
<1>1. k \in {0, 1, 2, 3, 4, 5, 6, 7, 8}
  OBVIOUS
<1>2. /\ FirstSteps[1] = "reset" /\ FirstSteps[2] = "isReset" /\ FirstSteps[3] = "wait"
      /\ FirstSteps[4] = "enableSlot" /\ FirstSteps[5] = "wait"
      /\ FirstSteps[6] = "slotEnabled" /\ FirstSteps[7] = "addressDevice"
      /\ FirstSteps[8] = "wait" /\ FirstSteps[9] = "addressed"
  BY DEF FirstSteps
<1> HIDE DEF f
<1> SUFFICES /\ f = "reset" <=> k = 0
             /\ f = "isReset" <=> k = 1
             /\ f = "wait" <=> k \in {2, 4, 7}
             /\ f = "enableSlot" <=> k = 3
             /\ f = "slotEnabled" <=> k = 5
             /\ f = "addressDevice" <=> k = 6
             /\ f = "addressed" <=> k = 8
             /\ f \notin LaterOps \ {"wait"}
  BY DEF f
<1>3. CASE k = 0
  <2>1. f = "reset"
    <3>1. k + 1 = 1
      BY <1>3
    <3> QED
      BY <1>2, <3>1 DEF f
  <2> QED
    BY <1>3, <2>1 DEF LaterOps
<1>4. CASE k = 1
  <2>1. f = "isReset"
    <3>1. k + 1 = 2
      BY <1>4
    <3> QED
      BY <1>2, <3>1 DEF f
  <2> QED
    BY <1>4, <2>1 DEF LaterOps
<1>5. CASE k = 2
  <2>1. f = "wait"
    <3>1. k + 1 = 3
      BY <1>5
    <3> QED
      BY <1>2, <3>1 DEF f
  <2> QED
    BY <1>5, <2>1 DEF LaterOps
<1>6. CASE k = 3
  <2>1. f = "enableSlot"
    <3>1. k + 1 = 4
      BY <1>6
    <3> QED
      BY <1>2, <3>1 DEF f
  <2> QED
    BY <1>6, <2>1 DEF LaterOps
<1>7. CASE k = 4
  <2>1. f = "wait"
    <3>1. k + 1 = 5
      BY <1>7
    <3> QED
      BY <1>2, <3>1 DEF f
  <2> QED
    BY <1>7, <2>1 DEF LaterOps
<1>8. CASE k = 5
  <2>1. f = "slotEnabled"
    <3>1. k + 1 = 6
      BY <1>8
    <3> QED
      BY <1>2, <3>1 DEF f
  <2> QED
    BY <1>8, <2>1 DEF LaterOps
<1>9. CASE k = 6
  <2>1. f = "addressDevice"
    <3>1. k + 1 = 7
      BY <1>9
    <3> QED
      BY <1>2, <3>1 DEF f
  <2> QED
    BY <1>9, <2>1 DEF LaterOps
<1>10. CASE k = 7
  <2>1. f = "wait"
    <3>1. k + 1 = 8
      BY <1>10
    <3> QED
      BY <1>2, <3>1 DEF f
  <2> QED
    BY <1>10, <2>1 DEF LaterOps
<1>11. CASE k = 8
  <2>1. f = "addressed"
    <3>1. k + 1 = 9
      BY <1>11
    <3> QED
      BY <1>2, <3>1 DEF f
  <2> QED
    BY <1>11, <2>1 DEF LaterOps
<1> QED
  BY <1>1, <1>3, <1>4, <1>5, <1>6, <1>7, <1>8, <1>9, <1>10, <1>11

(* Between two requests; a request made; its event posted or handled. *)
Idle ==
    /\ hc.resetting = 0 /\ hc.commands = <<>>
    /\ pending = <<>> /\ ~drv.got_events

Asked(type, d) ==
    /\ hc.resetting = 0
    /\ hc.commands = <<[type |-> type, dev |-> d, slot |-> dev[d].slot]>>
    /\ pending = <<>> /\ ~drv.got_events

Resetting ==
    /\ hc.resetting # 0 /\ hc.commands = <<>>
    /\ pending = <<>> /\ ~drv.got_events

Answered(e) ==
    /\ hc.resetting = 0 /\ hc.commands = <<>>
    /\ \/ pending = <<e>> /\ ~drv.got_events
       \/ pending = <<>> /\ drv.got_events

SlotEvent(d) == [type |-> "command", id |-> d]

(* Before step k for device d: one request is under way at most, and the   *)
(* slots enabled so far have the numbers of their devices.                 *)
Stage(d, k) ==
    /\ k \in {0, 3, 5, 6, 8} => Idle
    /\ k \in {0, 1, 2, 3, 6} => drv.callback = "none"
    /\ k \in {4, 5} => drv.callback = "enable"
    /\ k \in {7, 8} => drv.callback = "address"
    /\ k < 4 => Len(hc.owner) = d - 1
    /\ k > 4 => Len(hc.owner) = d
    /\ k > 5 => dev[d].slot = d
    /\ k = 1 => Resetting \/ Answered(PortEvent)
    /\ k = 2 => Answered(PortEvent)
    /\ k = 4 => \/ Asked("EnableSlot", d) /\ Len(hc.owner) = d - 1
                \/ /\ Answered(SlotEvent(d)) /\ Len(hc.owner) = d
                   /\ drv.got_events => drv.slot_index = d
    /\ k = 5 => drv.slot_index = d
    /\ k = 7 => \/ Asked("AddressDevice", d)
                \/ Answered(SlotEvent(d)) /\ d \in hc.addressed
    /\ k = 8 => d \in hc.addressed

(* Nothing but the script's requests is under way. *)
Alone ==
    /\ hc.transfers = {} /\ hc.configured = {}
    /\ \A i \in DOMAIN hc.owner : hc.owner[i] = i

InFirstPart == panic = "none" /\ drv.pc <= 9 * NumDevices

OwnSlot(d) ==
    /\ dev[d].slot # 0 => dev[d].slot \in DOMAIN hc.owner /\ hc.owner[dev[d].slot] = d
    /\ dev[d].address # "garbage"

SlotInv ==
    quiet =>
      /\ \A d \in Devices : OwnSlot(d)
      /\ hc.connects = {}
      /\ InFirstPart =>
           /\ Alone
           /\ \E d \in Devices : \E k \in 0 .. 8 : drv.pc = StepOf(d, k) /\ Stage(d, k)

LEMMA SlotInvAtBoot == Init => SlotInv
<1> SUFFICES ASSUME Init, quiet PROVE SlotInv
  BY DEF SlotInv
<1>1. \A d \in Devices : OwnSlot(d)
  BY DEF Init, OwnSlot
<1>2. /\ hc.connects = {} /\ hc.transfers = {} /\ hc.configured = {}
      /\ hc.owner = <<>> /\ hc.resetting = 0 /\ hc.commands = <<>>
  BY DEF Init
<1>3. Alone
  BY <1>2 DEF Alone
<1>4. drv.pc = 1 /\ drv.callback = "none" /\ ~drv.got_events /\ pending = <<>>
  BY DEF Init
<1>5. ASSUME drv.pc <= 9 * NumDevices
      PROVE  1 \in Devices /\ drv.pc = StepOf(1, 0) /\ Stage(1, 0)
  <2>1. 1 \in Devices
    BY <1>4, <1>5, XhciAssumption DEF Devices
  <2>2. drv.pc = StepOf(1, 0)
    BY <1>4 DEF StepOf
  <2>3. Idle /\ Len(hc.owner) = 1 - 1
    BY <1>2, <1>4 DEF Idle
  <2>4. Stage(1, 0)
    BY <1>4, <2>3 DEF Stage
  <2> QED
    BY <2>1, <2>2, <2>4
<1> QED
  BY <1>1, <1>2, <1>3, <1>5 DEF SlotInv, InFirstPart

(* What every step but SlotEnabled and Addressed leaves of a device. *)
SlotsKept ==
    \A d \in Devices : dev'[d].slot = dev[d].slot /\ dev'[d].address = dev[d].address

OwnersKept ==
    /\ DOMAIN hc.owner \subseteq DOMAIN hc'.owner
    /\ \A i \in DOMAIN hc.owner : hc'.owner[i] = hc.owner[i]

LEMMA KeptSlotsOwn ==
    ASSUME SlotsKept, OwnersKept, NEW d \in Devices, OwnSlot(d)
    PROVE  OwnSlot(d)'
BY DEF SlotsKept, OwnersKept, OwnSlot

(* Steps that touch nothing Stage speaks of. *)
LEMMA StageKept ==
    ASSUME SlotInv, quiet' = quiet, panic' = panic, pending' = pending, dev' = dev,
           drv'.pc = drv.pc, drv'.callback = drv.callback, drv'.slot_index = drv.slot_index,
           drv'.got_events = drv.got_events,
           hc'.commands = hc.commands, hc'.resetting = hc.resetting,
           hc'.connects = hc.connects, hc'.transfers = hc.transfers,
           hc'.configured = hc.configured, hc'.owner = hc.owner,
           hc'.addressed = hc.addressed
    PROVE  SlotInv'
<1> SUFFICES ASSUME quiet PROVE SlotInv'
  BY DEF SlotInv
<1>1. SlotsKept /\ OwnersKept
  BY DEF SlotsKept, OwnersKept
<1>2. \A d \in Devices : OwnSlot(d)'
  BY <1>1, KeptSlotsOwn DEF SlotInv
<1>3. hc'.connects = {}
  BY DEF SlotInv
<1>4. ASSUME InFirstPart'
      PROVE  /\ Alone'
             /\ \E d \in Devices : \E k \in 0 .. 8 : drv'.pc = StepOf(d, k) /\ Stage(d, k)'
  <2>1. InFirstPart
    BY <1>4 DEF InFirstPart
  <2>2. Alone
    BY <2>1 DEF SlotInv
  <2>3. PICK d \in Devices : \E k \in 0 .. 8 : drv.pc = StepOf(d, k) /\ Stage(d, k)
    BY <2>1 DEF SlotInv
  <2>4. PICK k \in 0 .. 8 : drv.pc = StepOf(d, k) /\ Stage(d, k)
    BY <2>3
  <2>5. Stage(d, k)'
    BY <2>4 DEF Stage, Idle, Asked, Resetting, Answered
  <2> QED
    BY <2>2, <2>4, <2>5 DEF Alone
<1> QED
  BY <1>2, <1>3, <1>4 DEF SlotInv

LEMMA NextPlace ==
    ASSUME NEW d \in Devices, NEW k \in 0 .. 8
    PROVE  /\ k # 8 => k + 1 \in 0 .. 8 /\ StepOf(d, k) + 1 = StepOf(d, k + 1)
           /\ k = 8 /\ d # NumDevices => d + 1 \in Devices /\ StepOf(d, k) + 1 = StepOf(d + 1, 0)
           /\ k = 8 /\ d = NumDevices => StepOf(d, k) + 1 > 9 * NumDevices
BY XhciAssumption DEF Devices, StepOf

LEMMA ThreadFrame ==
    ASSUME Shape, Thread
    PROVE  /\ drv'.pc = drv.pc + 1 /\ panic = "none"
           /\ UNCHANGED <<pending, quiet, panic>>
           /\ hc'.owner = hc.owner /\ hc'.connects = hc.connects
           /\ hc'.addressed = hc.addressed /\ hc'.configured = hc.configured
           /\ SlotsKept \/ SlotEnabled \/ Addressed
<1>1. drv \in Drivers /\ hc \in Controllers /\ dev \in [Devices -> DeviceRecords]
  BY DEF Shape
<1>2. ASSUME NEW type, NEW d, Issue(type, d)
      PROVE  /\ hc'.owner = hc.owner /\ hc'.connects = hc.connects
             /\ hc'.addressed = hc.addressed /\ hc'.configured = hc.configured
  BY <1>1, <1>2 DEF Issue, Controllers
<1>3. CASE ResetPort
  BY <1>1, <1>3 DEF ResetPort, Drivers, Controllers, SlotsKept, At
<1>4. CASE IsReset
  BY <1>1, <1>4 DEF IsReset, Drivers, SlotsKept, At
<1>5. CASE Wakes
  BY <1>1, <1>5 DEF Wakes, Drivers, SlotsKept, At
<1>6. CASE EnableSlot
  BY <1>1, <1>2, <1>6 DEF EnableSlot, Drivers, SlotsKept, At
<1>7. CASE SlotEnabled
  BY <1>1, <1>7 DEF SlotEnabled, Drivers, At
<1>8. CASE AddressDevice
  <2>1. D \in Devices /\ dev' = [dev EXCEPT ![D].a_line = "address"]
    BY <1>8, AtStep DEF AddressDevice
  <2>2. SlotsKept
    BY <1>1, <2>1 DEF SlotsKept, DeviceRecords
  <2> QED
    BY <1>1, <1>2, <1>8, <2>2 DEF AddressDevice, Drivers, At
<1>9. CASE Addressed
  BY <1>1, <1>9 DEF Addressed, Drivers, At
<1>10. CASE SendControl
  BY <1>1, <1>10 DEF SendControl, Drivers, Controllers, SlotsKept, At
<1>11. CASE AwaitInterrupt
  <2>1. D \in Devices /\ dev' = [dev EXCEPT ![D].signaled = FALSE]
    BY <1>11, AtStep DEF AwaitInterrupt
  <2>2. SlotsKept
    BY <1>1, <2>1 DEF SlotsKept, DeviceRecords
  <2> QED
    BY <1>1, <1>11, <2>2 DEF AwaitInterrupt, Drivers, At
<1>12. CASE EvaluateContext
  <2>1. D \in Devices /\ dev' = [dev EXCEPT ![D].a_line = "control"]
    BY <1>12, AtStep DEF EvaluateContext
  <2>2. SlotsKept
    BY <1>1, <2>1 DEF SlotsKept, DeviceRecords
  <2> QED
    BY <1>1, <1>2, <1>12, <2>2 DEF EvaluateContext, Drivers, At
<1>13. CASE ConfigureEndpoint
  <2>1. D \in Devices /\ dev' = [dev EXCEPT ![D].a_line = "poll"]
    BY <1>13, AtStep DEF ConfigureEndpoint
  <2>2. SlotsKept
    BY <1>1, <2>1 DEF SlotsKept, DeviceRecords
  <2> QED
    BY <1>1, <1>2, <1>13, <2>2 DEF ConfigureEndpoint, Drivers, At
<1>14. CASE OpenEndpoint
  <2>1. D \in Devices /\ dev' = [dev EXCEPT ![D].a_line = "none", ![D].open = TRUE]
    BY <1>14, AtStep DEF OpenEndpoint
  <2>2. SlotsKept
    BY <1>1, <2>1 DEF SlotsKept, DeviceRecords
  <2> QED
    BY <1>1, <1>14, <2>2 DEF OpenEndpoint, Drivers, At
<1> QED
  BY <1>3, <1>4, <1>5, <1>6, <1>7, <1>8, <1>9, <1>10, <1>11, <1>12, <1>13, <1>14 DEF Thread

(* A thread's step of the first part is the one the script names there. *)
LEMMA FirstPartOp ==
    ASSUME NEW d \in Devices, NEW k \in 0 .. 8, drv.pc = StepOf(d, k)
    PROVE  D = d /\ \A op : At(op) => FirstSteps[k + 1] = op
<1>1. Script[drv.pc] = [op |-> FirstSteps[k + 1], dev |-> d]
  BY ScriptStep
<1> QED
  BY <1>1 DEF D, At

(* What the thread's steps of the first part write. *)
LEMMA FirstPartEffects ==
    ASSUME Shape, Thread, NEW d \in Devices, NEW k \in 0 .. 8, drv.pc = StepOf(d, k)
    PROVE  /\ k = 0 => ResetPort /\ hc'.resetting = d
           /\ k = 1 => hc.resetting = 0 /\ hc'.resetting = hc.resetting
           /\ k > 1 => hc'.resetting = hc.resetting
           /\ k \in {0, 1} => drv'.got_events = drv.got_events
           /\ k \in {2, 4, 7} => drv.got_events /\ ~drv'.got_events
           /\ k \in {3, 5, 6, 8} => drv'.got_events = drv.got_events
           /\ k = 3 => drv'.callback = "enable"
           /\ k = 6 => drv'.callback = "address"
           /\ k \in {5, 8} => drv'.callback = "none"
           /\ k \in {0, 1, 2, 4, 7} => drv'.callback = drv.callback
           /\ k # 3 => drv'.slot_index = drv.slot_index
           /\ k \notin {3, 6} => hc'.commands = hc.commands
           /\ k = 3 => Issue("EnableSlot", d)
           /\ k = 6 => Issue("AddressDevice", d)
           /\ k = 5 => dev' = [dev EXCEPT ![d].slot = drv.slot_index]
           /\ k = 8 => dev' = [dev EXCEPT ![d].address =
                          IF dev[d].slot \in hc.addressed THEN "assigned" ELSE "garbage"]
           /\ k \notin {5, 8} => SlotsKept
           /\ hc'.transfers = hc.transfers
<1>1. D = d /\ \A op : At(op) => FirstSteps[k + 1] = op
  BY FirstPartOp
<1>2. drv \in Drivers /\ hc \in Controllers /\ dev \in [Devices -> DeviceRecords]
  BY DEF Shape
<1>3. CASE ResetPort
  <2>1. k = 0
    BY <1>1, <1>3, FirstStepNames DEF ResetPort
  <2> QED
    BY <1>1, <1>2, <1>3, <2>1 DEF ResetPort, Drivers, Controllers, SlotsKept
<1>4. CASE IsReset
  <2>1. k = 1
    BY <1>1, <1>4, FirstStepNames DEF IsReset
  <2> QED
    BY <1>2, <1>4, <2>1 DEF IsReset, Drivers, SlotsKept
<1>5. CASE Wakes
  <2>1. k \in {2, 4, 7}
    BY <1>1, <1>5, FirstStepNames DEF Wakes
  <2> QED
    BY <1>2, <1>5, <2>1 DEF Wakes, Drivers, SlotsKept
<1>6. CASE EnableSlot
  <2>1. k = 3
    BY <1>1, <1>6, FirstStepNames DEF EnableSlot
  <2>2. hc'.resetting = hc.resetting /\ hc'.transfers = hc.transfers
    BY <1>2, <1>6 DEF EnableSlot, Issue, Controllers
  <2> QED
    BY <1>1, <1>2, <1>6, <2>1, <2>2 DEF EnableSlot, Drivers, SlotsKept
<1>7. CASE SlotEnabled
  <2>1. k = 5
    BY <1>1, <1>7, FirstStepNames DEF SlotEnabled
  <2> QED
    BY <1>1, <1>2, <1>7, <2>1 DEF SlotEnabled, Drivers
<1>8. CASE AddressDevice
  <2>1. k = 6
    BY <1>1, <1>8, FirstStepNames DEF AddressDevice
  <2>2. hc'.resetting = hc.resetting /\ hc'.transfers = hc.transfers
    BY <1>2, <1>8 DEF AddressDevice, Issue, Controllers
  <2>3. SlotsKept
    BY <1>1, <1>2, <1>8 DEF AddressDevice, SlotsKept, DeviceRecords
  <2> QED
    BY <1>1, <1>2, <1>8, <2>1, <2>2, <2>3 DEF AddressDevice, Drivers
<1>9. CASE Addressed
  <2>1. k = 8
    BY <1>1, <1>9, FirstStepNames DEF Addressed
  <2> QED
    BY <1>1, <1>2, <1>9, <2>1 DEF Addressed, Drivers
<1>10. CASE SendControl \/ AwaitInterrupt \/ EvaluateContext \/ ConfigureEndpoint \/ OpenEndpoint
  <2>1. PICK op \in {"control", "await", "evaluate", "configure", "open"} : At(op)
    BY <1>10 DEF SendControl, AwaitInterrupt, EvaluateContext, ConfigureEndpoint, OpenEndpoint
  <2>2. FirstSteps[k + 1] = op
    BY <1>1, <2>1
  <2>3. op \in LaterOps \ {"wait"}
    BY DEF LaterOps
  <2> QED
    BY <2>2, <2>3, FirstStepNames
<1> QED
  BY <1>3, <1>4, <1>5, <1>6, <1>7, <1>8, <1>9, <1>10 DEF Thread

LEMMA NextStage ==
    ASSUME Shape, Thread, NEW d \in Devices, NEW k \in 0 .. 8, drv.pc = StepOf(d, k),
           Stage(d, k)
    PROVE  /\ k # 8 => Stage(d, k + 1)'
           /\ k = 8 => Stage(d + 1, 0)'
<1>1. /\ pending' = pending /\ hc'.owner = hc.owner /\ hc'.addressed = hc.addressed
  BY ThreadFrame
<1>2. dev \in [Devices -> DeviceRecords] /\ d \in Nat
  BY XhciAssumption DEF Shape, Devices
<1>3. CASE k = 0
  <2>1. Idle /\ drv.callback = "none" /\ Len(hc.owner) = d - 1
    BY <1>3 DEF Stage
  <2>2. ResetPort /\ hc'.resetting = d /\ drv'.got_events = drv.got_events
        /\ drv'.callback = "none" /\ hc'.commands = hc.commands
    BY <1>3, <2>1, FirstPartEffects
  <2>3. d # 0
    BY XhciAssumption DEF Devices
  <2>4. Resetting'
    BY <1>1, <2>1, <2>2, <2>3 DEF Idle, Resetting
  <2>5. Stage(d, 1)'
    BY <1>1, <2>1, <2>2, <2>4 DEF Stage
  <2> QED
    BY <1>3, <2>5
<1>4. CASE k = 1
  <2>1. /\ drv.callback = "none" /\ Len(hc.owner) = d - 1
        /\ Resetting \/ Answered(PortEvent)
    BY <1>4 DEF Stage
  <2>2. hc.resetting = 0 /\ hc'.resetting = 0 /\ drv'.got_events = drv.got_events
        /\ drv'.callback = "none" /\ hc'.commands = hc.commands
    BY <1>4, <2>1, FirstPartEffects
  <2>3. Answered(PortEvent)'
    BY <1>1, <2>1, <2>2 DEF Resetting, Answered
  <2>4. Stage(d, 2)'
    BY <1>1, <2>1, <2>2, <2>3 DEF Stage
  <2> QED
    BY <1>4, <2>4
<1>5. CASE k = 2
  <2>1. drv.callback = "none" /\ Len(hc.owner) = d - 1 /\ Answered(PortEvent)
    BY <1>5 DEF Stage
  <2>2. hc'.resetting = hc.resetting /\ drv.got_events /\ ~drv'.got_events
        /\ drv'.callback = "none" /\ hc'.commands = hc.commands
    BY <1>5, <2>1, FirstPartEffects
  <2>3. Idle'
    BY <1>1, <2>1, <2>2 DEF Idle, Answered
  <2>4. Stage(d, 3)'
    BY <1>1, <2>1, <2>2, <2>3 DEF Stage
  <2> QED
    BY <1>5, <2>4
<1>6. CASE k = 3
  <2>1. Idle /\ Len(hc.owner) = d - 1
    BY <1>6 DEF Stage
  <2>2. hc'.resetting = hc.resetting /\ drv'.got_events = drv.got_events
        /\ drv'.callback = "enable" /\ Issue("EnableSlot", d) /\ SlotsKept
    BY <1>6, FirstPartEffects
  <2>3. hc'.commands = <<[type |-> "EnableSlot", dev |-> d, slot |-> dev[d].slot]>>
    BY <2>1, <2>2 DEF Issue, Idle, Shape, Controllers
  <2>4. dev'[d].slot = dev[d].slot
    BY <2>2 DEF SlotsKept
  <2>5. Asked("EnableSlot", d)'
    BY <1>1, <2>1, <2>2, <2>3, <2>4 DEF Idle, Asked
  <2>6. Stage(d, 4)'
    BY <1>1, <2>1, <2>2, <2>5 DEF Stage
  <2> QED
    BY <1>6, <2>6
<1>7. CASE k = 4
  <2>1. drv.callback = "enable"
    BY <1>7 DEF Stage
  <2>2. hc'.resetting = hc.resetting /\ drv.got_events /\ ~drv'.got_events
        /\ drv'.callback = "enable" /\ hc'.commands = hc.commands
        /\ drv'.slot_index = drv.slot_index
    BY <1>7, <2>1, FirstPartEffects
  <2>3. Answered(SlotEvent(d)) /\ Len(hc.owner) = d /\ drv.slot_index = d
    BY <1>7, <2>2 DEF Stage, Asked
  <2>4. Idle'
    BY <1>1, <2>2, <2>3 DEF Idle, Answered
  <2>5. Stage(d, 5)'
    BY <1>1, <2>2, <2>3, <2>4 DEF Stage
  <2> QED
    BY <1>7, <2>5
<1>8. CASE k = 5
  <2>1. Idle /\ Len(hc.owner) = d /\ drv.slot_index = d
    BY <1>8 DEF Stage
  <2>2. hc'.resetting = hc.resetting /\ drv'.got_events = drv.got_events
        /\ drv'.callback = "none" /\ hc'.commands = hc.commands
        /\ dev' = [dev EXCEPT ![d].slot = drv.slot_index]
    BY <1>8, FirstPartEffects
  <2>3. dev'[d].slot = d
    BY <1>2, <2>1, <2>2 DEF DeviceRecords
  <2>4. Idle'
    BY <1>1, <2>1, <2>2 DEF Idle
  <2>5. Stage(d, 6)'
    BY <1>1, <2>1, <2>2, <2>3, <2>4 DEF Stage
  <2> QED
    BY <1>8, <2>5
<1>9. CASE k = 6
  <2>1. Idle /\ Len(hc.owner) = d /\ dev[d].slot = d
    BY <1>9 DEF Stage
  <2>2. hc'.resetting = hc.resetting /\ drv'.got_events = drv.got_events
        /\ drv'.callback = "address" /\ Issue("AddressDevice", d) /\ SlotsKept
    BY <1>9, FirstPartEffects
  <2>3. hc'.commands = <<[type |-> "AddressDevice", dev |-> d, slot |-> dev[d].slot]>>
    BY <2>1, <2>2 DEF Issue, Idle, Shape, Controllers
  <2>4. dev'[d].slot = dev[d].slot
    BY <2>2 DEF SlotsKept
  <2>5. Asked("AddressDevice", d)'
    BY <1>1, <2>1, <2>2, <2>3, <2>4 DEF Idle, Asked
  <2>6. Stage(d, 7)'
    BY <1>1, <2>1, <2>2, <2>4, <2>5 DEF Stage
  <2> QED
    BY <1>9, <2>6
<1>10. CASE k = 7
  <2>1. drv.callback = "address" /\ Len(hc.owner) = d /\ dev[d].slot = d
    BY <1>10 DEF Stage
  <2>2. hc'.resetting = hc.resetting /\ drv.got_events /\ ~drv'.got_events
        /\ drv'.callback = "address" /\ hc'.commands = hc.commands /\ SlotsKept
    BY <1>10, <2>1, FirstPartEffects
  <2>3. Answered(SlotEvent(d)) /\ d \in hc.addressed
    BY <1>10, <2>2 DEF Stage, Asked
  <2>4. Idle'
    BY <1>1, <2>2, <2>3 DEF Idle, Answered
  <2>5. dev'[d].slot = d
    BY <2>1, <2>2 DEF SlotsKept
  <2>6. Stage(d, 8)'
    BY <1>1, <2>1, <2>2, <2>3, <2>4, <2>5 DEF Stage
  <2> QED
    BY <1>10, <2>6
<1>11. CASE k = 8
  <2>1. Idle /\ Len(hc.owner) = d
    BY <1>11 DEF Stage
  <2>2. hc'.resetting = hc.resetting /\ drv'.got_events = drv.got_events
        /\ drv'.callback = "none" /\ hc'.commands = hc.commands
    BY <1>11, FirstPartEffects
  <2>3. Idle'
    BY <1>1, <2>1, <2>2 DEF Idle
  <2>4. Len(hc'.owner) = (d + 1) - 1
    BY <1>1, <1>2, <2>1
  <2>5. Stage(d + 1, 0)'
    BY <2>2, <2>3, <2>4 DEF Stage
  <2> QED
    BY <1>11, <2>5
<1>12. k \in {0, 1, 2, 3, 4, 5, 6, 7, 8}
  OBVIOUS
<1> QED
  BY <1>3, <1>4, <1>5, <1>6, <1>7, <1>8, <1>9, <1>10, <1>11, <1>12

LEMMA ThreadKeepsSlots ==
    ASSUME Shape, SlotInv, Thread
    PROVE  SlotInv'
<1> SUFFICES ASSUME quiet PROVE SlotInv'
  BY ThreadFrame DEF SlotInv
<1>1. /\ drv'.pc = drv.pc + 1 /\ panic = "none" /\ drv.pc \in Nat
      /\ hc'.owner = hc.owner /\ hc'.connects = {} /\ hc'.configured = hc.configured
      /\ \A e \in Devices : OwnSlot(e)
  BY ThreadFrame DEF SlotInv, Shape, Drivers
<1>2. OwnersKept
  BY <1>1 DEF OwnersKept
<1>3. CASE drv.pc > 9 * NumDevices
  <2>1. ~InFirstPart'
    BY <1>1, <1>3, XhciAssumption DEF InFirstPart
  <2>2. SlotsKept
    <3>1. ASSUME NEW op, At(op) PROVE op \in LaterOps
      BY <1>3, <3>1, ScriptStep DEF At
    <3>2. "slotEnabled" \notin LaterOps /\ "addressed" \notin LaterOps
      BY DEF LaterOps
    <3>3. ~At("slotEnabled") /\ ~At("addressed")
      BY <3>1, <3>2
    <3>4. ~SlotEnabled /\ ~Addressed
      BY <3>3 DEF SlotEnabled, Addressed
    <3> QED
      BY <3>4, ThreadFrame
  <2>3. \A e \in Devices : OwnSlot(e)'
    BY <1>1, <1>2, <2>2, KeptSlotsOwn
  <2> QED
    BY <1>1, <2>1, <2>3 DEF SlotInv
<1>4. CASE drv.pc <= 9 * NumDevices
  <2>1. InFirstPart
    BY <1>1, <1>4 DEF InFirstPart
  <2>2. PICK d \in Devices : \E k \in 0 .. 8 : drv.pc = StepOf(d, k) /\ Stage(d, k)
    BY <2>1 DEF SlotInv
  <2>3. PICK k \in 0 .. 8 : drv.pc = StepOf(d, k) /\ Stage(d, k)
    BY <2>2
  <2>4. Alone
    BY <2>1 DEF SlotInv
  <2>5. Alone'
    BY <1>1, <2>3, <2>4, FirstPartEffects DEF Alone
  <2>6. \A e \in Devices : OwnSlot(e)'
    <3>1. dev \in [Devices -> DeviceRecords] /\ hc.owner \in Seq(Devices) /\ d \in Nat \ {0}
      BY XhciAssumption DEF Shape, Controllers, Devices
    <3>2. CASE k = 5
      <4>1. Len(hc.owner) = d /\ drv.slot_index = d
        BY <2>3, <3>2 DEF Stage
      <4>2. dev' = [dev EXCEPT ![d].slot = drv.slot_index]
        BY <2>3, <3>2, FirstPartEffects
      <4>3. dev'[d].slot = d /\ dev'[d].address = dev[d].address
        BY <3>1, <4>1, <4>2 DEF DeviceRecords
      <4>4. d \in DOMAIN hc'.owner /\ hc'.owner[d] = d
        BY <1>1, <2>4, <3>1, <4>1 DEF Alone
      <4>5. OwnSlot(d)'
        BY <1>1, <4>3, <4>4 DEF OwnSlot
      <4>6. ASSUME NEW e \in Devices, e # d PROVE OwnSlot(e)'
        <5>1. dev'[e] = dev[e]
          BY <3>1, <4>2, <4>6
        <5> QED
          BY <1>1, <5>1 DEF OwnSlot
      <4> QED
        BY <4>5, <4>6
    <3>3. CASE k = 8
      <4>1. dev[d].slot = d /\ d \in hc.addressed
        BY <2>3, <3>3 DEF Stage
      <4>2. dev' = [dev EXCEPT ![d].address = "assigned"]
        BY <2>3, <3>3, <4>1, FirstPartEffects
      <4>3. dev'[d].slot = dev[d].slot /\ dev'[d].address = "assigned"
        BY <3>1, <4>2 DEF DeviceRecords
      <4>4. OwnSlot(d)'
        BY <1>1, <4>3 DEF OwnSlot
      <4>5. ASSUME NEW e \in Devices, e # d PROVE OwnSlot(e)'
        <5>1. dev'[e] = dev[e]
          BY <3>1, <4>2, <4>5
        <5> QED
          BY <1>1, <5>1 DEF OwnSlot
      <4> QED
        BY <4>4, <4>5
    <3>4. CASE k \notin {5, 8}
      <4>1. SlotsKept
        BY <2>3, <3>4, FirstPartEffects
      <4> QED
        BY <1>1, <1>2, <4>1, KeptSlotsOwn
    <3> QED
      BY <3>2, <3>3, <3>4
  <2>7. /\ k # 8 => Stage(d, k + 1)'
        /\ k = 8 => Stage(d + 1, 0)'
    BY <2>3, NextStage
  <2>8. ASSUME InFirstPart'
        PROVE  \E e \in Devices : \E j \in 0 .. 8 : drv'.pc = StepOf(e, j) /\ Stage(e, j)'
    <3>1. CASE k # 8
      <4>1. k + 1 \in 0 .. 8 /\ drv'.pc = StepOf(d, k + 1)
        BY <1>1, <2>3, <3>1, NextPlace
      <4> QED
        BY <2>7, <3>1, <4>1
    <3>2. CASE k = 8 /\ d # NumDevices
      <4>1. d + 1 \in Devices /\ drv'.pc = StepOf(d + 1, 0)
        BY <1>1, <2>3, <3>2, NextPlace
      <4> QED
        BY <2>7, <3>2, <4>1
    <3>3. CASE k = 8 /\ d = NumDevices
      <4>1. drv'.pc > 9 * NumDevices
        BY <1>1, <2>3, <3>3, NextPlace
      <4> QED
        BY <2>8, <4>1, <1>1, XhciAssumption DEF InFirstPart
    <3> QED
      BY <3>1, <3>2, <3>3
  <2> QED
    BY <1>1, <2>5, <2>6, <2>8 DEF SlotInv
<1> QED
  BY <1>1, <1>3, <1>4, XhciAssumption

(* An event of the first part is that of the request under way. *)
LEMMA StageEvents ==
    ASSUME NEW d \in Devices, NEW k \in 0 .. 8, Stage(d, k), pending # <<>>
    PROVE  /\ hc.resetting = 0 /\ hc.commands = <<>> /\ ~drv.got_events
           /\ \/ k \in {1, 2} /\ pending = <<PortEvent>>
              \/ k \in {4, 7} /\ pending = <<SlotEvent(d)>>
BY DEF Stage, Idle, Asked, Resetting, Answered

LEMMA HandlerKeepsSlots ==
    ASSUME Shape, EventsExact, SlotInv, Handler
    PROVE  SlotInv'
<1>1. drv \in Drivers /\ hc \in Controllers /\ dev \in [Devices -> DeviceRecords]
      /\ pending \in Seq(Events) /\ Event \in Events
  BY DEF Shape, Event, Drivers
<1>2. CASE Interrupt
  BY <1>1, <1>2, StageKept DEF Interrupt, Drivers
<1>3. CASE InterruptEnds
  BY <1>1, <1>3, StageKept DEF InterruptEnds, Drivers, Controllers
<1>4. CASE HandleCallback \/ HandleControl \/ HandlePoll
  <2>1. /\ panic = "none" /\ HasEvent /\ pending' = Tail(pending)
        /\ hc' = hc /\ quiet' = quiet
    BY <1>4 DEF HandleCallback, HandleControl, HandlePoll, Handling
  <2>2. pending # <<>> /\ Event = Head(pending)
    BY <2>1 DEF EventsExact
  <2>3. SlotsKept
    <3>1. CASE HandleControl
      <4> SUFFICES ASSUME NEW e \in Devices
                   PROVE  dev'[e].slot = dev[e].slot /\ dev'[e].address = dev[e].address
        BY DEF SlotsKept
      <4>1. dev'[e] = dev[e] \/ dev'[e] = [dev[e] EXCEPT !.signaled = TRUE]
        BY <3>1 DEF HandleControl
      <4> QED
        BY <1>1, <4>1 DEF DeviceRecords
    <3> QED
      BY <1>4, <3>1 DEF HandleCallback, HandlePoll, SlotsKept
  <2>4. drv'.pc = drv.pc
    <3>1. ASSUME NEW r \in Drivers PROVE Advanced(r).pc = r.pc
      BY DEF Advanced, Drivers
    <3>2. /\ [drv EXCEPT !.slot_index = Event.id] \in Drivers
          /\ [drv EXCEPT !.slot_index = Event.id].pc = drv.pc
      BY <1>1 DEF Drivers, Events
    <3>3. \/ drv' = drv \/ drv' = Advanced(drv)
          \/ drv' = Advanced([drv EXCEPT !.slot_index = Event.id])
      BY <1>4 DEF HandleCallback, HandleControl, HandlePoll
    <3>4. Advanced([drv EXCEPT !.slot_index = Event.id]).pc = drv.pc
      BY <3>1, <3>2
    <3> QED
      BY <1>1, <3>1, <3>3, <3>4
  <2> SUFFICES ASSUME quiet PROVE SlotInv'
    BY <2>1 DEF SlotInv
  <2>5. \A e \in Devices : OwnSlot(e)'
    BY <2>1, <2>3, KeptSlotsOwn DEF OwnersKept, SlotInv
  <2>6. hc'.connects = {}
    BY <2>1 DEF SlotInv
  <2>7. ASSUME InFirstPart'
        PROVE  /\ Alone'
               /\ \E e \in Devices : \E j \in 0 .. 8 : drv'.pc = StepOf(e, j) /\ Stage(e, j)'
    <3>1. InFirstPart
      BY <2>1, <2>4, <2>7 DEF InFirstPart
    <3>2. PICK d \in Devices : \E k \in 0 .. 8 : drv.pc = StepOf(d, k) /\ Stage(d, k)
      BY <3>1 DEF SlotInv
    <3>3. PICK k \in 0 .. 8 : drv.pc = StepOf(d, k) /\ Stage(d, k)
      BY <3>2
    <3>4. /\ hc.resetting = 0 /\ hc.commands = <<>>
          /\ \/ k \in {1, 2} /\ pending = <<PortEvent>>
             \/ k \in {4, 7} /\ pending = <<SlotEvent(d)>>
      BY <2>2, <3>3, StageEvents
    <3>5. pending' = <<>>
      <4>1. \A e : Tail(<<e>>) = <<>>
        OBVIOUS
      <4> QED
        BY <2>1, <3>4, <4>1
    <3>6. \/ k \in {1, 2} /\ Event.type = "port"
          \/ k \in {4, 7} /\ Event = SlotEvent(d)
      BY <2>2, <3>4 DEF PortEvent
    <3>7. HandleCallback
      <4>1. Event.type \in {"port", "command"}
        BY <3>6 DEF SlotEvent
      <4> QED
        BY <1>4, <4>1 DEF HandleControl, HandlePoll, Handling
    <3>8. panic' = "none"
      BY <2>7 DEF InFirstPart
    <3>9. drv' = IF drv.callback = "enable" THEN Advanced([drv EXCEPT !.slot_index = Event.id])
                                            ELSE Advanced(drv)
      BY <3>7, <3>8 DEF HandleCallback
    <3>10. ASSUME NEW r \in Drivers
           PROVE  /\ Advanced(r).got_events = TRUE /\ Advanced(r).callback = r.callback
                  /\ Advanced(r).slot_index = r.slot_index
      BY DEF Advanced, Drivers
    <3>11. drv'.got_events /\ drv'.callback = drv.callback
           /\ (drv.callback = "enable" => drv'.slot_index = Event.id)
      <4> DEFINE r == [drv EXCEPT !.slot_index = Event.id]
      <4>1. r \in Drivers /\ r.callback = drv.callback /\ r.slot_index = Event.id
        BY <1>1 DEF Drivers, Events
      <4>2. drv' = IF drv.callback = "enable" THEN Advanced(r) ELSE Advanced(drv)
        BY <3>9
      <4> HIDE DEF r
      <4> QED
        BY <1>1, <3>10, <4>1, <4>2
    <3>12. Answered(PortEvent)' /\ Answered(SlotEvent(d))'
      BY <2>1, <3>4, <3>5, <3>11 DEF Answered
    <3>13. dev'[d].slot = dev[d].slot
      BY <2>3 DEF SlotsKept
    <3>14. Stage(d, k)'
      <4>1. CASE k = 1
        BY <2>1, <3>3, <3>11, <3>12, <4>1 DEF Stage
      <4>2. CASE k = 2
        BY <2>1, <3>3, <3>11, <3>12, <4>2 DEF Stage
      <4>3. CASE k = 4
        <5>1. drv.callback = "enable"
          BY <3>3, <4>3 DEF Stage
        <5>2. drv'.slot_index = d
          BY <3>6, <3>11, <4>3, <5>1 DEF SlotEvent
        <5>3. Len(hc.owner) = d
          BY <3>3, <3>4, <4>3 DEF Stage, Asked
        <5> QED
          BY <2>1, <3>11, <3>12, <4>3, <5>1, <5>2, <5>3 DEF Stage
      <4>4. CASE k = 7
        <5>1. drv.callback = "address" /\ Len(hc.owner) = d /\ dev[d].slot = d
          BY <3>3, <4>4 DEF Stage
        <5>2. d \in hc.addressed
          BY <3>3, <3>4, <4>4 DEF Stage, Asked
        <5> QED
          BY <2>1, <3>11, <3>12, <3>13, <4>4, <5>1, <5>2 DEF Stage
      <4> QED
        BY <3>4, <4>1, <4>2, <4>3, <4>4
    <3>15. Alone'
      BY <2>1, <3>1 DEF SlotInv, Alone
    <3> QED
      BY <2>4, <3>3, <3>14, <3>15
  <2> QED
    BY <2>5, <2>6, <2>7 DEF SlotInv
<1> QED
  BY <1>2, <1>3, <1>4 DEF Handler

LEMMA PostWrites ==
    ASSUME NEW e, NEW h \in Controllers, Post(e, h)
    PROVE  /\ hc'.resetting = h.resetting /\ hc'.commands = h.commands
           /\ hc'.connects = h.connects /\ hc'.owner = h.owner
           /\ hc'.addressed = h.addressed /\ hc'.transfers = h.transfers
           /\ hc'.configured = h.configured
           /\ pending' = Append(pending, e)
<1>1. CASE hc.enqueue + 1 = RingSize
  BY <1>1 DEF Post, Controllers
<1>2. CASE hc.enqueue + 1 # RingSize
  BY <1>2 DEF Post, Controllers
<1> QED
  BY <1>1, <1>2

LEMMA ExecutedWrites ==
    ASSUME Shape, NEW c, NEW slot
    PROVE  LET x == Executed(c, slot) IN
           /\ x.resetting = hc.resetting /\ x.commands = Tail(hc.commands)
           /\ x.connects = hc.connects /\ x.transfers = hc.transfers
           /\ x.owner = IF c.type = "EnableSlot" THEN Append(hc.owner, c.dev) ELSE hc.owner
           /\ c.type = "AddressDevice" => x.addressed = hc.addressed \cup {slot}
           /\ c.type # "ConfigureEndpoint" => x.configured = hc.configured
<1> DEFINE h == [hc EXCEPT !.commands = Tail(@)]
           x == Executed(c, slot)
<1>1. hc \in Controllers
  BY DEF Shape
<1>2. /\ h.resetting = hc.resetting /\ h.commands = Tail(hc.commands)
      /\ h.connects = hc.connects /\ h.transfers = hc.transfers
      /\ h.owner = hc.owner /\ h.addressed = hc.addressed
      /\ h.configured = hc.configured
  BY <1>1 DEF Controllers
<1>3. DOMAIN h = DOMAIN hc
  OBVIOUS
<1>4. {"resetting", "commands", "connects", "transfers", "owner", "addressed", "configured"}
        \subseteq DOMAIN hc
  BY <1>1 DEF Controllers
<1>5. x = CASE c.type = "EnableSlot" -> [h EXCEPT !.owner = Append(@, c.dev)]
            [] c.type = "AddressDevice" -> [h EXCEPT !.addressed = @ \cup {slot}]
            [] c.type = "ConfigureEndpoint" /\ dev[c.dev].a_line = "poll" ->
                 [h EXCEPT !.configured = @ \cup {c.dev}]
            [] OTHER -> h
  BY DEF Executed, h
<1> HIDE DEF h, x
<1>6. CASE c.type = "EnableSlot"
  <2>1. x = [h EXCEPT !.owner = Append(@, c.dev)]
    BY <1>5, <1>6
  <2> QED
    BY <1>2, <1>3, <1>4, <1>6, <2>1 DEF x
<1>7. CASE c.type = "AddressDevice"
  <2>1. x = [h EXCEPT !.addressed = @ \cup {slot}]
    BY <1>5, <1>7
  <2> QED
    BY <1>2, <1>3, <1>4, <1>7, <2>1 DEF x
<1>8. CASE c.type = "ConfigureEndpoint" /\ dev[c.dev].a_line = "poll"
  <2>1. x = [h EXCEPT !.configured = @ \cup {c.dev}]
    BY <1>5, <1>8
  <2> QED
    BY <1>2, <1>3, <1>4, <1>8, <2>1 DEF x
<1>9. CASE /\ c.type # "EnableSlot" /\ c.type # "AddressDevice"
           /\ ~(c.type = "ConfigureEndpoint" /\ dev[c.dev].a_line = "poll")
  <2>1. x = h
    BY <1>5, <1>9
  <2> QED
    BY <1>2, <1>9, <2>1 DEF x
<1> QED
  BY <1>6, <1>7, <1>8, <1>9

(* The controller answers a request of the first part with its event. *)
LEMMA RequestAnswered ==
    ASSUME Shape, NEW d \in Devices, NEW k \in 0 .. 8, Stage(d, k), Alone,
           hc.connects = {}, Controller \/ Report
    PROVE  Stage(d, k)' /\ Alone'
<1>1. hc \in Controllers /\ d \in Nat /\ hc.owner \in Seq(Devices)
  BY XhciAssumption DEF Shape, Controllers, Devices
<1>2. UNCHANGED <<drv, dev>>
  BY DEF Controller, PortReset, PortConnects, ExecuteCommand, CompleteTransfer, Report
<1>3. ASSUME NEW e PROVE Append(<<>>, e) = <<e>>
  OBVIOUS
<1>4. CASE PortReset
  <2> DEFINE h == [hc EXCEPT !.resetting = 0]
  <2>1. hc.resetting # 0 /\ Post(PortEvent, h)
    BY <1>4 DEF PortReset
  <2>2. h \in Controllers /\ h.resetting = 0 /\ h.commands = hc.commands
        /\ h.owner = hc.owner /\ h.transfers = hc.transfers /\ h.configured = hc.configured
    BY <1>1 DEF Controllers
  <2> HIDE DEF h
  <2>3. k = 1 /\ Resetting
    BY <2>1 DEF Stage, Idle, Asked, Answered
  <2>4. Answered(PortEvent)'
    BY <1>2, <1>3, <2>1, <2>2, <2>3, PostWrites DEF Resetting, Answered
  <2>5. hc'.owner = hc.owner /\ hc'.transfers = hc.transfers /\ hc'.configured = hc.configured
    BY <2>1, <2>2, PostWrites
  <2>6. Stage(d, k)'
    BY <1>2, <2>3, <2>4, <2>5 DEF Stage
  <2> QED
    BY <2>5, <2>6 DEF Alone
<1>5. CASE ExecuteCommand
  <2> DEFINE c == Head(hc.commands)
             slot == IF c.type = "EnableSlot" THEN Len(hc.owner) + 1 ELSE c.slot
             x == Executed(c, slot)
  <2>1. hc.commands # <<>> /\ Post([type |-> "command", id |-> slot], x)
    BY <1>5 DEF ExecuteCommand
  <2>2. \/ k = 4 /\ Asked("EnableSlot", d) /\ Len(hc.owner) = d - 1
        \/ k = 7 /\ Asked("AddressDevice", d)
    BY <2>1 DEF Stage, Idle, Resetting, Answered
  <2>3. slot \in Nat
    <3>1. c \in Commands
      BY <1>1, <2>1 DEF Controllers
    <3> QED
      BY <1>1, <3>1 DEF Commands
  <2>4. x \in Controllers
    BY <2>1, <2>3, ExecutedShape
  <2>5. /\ x.resetting = hc.resetting /\ x.commands = Tail(hc.commands)
        /\ x.transfers = hc.transfers
        /\ x.owner = IF c.type = "EnableSlot" THEN Append(hc.owner, c.dev) ELSE hc.owner
        /\ c.type = "AddressDevice" => x.addressed = hc.addressed \cup {slot}
        /\ c.type # "ConfigureEndpoint" => x.configured = hc.configured
    BY ExecutedWrites
  <2>6. \A y : Head(<<y>>) = y /\ Tail(<<y>>) = <<>>
    OBVIOUS
  <2>7. CASE k = 4 /\ Asked("EnableSlot", d) /\ Len(hc.owner) = d - 1
    <3>1. c.type = "EnableSlot" /\ c.dev = d /\ Tail(hc.commands) = <<>>
      BY <2>6, <2>7 DEF Asked
    <3>2. slot = d
      BY <1>1, <2>7, <3>1
    <3> HIDE DEF c, slot, x
    <3>3. Post(SlotEvent(d), x)
      BY <2>1, <3>2 DEF SlotEvent
    <3>4. hc'.owner = Append(hc.owner, d) /\ hc'.transfers = hc.transfers
          /\ hc'.configured = hc.configured
      BY <2>4, <2>5, <3>1, <3>3, PostWrites
    <3>5. Answered(SlotEvent(d))' /\ ~drv'.got_events
      BY <1>2, <1>3, <2>4, <2>5, <2>7, <3>1, <3>3, PostWrites DEF Asked, Answered
    <3>6. Len(hc'.owner) = d
      BY <1>1, <2>7, <3>4
    <3>7. Stage(d, k)'
      BY <1>2, <2>7, <3>5, <3>6 DEF Stage
    <3>8. \A i \in DOMAIN hc'.owner : hc'.owner[i] = i
      <4>1. DOMAIN hc'.owner = 1 .. d /\ DOMAIN hc.owner = 1 .. d - 1
        BY <1>1, <2>7, <3>4
      <4>2. hc'.owner[d] = d /\ \A i \in 1 .. d - 1 : hc'.owner[i] = hc.owner[i]
        BY <1>1, <2>7, <3>4
      <4> QED
        BY <1>1, <4>1, <4>2 DEF Alone
    <3> QED
      BY <3>4, <3>7, <3>8 DEF Alone
  <2>8. CASE k = 7 /\ Asked("AddressDevice", d)
    <3>1. dev[d].slot = d
      BY <2>8 DEF Stage
    <3>2. c.type = "AddressDevice" /\ c.slot = d /\ Tail(hc.commands) = <<>>
      BY <2>6, <2>8, <3>1 DEF Asked
    <3>3. slot = d
      BY <3>2
    <3> HIDE DEF c, slot, x
    <3>4. Post(SlotEvent(d), x)
      BY <2>1, <3>3 DEF SlotEvent
    <3>5. hc'.owner = hc.owner /\ hc'.transfers = hc.transfers
          /\ hc'.configured = hc.configured /\ d \in hc'.addressed
      BY <2>4, <2>5, <3>2, <3>3, <3>4, PostWrites
    <3>6. Answered(SlotEvent(d))'
      BY <1>2, <1>3, <2>4, <2>5, <2>8, <3>2, <3>4, PostWrites DEF Asked, Answered
    <3>7. Stage(d, k)'
      BY <1>2, <2>8, <3>5, <3>6 DEF Stage
    <3> QED
      BY <3>5, <3>7 DEF Alone
  <2> QED
    BY <2>2, <2>7, <2>8
<1>6. ~PortConnects /\ ~CompleteTransfer /\ ~Report
  BY DEF PortConnects, CompleteTransfer, Report, Alone
<1> QED
  BY <1>4, <1>5, <1>6 DEF Controller

LEMMA ControllerFrame ==
    ASSUME Shape, Controller \/ Report
    PROVE  /\ UNCHANGED <<drv, dev, quiet, panic>>
           /\ OwnersKept /\ hc'.connects \subseteq hc.connects
<1>1. hc \in Controllers /\ hc.owner \in Seq(Devices)
  BY DEF Shape, Controllers
<1>2. UNCHANGED <<drv, dev, quiet, panic>>
  BY DEF Controller, PortReset, PortConnects, ExecuteCommand, CompleteTransfer, Report
<1>3. ASSUME hc'.owner = hc.owner PROVE OwnersKept
  BY <1>3 DEF OwnersKept
<1>4. CASE PortReset
  <2> DEFINE h == [hc EXCEPT !.resetting = 0]
  <2>1. h \in Controllers /\ h.owner = hc.owner /\ h.connects = hc.connects
    BY <1>1 DEF Controllers
  <2>2. Post(PortEvent, h)
    BY <1>4 DEF PortReset
  <2> HIDE DEF h
  <2> QED
    BY <1>2, <1>3, <2>1, <2>2, PostWrites
<1>5. CASE PortConnects
  <2>1. PICK q \in hc.connects : Post(PortEvent, [hc EXCEPT !.connects = @ \ {q}])
    BY <1>5 DEF PortConnects
  <2> DEFINE h == [hc EXCEPT !.connects = @ \ {q}]
  <2>2. h \in Controllers /\ h.owner = hc.owner /\ h.connects \subseteq hc.connects
    BY <1>1 DEF Controllers
  <2>3. Post(PortEvent, h)
    BY <2>1
  <2> HIDE DEF h
  <2> QED
    BY <1>2, <1>3, <2>2, <2>3, PostWrites
<1>6. CASE ExecuteCommand
  <2> DEFINE c == Head(hc.commands)
             slot == IF c.type = "EnableSlot" THEN Len(hc.owner) + 1 ELSE c.slot
             x == Executed(c, slot)
  <2>1. hc.commands # <<>> /\ Post([type |-> "command", id |-> slot], x)
    BY <1>6 DEF ExecuteCommand
  <2>2. c \in Commands
    BY <1>1, <2>1 DEF Controllers
  <2>3. slot \in Nat /\ c.dev \in Devices
    BY <1>1, <2>2 DEF Commands
  <2>4. x \in Controllers
    BY <2>1, <2>3, ExecutedShape
  <2>5. x.connects = hc.connects /\ (x.owner = hc.owner \/ x.owner = Append(hc.owner, c.dev))
    <3>1. /\ x.connects = hc.connects
          /\ x.owner = IF c.type = "EnableSlot" THEN Append(hc.owner, c.dev) ELSE hc.owner
      BY ExecutedWrites
    <3> HIDE DEF c, slot, x
    <3> QED
      BY <3>1
  <2> HIDE DEF c, slot, x
  <2>6. hc'.connects = hc.connects
        /\ (hc'.owner = hc.owner \/ hc'.owner = Append(hc.owner, c.dev))
    BY <2>1, <2>4, <2>5, PostWrites
  <2>7. ASSUME hc'.owner = Append(hc.owner, c.dev) PROVE OwnersKept
    BY <1>1, <2>3, <2>7 DEF OwnersKept
  <2> QED
    BY <1>2, <1>3, <2>6, <2>7
<1>7. CASE CompleteTransfer
  <2>1. PICK t \in hc.transfers :
          Post([type |-> "control", id |-> t], [hc EXCEPT !.transfers = @ \ {t}])
    BY <1>7 DEF CompleteTransfer
  <2> DEFINE h == [hc EXCEPT !.transfers = @ \ {t}]
  <2>2. h \in Controllers /\ h.owner = hc.owner /\ h.connects = hc.connects
    BY <1>1 DEF Controllers
  <2>3. Post([type |-> "control", id |-> t], h)
    BY <2>1
  <2> HIDE DEF h
  <2> QED
    BY <1>2, <1>3, <2>2, <2>3, PostWrites
<1>8. CASE Report
  <2>1. \E e : Post(e, hc)
    BY <1>8 DEF Report
  <2> QED
    BY <1>1, <1>2, <1>3, <2>1, PostWrites
<1> QED
  BY <1>4, <1>5, <1>6, <1>7, <1>8 DEF Controller

LEMMA ControllerKeepsSlots ==
    ASSUME Shape, SlotInv, Controller \/ Report
    PROVE  SlotInv'
<1>1. UNCHANGED <<drv, dev, quiet, panic>> /\ OwnersKept /\ hc'.connects \subseteq hc.connects
  BY ControllerFrame
<1> SUFFICES ASSUME quiet PROVE SlotInv'
  BY <1>1 DEF SlotInv
<1>2. \A e \in Devices : OwnSlot(e)'
  BY <1>1, KeptSlotsOwn DEF SlotInv, SlotsKept
<1>3. hc.connects = {} /\ hc'.connects = {}
  BY <1>1 DEF SlotInv
<1>4. ASSUME InFirstPart'
      PROVE  /\ Alone'
             /\ \E e \in Devices : \E j \in 0 .. 8 : drv'.pc = StepOf(e, j) /\ Stage(e, j)'
  <2>1. InFirstPart
    BY <1>1, <1>4 DEF InFirstPart
  <2>2. PICK d \in Devices : \E k \in 0 .. 8 : drv.pc = StepOf(d, k) /\ Stage(d, k)
    BY <2>1 DEF SlotInv
  <2>3. PICK k \in 0 .. 8 : drv.pc = StepOf(d, k) /\ Stage(d, k)
    BY <2>2
  <2>4. Alone
    BY <2>1 DEF SlotInv
  <2>5. Stage(d, k)' /\ Alone'
    BY <1>3, <2>3, <2>4, RequestAnswered
  <2> QED
    BY <1>1, <2>3, <2>5
<1> QED
  BY <1>2, <1>3, <1>4 DEF SlotInv

LEMMA SlotInvKept ==
    ASSUME Shape, EventsExact, SlotInv, [Next]_vars
    PROVE  SlotInv'
<1>1. CASE TimesOut
  <2>1. UNCHANGED <<drv, dev, hc, quiet>> /\ panic' # "none"
    BY <1>1 DEF TimesOut
  <2> QED
    BY <2>1 DEF SlotInv, InFirstPart, OwnSlot
<1>2. CASE UNCHANGED vars
  BY <1>2, StageKept DEF vars
<1> QED
  BY <1>1, <1>2, ThreadKeepsSlots, HandlerKeepsSlots, ControllerKeepsSlots DEF Next

(* Every device is driven through the slot that the controller enabled for *)
(* it, and its address is read when there is one, however many devices     *)
(* there are (create_slot, set_address), if no port reports a change of    *)
(* its own accord.                                                         *)
THEOREM DevicesOwnTheirSlots == Spec => []SlotsOwn
<1> DEFINE Inv == RingsInv /\ SlotInv
<1>1. Init => Inv
  BY ShapeHoldsAtBoot, RingInvAtBoot, PollInvAtBoot, SlotInvAtBoot DEF RingsInv
<1>2. Inv /\ [Next]_vars => Inv'
  BY RingsInvKept, RingInvMeans, SlotInvKept DEF RingsInv
<1>3. Inv => SlotsOwn
  BY DEF SlotInv, OwnSlot, SlotsOwn
<1> QED
  BY <1>1, <1>2, <1>3, PTL DEF Spec

-----------------------------------------------------------------------------
(***************************************************************************)
(* Control transfers.                                                      *)
(***************************************************************************)

(* A step that sends a transfer is followed by the wait for it. *)
WaitFollows(s) ==
    \A i \in DOMAIN s : s[i].op = "control" =>
      i + 1 \in DOMAIN s /\ s[i + 1] = [op |-> "await", dev |-> s[i].dev]

AwaitBehind(ops) ==
    \A j \in DOMAIN ops : ops[j] = "control" => j + 1 \in DOMAIN ops /\ ops[j + 1] = "await"

LEMMA WaitInRound ==
    ASSUME NEW list \in Seq(Devices), NEW O, NEW ops \in Seq(O), Len(ops) > 0,
           AwaitBehind(ops)
    PROVE  WaitFollows(ForEach(list, ops))
<1> DEFINE m == Len(ops)
           l == Len(list)
           f == ForEach(list, ops)
<1>1. m \in Nat \ {0} /\ l \in Nat /\ l * m \in Nat /\ DOMAIN ops = 1 .. m
  OBVIOUS
<1>2. /\ DOMAIN f = 1 .. l * m
      /\ \A k \in 1 .. l * m :
           f[k] = [op |-> ops[1 + ((k - 1) % m)], dev |-> list[1 + (k - 1) \div m]]
  BY DEF ForEach
<1> HIDE DEF m, l, f
<1> SUFFICES ASSUME NEW i \in 1 .. l * m, f[i].op = "control"
             PROVE  i + 1 \in 1 .. l * m /\ f[i + 1] = [op |-> "await", dev |-> f[i].dev]
  BY <1>2 DEF WaitFollows, f
<1> DEFINE r == (i - 1) % m
           q == (i - 1) \div m
<1>3. /\ r \in 0 .. m - 1 /\ q \in 0 .. l - 1
      /\ i - 1 = m * q + r
  <2>1. 1 + r \in 1 .. m /\ 1 + q \in 1 .. l /\ i - 1 = m * q + r
    BY <1>1, Divided
  <2>2. i - 1 \in Nat
    BY <1>1
  <2>3. r \in Int /\ q \in Int
    BY <1>1, <2>2
  <2> HIDE DEF r, q
  <2> QED
    BY <1>1, <2>1, <2>3
<1>4. f[i] = [op |-> ops[1 + r], dev |-> list[1 + q]]
  BY <1>2
<1> HIDE DEF r, q
<1>5. 1 + r + 1 \in 1 .. m /\ ops[1 + r + 1] = "await"
  <2>1. 1 + r \in DOMAIN ops /\ ops[1 + r] = "control"
    BY <1>1, <1>3, <1>4
  <2> QED
    BY <1>1, <2>1 DEF AwaitBehind
<1>6. r + 1 \in 0 .. m - 1
  BY <1>1, <1>3, <1>5
<1>7. i + 1 \in 1 .. l * m
  <2>1. m * q \in Int /\ m * (q + 1) = m * q + m
    BY <1>1, <1>3
  <2>2. ASSUME NEW n \in Nat, n <= l PROVE m * n <= l * m
    BY <1>1, <2>2
  <2>3. q + 1 \in Nat /\ q + 1 <= l
    BY <1>1, <1>3
  <2>4. m * (q + 1) <= l * m
    BY <2>2, <2>3
  <2> QED
    BY <1>1, <1>3, <1>6, <2>1, <2>4
<1>8. ((i + 1) - 1) % m = r + 1 /\ ((i + 1) - 1) \div m = q
  <2>1. ASSUME NEW a \in Nat, NEW b \in 0 .. m - 1
        PROVE  (m * a + b) % m = b /\ (m * a + b) \div m = a
    <3>1. m * a + b \in Nat
      BY <1>1
    <3>2. /\ (m * a + b) % m \in 0 .. m - 1 /\ (m * a + b) \div m \in Nat
          /\ m * a + b = m * ((m * a + b) \div m) + ((m * a + b) % m)
      BY <1>1, <3>1
    <3>3. ASSUME NEW x \in Nat, NEW y \in 0 .. m - 1, m * a + b = m * x + y
          PROVE  x = a /\ y = b
      <4>1. CASE x < a
        <5>1. m * (x + 1) <= m * a /\ m * (x + 1) = m * x + m
          BY <1>1, <4>1
        <5> QED
          BY <1>1, <3>3, <5>1
      <4>2. CASE a < x
        <5>1. m * (a + 1) <= m * x /\ m * (a + 1) = m * a + m
          BY <1>1, <4>2
        <5> QED
          BY <1>1, <3>3, <5>1
      <4>3. CASE x = a
        BY <1>1, <3>3, <4>3
      <4> QED
        BY <4>1, <4>2, <4>3
    <3> QED
      BY <3>2, <3>3
  <2>2. (i + 1) - 1 = m * q + (r + 1) /\ q \in Nat
    <3>1. m * q \in Int
      BY <1>1, <1>3
    <3> QED
      BY <1>1, <1>3, <3>1
  <2> QED
    BY <1>6, <2>1, <2>2
<1>9. f[i + 1] = [op |-> ops[1 + (r + 1)], dev |-> list[1 + q]]
  BY <1>2, <1>7, <1>8
<1>10. 1 + (r + 1) = 1 + r + 1
  BY <1>1, <1>3
<1> QED
  BY <1>4, <1>5, <1>7, <1>9, <1>10

LEMMA WaitInBoth ==
    ASSUME NEW s \in Seq(Steps), NEW t \in Seq(Steps), WaitFollows(s), WaitFollows(t)
    PROVE  WaitFollows(s \o t) /\ s \o t \in Seq(Steps)
<1> DEFINE m == Len(s)
           n == Len(t)
           b == s \o t
<1>1. /\ m \in Nat /\ n \in Nat /\ DOMAIN s = 1 .. m /\ DOMAIN t = 1 .. n
      /\ b \in Seq(Steps) /\ DOMAIN b = 1 .. m + n
      /\ \A i \in 1 .. m : b[i] = s[i]
      /\ \A i \in 1 .. n : b[i + m] = t[i]
  OBVIOUS
<1> HIDE DEF m, n, b
<1> SUFFICES ASSUME NEW i \in 1 .. m + n, b[i].op = "control"
             PROVE  i + 1 \in 1 .. m + n /\ b[i + 1] = [op |-> "await", dev |-> b[i].dev]
  BY <1>1 DEF WaitFollows, b
<1>2. CASE i \in 1 .. m
  BY <1>1, <1>2 DEF WaitFollows
<1>3. CASE i \notin 1 .. m
  <2>1. i - m \in 1 .. n /\ i = (i - m) + m
    BY <1>1, <1>3
  <2>2. b[i] = t[i - m]
    BY <1>1, <2>1
  <2>3. (i - m) + 1 \in 1 .. n /\ t[(i - m) + 1] = [op |-> "await", dev |-> t[i - m].dev]
    BY <1>1, <2>1, <2>2 DEF WaitFollows
  <2>4. i + 1 = ((i - m) + 1) + m
    BY <1>1
  <2>5. b[i + 1] = t[(i - m) + 1] /\ i + 1 \in 1 .. m + n
    BY <1>1, <2>3, <2>4
  <2> QED
    BY <2>2, <2>3, <2>5
<1> QED
  BY <1>2, <1>3

LEMMA WaitInScript == WaitFollows(Script)
<1> DEFINE o1 == FirstSteps
           o2 == << "control", "await", "evaluate", "wait", "control", "await" >>
           o3 == << "control", "await", "control", "await", "control", "await" >>
           o4 == << "control", "await", "configure", "wait", "open" >>
           Ops == {"reset", "isReset", "wait", "enableSlot", "slotEnabled",
                   "addressDevice", "addressed", "control", "await", "evaluate",
                   "configure", "open"}
           Good(o) == o \in Seq(Ops) /\ Len(o) > 0 /\ AwaitBehind(o)
<1>1. Good(o1)
  BY DEF FirstSteps, AwaitBehind
<1>2. Good(o2)
  BY DEF AwaitBehind
<1>3. Good(o3)
  BY DEF AwaitBehind
<1>4. Good(o4)
  BY DEF AwaitBehind
<1>5. Script = ForEach(AllDevices, o1) \o ForEach(AllDevices, o2)
                 \o ForEach(AllDevices, o3) \o ForEach(SetToSeq(Polled), o4)
  BY DEF Script, FirstSteps
<1>6. AllDevices \in Seq(Devices) /\ SetToSeq(Polled) \in Seq(Devices)
  <2>1. AllDevices \in Seq(Devices)
    BY XhciAssumption DEF AllDevices, Devices
  <2> QED
    BY <2>1, PolledSequence
<1>7. [op : Ops, dev : Devices] = Steps
  BY DEF Steps
<1> HIDE DEF o1, o2, o3, o4
<1>8. ASSUME NEW list \in Seq(Devices), NEW o, Good(o)
      PROVE  ForEach(list, o) \in Seq(Steps) /\ WaitFollows(ForEach(list, o))
  <2>1. ForEach(list, o) \in Seq([op : Ops, dev : Devices])
    BY <1>8, ForEachSteps
  <2>2. WaitFollows(ForEach(list, o))
    BY <1>8, WaitInRound
  <2> QED
    BY <1>7, <2>1, <2>2
<1> HIDE DEF Good
<1> DEFINE f1 == ForEach(AllDevices, o1)
           f2 == ForEach(AllDevices, o2)
           f3 == ForEach(AllDevices, o3)
           f4 == ForEach(SetToSeq(Polled), o4)
<1>9. /\ f1 \in Seq(Steps) /\ WaitFollows(f1) /\ f2 \in Seq(Steps) /\ WaitFollows(f2)
      /\ f3 \in Seq(Steps) /\ WaitFollows(f3) /\ f4 \in Seq(Steps) /\ WaitFollows(f4)
  BY <1>1, <1>2, <1>3, <1>4, <1>6, <1>8
<1> HIDE DEF f1, f2, f3, f4
<1>10. WaitFollows(f1 \o f2) /\ f1 \o f2 \in Seq(Steps)
  BY <1>9, WaitInBoth
<1>11. WaitFollows((f1 \o f2) \o f3) /\ (f1 \o f2) \o f3 \in Seq(Steps)
  BY <1>9, <1>10, WaitInBoth
<1>12. WaitFollows(((f1 \o f2) \o f3) \o f4)
  BY <1>9, <1>11, WaitInBoth
<1> QED
  BY <1>5, <1>12 DEF f1, f2, f3, f4

(* A transfer goes from the device to the event ring, from there to the    *)
(* device's flag, and the thread waits the while at that device's step.    *)
Unheard == \A i \in DOMAIN pending : pending[i].type # "control"

Unsignaled == \A d \in Devices : ~dev[d].signaled

NoTransfer == hc.transfers = {} /\ Unheard /\ Unsignaled

Waits(d) == drv.pc \in DOMAIN Script /\ Script[drv.pc] = [op |-> "await", dev |-> d]

UnderWay(d) == hc.transfers = {dev[d].slot} /\ Unheard /\ Unsignaled

Completed(d) ==
    /\ hc.transfers = {} /\ Unsignaled
    /\ \E i \in DOMAIN pending :
         /\ pending[i] = [type |-> "control", id |-> dev[d].slot]
         /\ \A j \in DOMAIN pending : pending[j].type = "control" => j = i

Told(d) ==
    /\ hc.transfers = {} /\ Unheard
    /\ \A e \in Devices : dev[e].signaled => e = d

Transfer(d) ==
    Waits(d) /\ dev[d].slot # 0 /\ (UnderWay(d) \/ Completed(d) \/ Told(d))

TransferInv == quiet => NoTransfer \/ \E d \in Devices : Transfer(d)

LEMMA TransferInvMeans == TransferInv => TransferAwaited
<1> SUFFICES ASSUME TransferInv, quiet, NEW d \in Devices, dev[d].signaled
             PROVE  /\ dev[d].slot \notin hc.transfers
                    /\ \A i \in DOMAIN pending :
                         pending[i] # [type |-> "control", id |-> dev[d].slot]
  BY DEF TransferAwaited
<1>1. hc.transfers = {} /\ Unheard
  BY DEF TransferInv, NoTransfer, Transfer, UnderWay, Completed, Told, Unsignaled
<1> QED
  BY <1>1 DEF Unheard

LEMMA TransferInvAtBoot == Init => TransferInv
BY DEF Init, TransferInv, NoTransfer, Unheard, Unsignaled

(* The thread sends when nothing is under way, and waits for nothing else. *)
LEMMA ThreadKeepsTransfers ==
    ASSUME Shape, TransferInv, Thread
    PROVE  TransferInv'
<1>1. drv \in Drivers /\ hc \in Controllers /\ dev \in [Devices -> DeviceRecords]
  BY DEF Shape
<1>2. pending' = pending /\ quiet' = quiet
  BY ThreadFrame
<1> SUFFICES ASSUME quiet PROVE (NoTransfer \/ \E d \in Devices : Transfer(d))'
  BY <1>2 DEF TransferInv
<1>3. CASE AwaitInterrupt
  <2>1. D \in Devices /\ dev' = [dev EXCEPT ![D].signaled = FALSE]
        /\ hc' = hc /\ dev[D].signaled /\ At("await")
    BY <1>3, AtStep DEF AwaitInterrupt
  <2>2. \A e \in Devices : dev'[e].signaled => dev[e].signaled /\ e # D
    BY <1>1, <2>1 DEF DeviceRecords
  <2>3. hc.transfers = {} /\ Unheard /\ (Unsignaled \/ \E d \in Devices : Told(d))
    BY <2>1 DEF TransferInv, NoTransfer, Transfer, UnderWay, Completed, Told, Unsignaled
  <2>4. \A e \in Devices : ~dev'[e].signaled
    BY <2>1, <2>2, <2>3 DEF Unsignaled, Told
  <2> QED
    BY <1>2, <2>1, <2>3, <2>4 DEF NoTransfer, Unheard, Unsignaled
<1>4. CASE ~AwaitInterrupt
  <2>1. NoTransfer
    <3>1. ~At("await")
      BY <1>4 DEF Thread, ResetPort, IsReset, Wakes, EnableSlot, SlotEnabled,
         AddressDevice, Addressed, SendControl, EvaluateContext, ConfigureEndpoint,
         OpenEndpoint, At
    <3>2. panic = "none" /\ ~drv.isr
      BY DEF Thread, ResetPort, IsReset, Wakes, EnableSlot, SlotEnabled,
         AddressDevice, Addressed, SendControl, AwaitInterrupt, EvaluateContext,
         ConfigureEndpoint, OpenEndpoint, At
    <3>3. \A d \in Devices : ~Waits(d)
      BY <3>1, <3>2 DEF Waits, At
    <3> QED
      BY <3>3 DEF TransferInv, Transfer
  <2>2. ASSUME NEW e \in Devices PROVE ~dev'[e].signaled
    <3>1. ~dev[e].signaled
      BY <2>1 DEF NoTransfer, Unsignaled
    <3>2. CASE UNCHANGED dev
      BY <3>1, <3>2
    <3>3. CASE SlotEnabled \/ AddressDevice \/ Addressed \/ EvaluateContext
               \/ ConfigureEndpoint \/ OpenEndpoint
      <4>1. D \in Devices
        BY <3>3, AtStep DEF SlotEnabled, AddressDevice, Addressed, EvaluateContext,
           ConfigureEndpoint, OpenEndpoint
      <4>2. CASE SlotEnabled
        BY <1>1, <3>1, <4>1, <4>2 DEF SlotEnabled, DeviceRecords
      <4>3. CASE AddressDevice
        BY <1>1, <3>1, <4>1, <4>3 DEF AddressDevice, DeviceRecords
      <4>4. CASE Addressed
        <5>1. \E a : dev' = [dev EXCEPT ![D].address = a]
          BY <4>4 DEF Addressed
        <5> QED
          BY <1>1, <3>1, <4>1, <5>1 DEF DeviceRecords
      <4>5. CASE EvaluateContext
        BY <1>1, <3>1, <4>1, <4>5 DEF EvaluateContext, DeviceRecords
      <4>6. CASE ConfigureEndpoint
        BY <1>1, <3>1, <4>1, <4>6 DEF ConfigureEndpoint, DeviceRecords
      <4>7. CASE OpenEndpoint
        BY <1>1, <3>1, <4>1, <4>7 DEF OpenEndpoint, DeviceRecords
      <4> QED
        BY <3>3, <4>2, <4>3, <4>4, <4>5, <4>6, <4>7
    <3> QED
      BY <1>4, <3>2, <3>3 DEF Thread, ResetPort, IsReset, Wakes, EnableSlot, SendControl
  <2>3. CASE SendControl
    <3>1. /\ At("control") /\ D \in Devices /\ drv'.pc = drv.pc + 1
          /\ UNCHANGED dev
      BY <2>3, AtStep, ThreadFrame DEF SendControl
    <3>2. hc'.transfers = hc.transfers \cup ({dev[D].slot} \ {0})
      BY <1>1, <2>3 DEF SendControl, Controllers
    <3>3. drv.pc + 1 \in DOMAIN Script
          /\ Script[drv.pc + 1] = [op |-> "await", dev |-> D]
      BY <3>1, WaitInScript DEF At, WaitFollows, D
    <3>4. CASE dev[D].slot = 0
      BY <1>2, <2>1, <2>2, <3>2, <3>4 DEF NoTransfer, Unheard, Unsignaled
    <3>5. CASE dev[D].slot # 0
      <4> DEFINE d == D
      <4>1. d \in Devices /\ dev'[d].slot # 0 /\ hc'.transfers = {dev'[d].slot}
        BY <2>1, <3>1, <3>2, <3>5 DEF NoTransfer
      <4>2. drv'.pc \in DOMAIN Script /\ Script[drv'.pc] = [op |-> "await", dev |-> d]
        BY <3>1, <3>3
      <4> SUFFICES \E e \in Devices : Transfer(e)'
        OBVIOUS
      <4>3. PICK e \in Devices : e = d
        BY <4>1
      <4> HIDE DEF d
      <4>4. Waits(e)'
        BY <4>2, <4>3 DEF Waits
      <4>5. UnderWay(e)'
        BY <1>2, <2>1, <2>2, <4>1, <4>3 DEF UnderWay, NoTransfer, Unheard, Unsignaled
      <4> QED
        BY <4>1, <4>3, <4>4, <4>5 DEF Transfer
    <3> QED
      BY <3>4, <3>5
  <2>4. CASE ~SendControl
    <3>1. hc'.transfers = hc.transfers
      <4>1. ASSUME NEW type, NEW d, Issue(type, d) PROVE hc'.transfers = hc.transfers
        BY <1>1, <4>1 DEF Issue, Controllers
      <4>2. CASE ResetPort
        BY <1>1, <4>2 DEF ResetPort, Controllers
      <4> QED
        BY <1>4, <2>4, <4>1, <4>2 DEF Thread, IsReset, Wakes, EnableSlot, SlotEnabled,
           AddressDevice, Addressed, EvaluateContext, ConfigureEndpoint, OpenEndpoint
    <3> QED
      BY <1>2, <2>1, <2>2, <3>1 DEF NoTransfer, Unheard, Unsignaled
  <2> QED
    BY <2>3, <2>4
<1> QED
  BY <1>3, <1>4

(* An event that is taken and is no answer to a transfer. *)
LEMMA OtherEventTaken ==
    ASSUME Shape, TransferInv, pending # <<>>, Head(pending).type # "control",
           pending' = Tail(pending), drv'.pc = drv.pc, UNCHANGED <<dev, hc, quiet>>
    PROVE  TransferInv'
<1>1. /\ pending \in Seq(Events) /\ Len(pending) \in Nat
      /\ DOMAIN pending' = 1 .. Len(pending) - 1
      /\ \A i \in 1 .. Len(pending) - 1 : pending'[i] = pending[i + 1]
      /\ pending[1].type # "control" /\ DOMAIN pending = 1 .. Len(pending)
  BY DEF Shape
<1>2. Unheard => Unheard'
  BY <1>1 DEF Unheard
<1>3. ASSUME NEW d \in Devices, Completed(d) PROVE Completed(d)'
  <2>1. PICK i \in DOMAIN pending :
          /\ pending[i] = [type |-> "control", id |-> dev[d].slot]
          /\ \A j \in DOMAIN pending : pending[j].type = "control" => j = i
    BY <1>3 DEF Completed
  <2>2. i # 1
    BY <1>1, <2>1
  <2>3. i - 1 \in DOMAIN pending' /\ pending'[i - 1] = pending[i]
    BY <1>1, <2>1, <2>2
  <2>4. ASSUME NEW j \in DOMAIN pending', pending'[j].type = "control"
        PROVE  j = i - 1
    <3>1. j + 1 \in DOMAIN pending /\ pending[j + 1].type = "control" /\ j \in Nat
      BY <1>1, <2>4
    <3>2. j + 1 = i
      BY <2>1, <3>1
    <3> QED
      BY <1>1, <3>1, <3>2
  <2> QED
    BY <1>3, <2>1, <2>3, <2>4 DEF Completed, Unsignaled
<1> QED
  BY <1>2, <1>3 DEF TransferInv, NoTransfer, Transfer, Waits, UnderWay, Told, Unsignaled

LEMMA HandlerKeepsTransfers ==
    ASSUME Shape, EventsExact, SlotInv, TransferInv, Handler
    PROVE  TransferInv'
<1>1. drv \in Drivers /\ hc \in Controllers /\ dev \in [Devices -> DeviceRecords]
      /\ pending \in Seq(Events) /\ Event \in Events
  BY DEF Shape, Event, Drivers
<1>2. drv'.pc = drv.pc
  <2>1. ASSUME NEW r \in Drivers PROVE Advanced(r).pc = r.pc
    BY DEF Advanced, Drivers
  <2>2. /\ [drv EXCEPT !.slot_index = Event.id] \in Drivers
        /\ [drv EXCEPT !.slot_index = Event.id].pc = drv.pc
    BY <1>1 DEF Drivers, Events
  <2>3. \/ drv' = drv \/ drv' = Advanced(drv)
        \/ drv' = Advanced([drv EXCEPT !.slot_index = Event.id])
        \/ \E b : drv' = [drv EXCEPT !.isr = b]
    BY DEF Handler, Interrupt, InterruptEnds, HandleCallback, HandleControl, HandlePoll
  <2>4. Advanced([drv EXCEPT !.slot_index = Event.id]).pc = drv.pc
    BY <2>1, <2>2
  <2>5. \A b : [drv EXCEPT !.isr = b].pc = drv.pc
    BY <1>1 DEF Drivers
  <2> QED
    BY <1>1, <2>1, <2>3, <2>4, <2>5
<1>3. CASE Interrupt \/ InterruptEnds
  <2>1. hc'.transfers = hc.transfers /\ UNCHANGED <<dev, pending, quiet>>
    BY <1>1, <1>3 DEF Interrupt, InterruptEnds, Controllers
  <2> QED
    BY <1>2, <2>1 DEF TransferInv, NoTransfer, Transfer, Waits, UnderWay, Completed, Told,
       Unsignaled, Unheard
<1>4. CASE HandleCallback \/ HandlePoll
  <2>1. /\ panic = "none" /\ HasEvent /\ pending' = Tail(pending)
        /\ UNCHANGED <<dev, hc, quiet>> /\ Event.type # "control"
    BY <1>4 DEF HandleCallback, HandlePoll, Handling
  <2>2. pending # <<>> /\ Event = Head(pending)
    BY <2>1 DEF EventsExact
  <2> QED
    BY <1>2, <2>1, <2>2, OtherEventTaken
<1>5. CASE HandleControl
  <2>1. /\ panic = "none" /\ HasEvent /\ pending' = Tail(pending)
        /\ UNCHANGED <<hc, quiet>> /\ Event.type = "control"
        /\ dev' = [d \in Devices |->
             IF dev[d].slot = Event.id /\ \A e \in 1 .. d - 1 : dev[e].slot # Event.id
               THEN [dev[d] EXCEPT !.signaled = TRUE] ELSE dev[d]]
    BY <1>5 DEF HandleControl, Handling
  <2>2. pending # <<>> /\ Event = Head(pending)
    BY <2>1 DEF EventsExact
  <2> SUFFICES ASSUME quiet PROVE TransferInv'
    BY <2>1 DEF TransferInv
  <2>3. /\ Len(pending) \in Nat /\ DOMAIN pending = 1 .. Len(pending)
        /\ 1 \in DOMAIN pending /\ pending[1] = Event
        /\ DOMAIN pending' = 1 .. Len(pending) - 1
        /\ \A i \in 1 .. Len(pending) - 1 : pending'[i] = pending[i + 1]
    BY <1>1, <2>1, <2>2
  <2>4. PICK d \in Devices : Waits(d) /\ dev[d].slot # 0 /\ Completed(d)
    BY <2>1, <2>3 DEF TransferInv, NoTransfer, Transfer, UnderWay, Told, Unheard
  <2>5. PICK i \in DOMAIN pending :
          /\ pending[i] = [type |-> "control", id |-> dev[d].slot]
          /\ \A j \in DOMAIN pending : pending[j].type = "control" => j = i
    BY <2>4 DEF Completed
  <2>6. i = 1 /\ Event.id = dev[d].slot
    BY <2>1, <2>3, <2>5
  <2>7. Unheard'
    <3> SUFFICES ASSUME NEW j \in DOMAIN pending' PROVE pending'[j].type # "control"
      BY DEF Unheard
    <3>1. j + 1 \in DOMAIN pending /\ pending'[j] = pending[j + 1] /\ j + 1 # 1
      BY <2>3
    <3> QED
      BY <2>5, <2>6, <3>1
  <2>8. ASSUME NEW e \in Devices, dev'[e].signaled PROVE e = d
    <3>1. ~dev[e].signaled
      BY <2>4 DEF Completed, Unsignaled
    <3>2. dev[e].slot = dev[d].slot
      BY <2>1, <2>6, <2>8, <3>1
    <3>3. OwnSlot(e) /\ OwnSlot(d)
      BY DEF SlotInv
    <3> QED
      BY <2>4, <3>2, <3>3 DEF OwnSlot
  <2>9. dev'[d].slot = dev[d].slot
    <3>1. dev'[d] = dev[d] \/ dev'[d] = [dev[d] EXCEPT !.signaled = TRUE]
      BY <2>1
    <3> QED
      BY <1>1, <3>1 DEF DeviceRecords
  <2>10. hc'.transfers = {}
    BY <2>1, <2>4 DEF Completed
  <2>11. Told(d)'
    BY <2>7, <2>8, <2>10 DEF Told
  <2>12. Waits(d)'
    BY <1>2, <2>4 DEF Waits
  <2> QED
    BY <2>4, <2>9, <2>11, <2>12 DEF TransferInv, Transfer
<1> QED
  BY <1>3, <1>4, <1>5 DEF Handler

(* An event that is posted and is no answer to a transfer. *)
LEMMA OtherEventPosted ==
    ASSUME Shape, TransferInv, NEW e, e.type # "control", pending' = Append(pending, e),
           hc'.transfers = hc.transfers, UNCHANGED <<drv, dev, quiet>>
    PROVE  TransferInv'
<1>1. /\ pending \in Seq(Events) /\ Len(pending) \in Nat
      /\ DOMAIN pending = 1 .. Len(pending)
  BY DEF Shape
<1>2. /\ DOMAIN pending' = 1 .. Len(pending) + 1
      /\ \A i \in 1 .. Len(pending) : pending'[i] = pending[i]
      /\ pending'[Len(pending) + 1] = e
  BY <1>1
<1>3. ASSUME NEW i \in DOMAIN pending', pending'[i].type = "control"
      PROVE  i \in DOMAIN pending /\ pending'[i] = pending[i]
  BY <1>1, <1>2, <1>3
<1>4. Unheard => Unheard'
  BY <1>3 DEF Unheard
<1>5. ASSUME NEW d \in Devices, Completed(d) PROVE Completed(d)'
  <2>1. PICK i \in DOMAIN pending :
          /\ pending[i] = [type |-> "control", id |-> dev[d].slot]
          /\ \A j \in DOMAIN pending : pending[j].type = "control" => j = i
    BY <1>5 DEF Completed
  <2>2. i \in DOMAIN pending' /\ pending'[i] = pending[i]
    BY <1>1, <1>2
  <2>3. \A j \in DOMAIN pending' : pending'[j].type = "control" => j = i
    BY <1>3, <2>1
  <2> QED
    BY <1>5, <2>1, <2>2, <2>3 DEF Completed, Unsignaled
<1> QED
  BY <1>4, <1>5 DEF TransferInv, NoTransfer, Transfer, Waits, UnderWay, Told, Unsignaled

LEMMA ControllerKeepsTransfers ==
    ASSUME Shape, TransferInv, Controller \/ Report
    PROVE  TransferInv'
<1>1. hc \in Controllers /\ UNCHANGED <<drv, dev, quiet>>
  BY ControllerFrame DEF Shape
<1>2. CASE PortReset
  <2> DEFINE h == [hc EXCEPT !.resetting = 0]
  <2>1. h \in Controllers /\ h.transfers = hc.transfers
    BY <1>1 DEF Controllers
  <2>2. Post(PortEvent, h) /\ PortEvent.type # "control"
    BY <1>2 DEF PortReset, PortEvent
  <2> HIDE DEF h
  <2> QED
    BY <1>1, <2>1, <2>2, PostWrites, OtherEventPosted
<1>3. CASE PortConnects
  <2>1. PICK q \in hc.connects : Post(PortEvent, [hc EXCEPT !.connects = @ \ {q}])
    BY <1>3 DEF PortConnects
  <2> DEFINE h == [hc EXCEPT !.connects = @ \ {q}]
  <2>2. h \in Controllers /\ h.transfers = hc.transfers
    BY <1>1 DEF Controllers
  <2>3. Post(PortEvent, h) /\ PortEvent.type # "control"
    BY <2>1 DEF PortEvent
  <2> HIDE DEF h
  <2> QED
    BY <1>1, <2>2, <2>3, PostWrites, OtherEventPosted
<1>4. CASE ExecuteCommand
  <2> DEFINE c == Head(hc.commands)
             slot == IF c.type = "EnableSlot" THEN Len(hc.owner) + 1 ELSE c.slot
             x == Executed(c, slot)
             e == [type |-> "command", id |-> slot]
  <2>1. hc.commands # <<>> /\ Post(e, x) /\ e.type # "control"
    BY <1>4 DEF ExecuteCommand
  <2>2. c \in Commands /\ hc.owner \in Seq(Devices)
    BY <1>1, <2>1 DEF Controllers
  <2>3. slot \in Nat
    BY <2>2 DEF Commands
  <2>4. x \in Controllers
    BY <2>1, <2>3, ExecutedShape
  <2>5. x.transfers = hc.transfers
    BY ExecutedWrites
  <2> HIDE DEF c, slot, x, e
  <2> QED
    BY <1>1, <2>1, <2>4, <2>5, PostWrites, OtherEventPosted
<1>5. CASE CompleteTransfer
  <2>1. PICK t \in hc.transfers :
          Post([type |-> "control", id |-> t], [hc EXCEPT !.transfers = @ \ {t}])
    BY <1>5 DEF CompleteTransfer
  <2> DEFINE h == [hc EXCEPT !.transfers = @ \ {t}]
             e == [type |-> "control", id |-> t]
  <2>2. h \in Controllers /\ h.transfers = hc.transfers \ {t} /\ e.type = "control" /\ e.id = t
    BY <1>1 DEF Controllers
  <2>3. Post(e, h)
    BY <2>1
  <2> HIDE DEF h
  <2>4. pending' = Append(pending, e) /\ hc'.transfers = hc.transfers \ {t}
    BY <2>2, <2>3, PostWrites
  <2> SUFFICES ASSUME quiet PROVE TransferInv'
    BY <1>1 DEF TransferInv
  <2>5. PICK d \in Devices : Waits(d) /\ dev[d].slot # 0 /\ UnderWay(d)
    BY DEF TransferInv, NoTransfer, Transfer, Completed, Told
  <2>6. t = dev[d].slot /\ hc'.transfers = {}
    BY <2>4, <2>5 DEF UnderWay
  <2>7. /\ pending \in Seq(Events) /\ Len(pending) \in Nat
        /\ DOMAIN pending = 1 .. Len(pending)
    BY DEF Shape
  <2>8. /\ DOMAIN pending' = 1 .. Len(pending) + 1
        /\ \A i \in 1 .. Len(pending) : pending'[i] = pending[i]
        /\ pending'[Len(pending) + 1] = e
    BY <2>4, <2>7
  <2>9. Completed(d)'
    <3>1. \A j \in DOMAIN pending' : pending'[j].type = "control" => j = Len(pending) + 1
      BY <2>5, <2>7, <2>8 DEF UnderWay, Unheard
    <3>2. Len(pending) + 1 \in DOMAIN pending'
      BY <2>7, <2>8
    <3>3. pending'[Len(pending) + 1] = [type |-> "control", id |-> dev'[d].slot]
      BY <1>1, <2>6, <2>8
    <3>4. \E i \in DOMAIN pending' :
            /\ pending'[i] = [type |-> "control", id |-> dev'[d].slot]
            /\ \A j \in DOMAIN pending' : pending'[j].type = "control" => j = i
      BY <3>1, <3>2, <3>3
    <3>5. Unsignaled'
      BY <1>1, <2>5 DEF UnderWay, Unsignaled
    <3> QED
      BY <2>6, <3>4, <3>5 DEF Completed
  <2>10. Waits(d)'
    BY <1>1, <2>5 DEF Waits
  <2> QED
    BY <1>1, <2>5, <2>9, <2>10 DEF TransferInv, Transfer
<1>6. CASE Report
  <2>1. PICK d \in hc.configured : Post([type |-> "poll", id |-> d], hc)
    BY <1>6 DEF Report
  <2> DEFINE e == [type |-> "poll", id |-> d]
  <2>2. Post(e, hc) /\ e.type # "control"
    BY <2>1
  <2> HIDE DEF e
  <2> QED
    BY <1>1, <2>2, PostWrites, OtherEventPosted
<1> QED
  BY <1>2, <1>3, <1>4, <1>5, <1>6 DEF Controller

LEMMA TransferInvKept ==
    ASSUME Shape, EventsExact, SlotInv, TransferInv, [Next]_vars
    PROVE  TransferInv'
<1>1. CASE TimesOut \/ UNCHANGED vars
  <2>1. UNCHANGED <<drv, dev, hc, pending, quiet>>
    BY <1>1 DEF TimesOut, vars
  <2> QED
    BY <2>1 DEF TransferInv, NoTransfer, Transfer, Waits, UnderWay, Completed, Told,
       Unsignaled, Unheard
<1> QED
  BY <1>1, ThreadKeepsTransfers, HandlerKeepsTransfers, ControllerKeepsTransfers DEF Next

(* await_interrupt returns only when the transfer it waits for is over: a  *)
(* completion is for the device that waits, also when the handler runs     *)
(* late or the completions of polls and port changes come between, however *)
(* many devices there are, if no port reports a change of its own accord   *)
(* (send_control_read, xhci_interrupt0).                                   *)
THEOREM TransfersAreAwaited == Spec => []TransferAwaited
<1> DEFINE Inv == RingsInv /\ SlotInv /\ TransferInv
<1>1. Init => Inv
  BY ShapeHoldsAtBoot, RingInvAtBoot, PollInvAtBoot, SlotInvAtBoot, TransferInvAtBoot
     DEF RingsInv
<1>2. Inv /\ [Next]_vars => Inv'
  BY RingsInvKept, RingInvMeans, SlotInvKept, TransferInvKept DEF RingsInv
<1>3. Inv => TransferAwaited
  BY TransferInvMeans
<1> QED
  BY <1>1, <1>2, <1>3, PTL DEF Spec

=============================================================================
