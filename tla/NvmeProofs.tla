------------------------------ MODULE NvmeProofs ------------------------------
(***************************************************************************)
(* Proofs about the NVMe queues as the kernel uses them: the bootstrap     *)
(* core alone dispatches, on the admin queue and the first I/O queue, and  *)
(* the indices have not wrapped yet.  For every queue size.                *)
(***************************************************************************)
EXTENDS Nvme, TLAPS

OneUser ==
    /\ Cores = {Bsp}
    /\ QueuesOf[Bsp] \subseteq {0, 1}
    /\ MaxCommands <= Size - 2

Commands == Queues \X Nat

Shape ==
    /\ submission \in [Queues -> [Slots -> Commands]]
    /\ completion \in [Queues -> [Slots -> {"ok", "error"}]]
    /\ tail_value \in [Queues -> Nat] /\ head_value \in [Queues -> Nat]
    /\ outstanding \in [Queues -> Nat]
    /\ issued \in [Queues -> 0 .. MaxCommands]
    /\ pc \in [Cores -> [at : {"idle", "count", "issue", "spin"}, q : Nat]]
    /\ pc[Bsp].at # "idle" => pc[Bsp].q \in Queues
    /\ device \in [head : [Queues -> Nat], tail : [Queues -> Nat],
                   fetched : SUBSET Commands, executed : SUBSET Commands,
                   line : BOOLEAN]

(* The position of queue q: the driver's indices, the device's, and what   *)
(* is counted as outstanding.                                              *)
Position(q, tail, head, fetch, post, count) ==
    /\ tail_value[q] = tail /\ head_value[q] = head
    /\ device.head[q] = fetch /\ device.tail[q] = post
    /\ outstanding[q] = count

Settled(q) == Position(q, issued[q], issued[q], issued[q], issued[q], 0)

Counted(q) == Position(q, issued[q], issued[q], issued[q], issued[q], 1)

Line(up, fetched) == device.line = up /\ device.fetched = fetched

(* No command is on its way.                                               *)
Quiet ==
    /\ irq = IrqOff /\ Line(FALSE, {})
    /\ \A q \in Queues : pc[Bsp] # [at |-> "issue", q |-> q] => Settled(q)

(* The command under way on queue q, and where it may be.                  *)
Now(q) == Command(q, issued[q])

Issued(q) ==
    /\ irq = IrqOff /\ check_queue = {q} /\ Line(FALSE, {})
    /\ Position(q, issued[q], issued[q] - 1, issued[q] - 1, issued[q] - 1, 1)
    /\ submission[q][issued[q] - 1] = Now(q)

Fetched(q) ==
    /\ irq = IrqOff /\ check_queue = {q} /\ Line(FALSE, {Now(q)})
    /\ Position(q, issued[q], issued[q] - 1, issued[q], issued[q] - 1, 1)

Posted(q) ==
    /\ irq = IrqOff /\ check_queue = {q} /\ Line(TRUE, {})
    /\ Position(q, issued[q], issued[q] - 1, issued[q], issued[q], 1)
    /\ Now(q) \in device.executed

Found(q) ==
    /\ irq.at \in {"scan", "panic"} /\ irq.todo = {q} /\ irq.value = {q}
    /\ check_queue = {q} /\ Line(FALSE, {})
    /\ irq \in [at : {"scan", "panic"}, todo : SUBSET Queues, value : SUBSET Queues]
    /\ Position(q, issued[q], issued[q] - 1, issued[q], issued[q], 1)
    /\ Now(q) \in device.executed

Taken(q) ==
    /\ irq = [at |-> "scan", todo |-> {}, value |-> {}]
    /\ check_queue = {q} /\ Line(FALSE, {})
    /\ Settled(q) /\ Now(q) \in device.executed

Handled(q) ==
    /\ irq = IrqOff /\ check_queue = {} /\ Line(FALSE, {})
    /\ Settled(q) /\ Now(q) \in device.executed

UnderWay(q) ==
    /\ issued[q] \in 1 .. MaxCommands
    /\ \A r \in Queues \ {q} : Settled(r)
    /\ \/ Issued(q) \/ Fetched(q) \/ Posted(q)
       \/ Found(q) \/ Taken(q) \/ Handled(q)

(* The inductive invariant: what core, device and handler know of a        *)
(* command at each point of its way.                                       *)
IInv ==
    /\ Shape
    /\ pc[Bsp].at = "idle" => Quiet /\ check_queue = {}
    /\ pc[Bsp].at \in {"count", "issue"} =>
         Quiet /\ check_queue = {pc[Bsp].q} /\ issued[pc[Bsp].q] < MaxCommands
    /\ pc[Bsp].at = "issue" => Counted(pc[Bsp].q)
    /\ pc[Bsp].at = "spin" => UnderWay(pc[Bsp].q)
    /\ DispatchDone

-----------------------------------------------------------------------------
(* The few queues of a single core. *)
LEMMA OneUserQueues ==
    OneUser => Queues = QueuesOf[Bsp] /\ Queues \subseteq {0, 1} /\ Queues \subseteq Nat
  BY NvmeAssumption DEF OneUser, Queues

(* Indices that have not reached the end advance by one in both rings.     *)
LEMMA NoWrap ==
    ASSUME OneUser, NEW k \in 0 .. (MaxCommands - 1)
    PROVE  /\ (k + 1) % (Size - 1) = k + 1 /\ (k + 1) % Size = k + 1
           /\ k \in Slots
  BY NvmeAssumption DEF OneUser, Slots

LEMMA InitEstablishes == OneUser /\ Init => IInv
<1> SUFFICES ASSUME OneUser, Init PROVE IInv
  OBVIOUS
<1>1. Shape
  BY OneUserQueues, NvmeAssumption DEF Init, Shape, Idle, Commands, Empty
<1>2. pc[Bsp] = Idle /\ Quiet /\ check_queue = {}
  BY NvmeAssumption DEF Init, Quiet, Settled, Position, Line, Idle
<1>3. DispatchDone
  BY DEF Init, DispatchDone
<1> QED
  BY <1>1, <1>2, <1>3 DEF IInv, Idle

(* dispatch_read and its relatives, on the bootstrap core. *)
LEMMA SetCheckBitKeeps ==
    ASSUME OneUser, IInv, NEW q \in QueuesOf[Bsp], SetCheckBit(Bsp, q)
    PROVE  IInv'
<1> USE DEF SetCheckBit, At, Idle
<1>1. q \in Queues /\ q \in Nat /\ Bsp \in Cores
  BY OneUserQueues, NvmeAssumption
<1>2. pc' = [pc EXCEPT ![Bsp] = [at |-> "count", q |-> q]]
      /\ pc'[Bsp] = [at |-> "count", q |-> q]
  BY <1>1 DEF IInv, Shape
<1>3. Shape'
  BY <1>1, <1>2 DEF IInv, Shape
<1>4. Quiet'
  BY <1>2 DEF IInv, Quiet, Line, Settled, Position
<1>5. check_queue' = {q} /\ issued'[q] < MaxCommands /\ DispatchDone'
  BY DEF IInv, DispatchDone
<1> QED
  BY <1>2, <1>3, <1>4, <1>5 DEF IInv

LEMMA CountOutstandingKeeps ==
    ASSUME OneUser, IInv, NEW q \in QueuesOf[Bsp], CountOutstanding(Bsp, q)
    PROVE  IInv'
<1> USE DEF CountOutstanding, At
<1>1. q \in Queues /\ q \in Nat /\ Bsp \in Cores
  BY OneUserQueues, NvmeAssumption
<1>2. pc[Bsp] = [at |-> "count", q |-> q] /\ pc'[Bsp] = [at |-> "issue", q |-> q]
  BY <1>1 DEF IInv, Shape
<1>3. Settled(q) /\ issued[q] < MaxCommands
  BY <1>1, <1>2 DEF IInv, Quiet
<1>4. outstanding' = [outstanding EXCEPT ![q] = 1]
  BY <1>1, <1>3 DEF IInv, Shape, Settled, Position
<1>5. Shape'
  BY <1>1, <1>2, <1>4 DEF IInv, Shape
<1>6. Quiet'
  BY <1>1, <1>2, <1>4 DEF IInv, Shape, Quiet, Line, Settled, Position
<1>7. Counted(q)'
  BY <1>1, <1>3, <1>4 DEF IInv, Shape, Settled, Counted, Position
<1>8. check_queue' = {q} /\ issued'[q] < MaxCommands /\ DispatchDone'
  BY <1>2, <1>3 DEF IInv, DispatchDone
<1> QED
  BY <1>2, <1>5, <1>6, <1>7, <1>8 DEF IInv

LEMMA IssueKeeps ==
    ASSUME OneUser, IInv, NEW q \in QueuesOf[Bsp], Issue(Bsp, q)
    PROVE  IInv'
<1> USE DEF Issue, At
<1>1. q \in Queues /\ q \in Nat /\ Bsp \in Cores
  BY OneUserQueues, NvmeAssumption
<1>2. pc[Bsp] = [at |-> "issue", q |-> q] /\ pc'[Bsp] = [at |-> "spin", q |-> q]
  BY <1>1 DEF IInv, Shape
<1>3. /\ Counted(q) /\ Quiet /\ check_queue = {q}
      /\ issued[q] \in 0 .. (MaxCommands - 1)
  BY <1>1, <1>2, NvmeAssumption DEF IInv, Shape
<1>4. Advance(issued[q]) = issued[q] + 1 /\ issued[q] \in Slots
  BY <1>3, NoWrap DEF Advance
<1>5. /\ issued' = [issued EXCEPT ![q] = issued[q] + 1]
      /\ tail_value' = [tail_value EXCEPT ![q] = issued[q] + 1]
      /\ submission' = [submission EXCEPT ![q][issued[q]] = Command(q, issued[q] + 1)]
      /\ UNCHANGED <<head_value, check_queue, outstanding, completion, irq, device, returned>>
  BY <1>1, <1>3, <1>4 DEF IInv, Shape, Counted, Position
<1>6. issued'[q] = issued[q] + 1 /\ issued'[q] \in 1 .. MaxCommands
      /\ \A r \in Queues \ {q} : issued'[r] = issued[r]
  BY <1>1, <1>3, <1>5, NvmeAssumption DEF IInv, Shape
<1>7. Shape'
  <2>1. Command(q, issued[q] + 1) \in Commands
    BY <1>1, <1>3 DEF Command, Commands
  <2>2. submission' \in [Queues -> [Slots -> Commands]]
    <3>1. submission \in [Queues -> [Slots -> Commands]]
      BY DEF IInv, Shape
    <3>2. [submission[q] EXCEPT ![issued[q]] = Command(q, issued[q] + 1)] \in [Slots -> Commands]
      BY <1>1, <2>1, <3>1
    <3> QED
      BY <1>1, <1>5, <3>1, <3>2
  <2>3. issued' \in [Queues -> 0 .. MaxCommands] /\ tail_value' \in [Queues -> Nat]
    BY <1>1, <1>3, <1>5, <1>6 DEF IInv, Shape
  <2> QED
    BY <1>1, <1>2, <1>5, <2>2, <2>3 DEF IInv, Shape
<1>8. Issued(q)'
  <2>1. submission'[q][issued[q]] = Command(q, issued[q] + 1)
    BY <1>1, <1>4, <1>5 DEF IInv, Shape
  <2>2. issued'[q] - 1 = issued[q]
    BY <1>3, <1>6
  <2>3. irq' = IrqOff /\ check_queue' = {q} /\ Line(FALSE, {})'
    BY <1>3, <1>5 DEF Quiet, Line
  <2>4. Position(q, issued[q], issued[q] - 1, issued[q] - 1, issued[q] - 1, 1)'
    BY <1>1, <1>3, <1>5, <1>6, <2>2 DEF IInv, Shape, Counted, Position
  <2>5. (submission[q][issued[q] - 1] = Now(q))'
    BY <1>6, <2>1, <2>2 DEF Now
  <2> QED
    BY <2>3, <2>4, <2>5 DEF Issued
<1>9. \A r \in Queues \ {q} : Settled(r)'
  <2>1. \A r \in Queues \ {q} : Settled(r)
    <3>1. pc[Bsp].q = q
      BY <1>2
    <3>2. \A r \in Queues \ {q} : pc[Bsp] # [at |-> "issue", q |-> r]
      BY <3>1
    <3> QED
      BY <1>3, <3>2 DEF Quiet
  <2>2. \A r \in Queues \ {q} : tail_value'[r] = tail_value[r]
    BY <1>1, <1>5 DEF IInv, Shape
  <2> QED
    BY <1>5, <1>6, <2>1, <2>2 DEF Settled, Position
<1>10. UnderWay(q)'
  BY <1>6, <1>8, <1>9 DEF UnderWay
<1>11. DispatchDone'
  BY <1>5 DEF IInv, DispatchDone
<1> QED
  BY <1>2, <1>7, <1>10, <1>11 DEF IInv

(* dispatch_* returns only when the handler has written the bit back. *)
LEMMA DispatchReturnKeeps ==
    ASSUME OneUser, IInv, NEW q \in QueuesOf[Bsp], DispatchReturn(Bsp, q)
    PROVE  IInv'
<1> USE DEF DispatchReturn, Idle
<1>1. q \in Queues /\ q \in Nat /\ Bsp \in Cores
  BY OneUserQueues, NvmeAssumption
<1>2. pc[Bsp] = [at |-> "spin", q |-> q] /\ pc'[Bsp] = [at |-> "idle", q |-> 0]
  BY <1>1 DEF IInv, Shape
<1>3. Handled(q) /\ \A r \in Queues : Settled(r)
  <2>1. UnderWay(q) /\ q \notin check_queue
    BY <1>2 DEF IInv
  <2>2. Handled(q)
    BY <2>1 DEF UnderWay, Issued, Fetched, Posted, Found, Taken
  <2> QED
    BY <2>1, <2>2 DEF UnderWay, Handled
<1>4. /\ UNCHANGED <<submission, tail_value, head_value, check_queue, outstanding, issued,
                     completion, irq, device>>
      /\ returned' = returned \cup {Now(q)}
  BY DEF hostVars, Now
<1>5. Shape'
  BY <1>1, <1>2, <1>4 DEF IInv, Shape
<1>6. Quiet' /\ check_queue' = {}
  BY <1>2, <1>3, <1>4 DEF Quiet, Handled, Settled, Position, Line
<1>7. DispatchDone'
  BY <1>3, <1>4 DEF IInv, DispatchDone, Handled
<1> QED
  BY <1>2, <1>5, <1>6, <1>7 DEF IInv

(* Without a command on its way there is nothing for the device.           *)
LEMMA DeviceNeedsCommand ==
    ASSUME OneUser, IInv, Device \/ Irq
    PROVE  pc[Bsp].at = "spin" /\ pc[Bsp].q \in Queues /\ UnderWay(pc[Bsp].q)
<1>1. pc[Bsp].at \in {"idle", "count", "issue", "spin"} /\ Bsp \in Cores
  BY NvmeAssumption DEF IInv, Shape
<1>2. CASE pc[Bsp].at # "spin"
  <2>1. Quiet
    BY <1>1, <1>2 DEF IInv
  <2>2. \A q \in Queues : device.head[q] = tail_value[q]
    <3> SUFFICES ASSUME NEW q \in Queues PROVE device.head[q] = tail_value[q]
      OBVIOUS
    <3>1. CASE pc[Bsp] = [at |-> "issue", q |-> q]
      <4>1. pc[Bsp].at = "issue" /\ pc[Bsp].q = q
        BY <3>1
      <4> QED
        BY <4>1 DEF IInv, Counted, Position
    <3>2. CASE pc[Bsp] # [at |-> "issue", q |-> q]
      BY <2>1, <3>2 DEF Quiet, Settled, Position
    <3> QED
      BY <3>1, <3>2
  <2> QED
    BY <2>1, <2>2 DEF Quiet, Line, IrqOff, Device, Fetch, Irq, IrqEnter, IrqQueue, IrqPanic,
       IrqExit
<1>3. CASE pc[Bsp].at = "spin"
  BY <1>1, <1>3 DEF IInv, Shape
<1> QED
  BY <1>2, <1>3

(* The device takes the command the doorbell announced. *)
LEMMA FetchKeeps ==
    ASSUME OneUser, IInv, NEW p \in Queues, Fetch(p)
    PROVE  IInv'
<1> DEFINE q == pc[Bsp].q
<1>1. pc[Bsp].at = "spin" /\ q \in Queues /\ UnderWay(q)
  BY DeviceNeedsCommand DEF Device
<1>2. p = q /\ Issued(q)
  BY <1>1, NvmeAssumption
     DEF UnderWay, Fetch, Settled, Position, Fetched, Posted, Found, Taken, Handled, Issued
<1>3. /\ issued[q] - 1 \in 0 .. (MaxCommands - 1) /\ issued[q] \in Nat
      /\ device.head[q] = issued[q] - 1
      /\ submission[q][issued[q] - 1] = Now(q) /\ device.fetched = {}
  BY <1>1, <1>2, NvmeAssumption DEF UnderWay, Issued, Position, Line
<1>4. (device.head[q] + 1) % Size = issued[q]
  BY <1>3, NoWrap
<1>5. Now(q) \in Commands
  BY <1>1, <1>3 DEF Now, Command, Commands
<1>6. /\ device' = [device EXCEPT !.head[q] = issued[q], !.fetched = {Now(q)}]
      /\ UNCHANGED <<submission, tail_value, head_value, check_queue, outstanding, issued,
                     completion, pc, irq, returned>>
  BY <1>2, <1>3, <1>4 DEF Fetch, hostVars
<1>7. [device.head EXCEPT ![q] = issued[q]] \in [Queues -> Nat]
  BY <1>1, <1>3 DEF IInv, Shape
<1>8. /\ device'.head = [device.head EXCEPT ![q] = issued[q]]
      /\ device'.tail = device.tail /\ device'.fetched = {Now(q)}
      /\ device'.executed = device.executed /\ device'.line = device.line
  BY <1>6 DEF IInv, Shape
<1>9. Shape'
  <2>1. device' \in [head : [Queues -> Nat], tail : [Queues -> Nat],
                     fetched : SUBSET Commands, executed : SUBSET Commands, line : BOOLEAN]
    BY <1>5, <1>6, <1>7 DEF IInv, Shape
  <2> QED
    BY <1>6, <2>1 DEF IInv, Shape
<1>10. Fetched(q)'
  BY <1>1, <1>2, <1>6, <1>8 DEF Issued, Fetched, Position, Line, Now, IInv, Shape
<1>11. \A r \in Queues \ {q} : Settled(r)'
  BY <1>1, <1>6, <1>8 DEF UnderWay, Settled, Position, IInv, Shape
<1>12. UnderWay(q)' /\ DispatchDone'
  BY <1>1, <1>6, <1>8, <1>10, <1>11 DEF UnderWay, IInv, DispatchDone
<1> QED
  BY <1>1, <1>6, <1>9, <1>12 DEF IInv

(* It posts the completion where the driver will look for it. *)
LEMMA PostKeeps ==
    ASSUME OneUser, IInv, NEW cmd \in device.fetched, Post(cmd)
    PROVE  IInv'
<1> DEFINE q == pc[Bsp].q
<1>1. pc[Bsp].at = "spin" /\ q \in Queues /\ UnderWay(q)
  BY DeviceNeedsCommand DEF Device
<1>2. cmd = Now(q) /\ Fetched(q)
  BY <1>1 DEF UnderWay, Issued, Fetched, Posted, Found, Taken, Handled, Line
<1>3. /\ issued[q] - 1 \in 0 .. (MaxCommands - 1) /\ issued[q] \in Nat
      /\ device.tail[q] = issued[q] - 1 /\ device.fetched = {cmd}
  BY <1>1, <1>2, NvmeAssumption DEF UnderWay, Fetched, Position, Line
<1>4. (device.tail[q] + 1) % Size = issued[q] /\ device.tail[q] \in Slots
  BY <1>3, NoWrap
<1>5. CompletionQueueOf(cmd[1]) = q
  BY <1>1, <1>2, OneUserQueues DEF Now, Command, CompletionQueueOf
<1>6. /\ device' = [device EXCEPT !.tail[q] = issued[q], !.fetched = {},
                                  !.executed = device.executed \cup {cmd}, !.line = TRUE]
      /\ UNCHANGED <<submission, tail_value, head_value, check_queue, outstanding, issued,
                     pc, irq, returned>>
  BY <1>3, <1>4, <1>5 DEF Post, hostVars
<1>7. cmd \in Commands /\ [device.tail EXCEPT ![q] = issued[q]] \in [Queues -> Nat]
  BY <1>1, <1>3 DEF IInv, Shape
<1>8. /\ device'.tail = [device.tail EXCEPT ![q] = issued[q]]
      /\ device'.head = device.head /\ device'.fetched = {}
      /\ device'.executed = device.executed \cup {cmd} /\ device'.line = TRUE
  BY <1>6 DEF IInv, Shape
<1>9. Shape'
  <2>1. device' \in [head : [Queues -> Nat], tail : [Queues -> Nat],
                     fetched : SUBSET Commands, executed : SUBSET Commands, line : BOOLEAN]
    BY <1>6, <1>7 DEF IInv, Shape
  <2>2. PICK status \in {"ok", "error"} :
          completion' = [completion EXCEPT ![q][device.tail[q]] = status]
    BY <1>5 DEF Post, StatusOf
  <2>3. completion \in [Queues -> [Slots -> {"ok", "error"}]]
    BY DEF IInv, Shape
  <2>4. [completion[q] EXCEPT ![device.tail[q]] = status] \in [Slots -> {"ok", "error"}]
    BY <1>1, <1>4, <2>3
  <2>5. completion' \in [Queues -> [Slots -> {"ok", "error"}]]
    BY <1>1, <2>2, <2>3, <2>4
  <2> QED
    BY <1>6, <2>1, <2>5 DEF IInv, Shape
<1>10. Posted(q)'
  BY <1>1, <1>2, <1>6, <1>8 DEF Fetched, Posted, Position, Line, Now, IInv, Shape
<1>11. \A r \in Queues \ {q} : Settled(r)'
  BY <1>1, <1>6, <1>8 DEF UnderWay, Settled, Position, IInv, Shape
<1>12. UnderWay(q)' /\ DispatchDone'
  BY <1>1, <1>6, <1>8, <1>10, <1>11 DEF UnderWay, IInv, DispatchDone
<1> QED
  BY <1>1, <1>6, <1>9, <1>12 DEF IInv

-----------------------------------------------------------------------------
(* The handler's position says how far the command under way is. *)
LEMMA HandlerPhase ==
    ASSUME NEW q, UnderWay(q)
    PROVE  \/ irq.at = "off" /\ (Issued(q) \/ Fetched(q) \/ Posted(q) \/ Handled(q))
           \/ irq.at \in {"scan", "panic"} /\ irq.todo = {q} /\ Found(q)
           \/ irq.at = "scan" /\ irq.todo = {} /\ Taken(q)
<1>1. CASE Issued(q) \/ Fetched(q) \/ Posted(q) \/ Handled(q)
  <2>1. irq = IrqOff
    BY <1>1 DEF Issued, Fetched, Posted, Handled
  <2> QED
    BY <1>1, <2>1 DEF IrqOff
<1>2. CASE Found(q)
  BY <1>2 DEF Found
<1>3. CASE Taken(q)
  <2>1. irq = [at |-> "scan", todo |-> {}, value |-> {}]
    BY <1>3 DEF Taken
  <2> QED
    BY <1>3, <2>1
<1> QED
  BY <1>1, <1>2, <1>3 DEF UnderWay

(* The handler finds the bit of the command under way. *)
LEMMA IrqEnterKeeps ==
    ASSUME OneUser, IInv, IrqEnter
    PROVE  IInv'
<1> DEFINE q == pc[Bsp].q
<1>1. pc[Bsp].at = "spin" /\ q \in Queues /\ UnderWay(q)
  BY DeviceNeedsCommand DEF Irq
<1>2. Posted(q)
  BY <1>1 DEF UnderWay, Issued, Fetched, Posted, Found, Taken, Handled, Line, IrqEnter
<1>3. /\ device' = [device EXCEPT !.line = FALSE]
      /\ UNCHANGED <<submission, tail_value, head_value, check_queue, outstanding, issued,
                     completion, pc, returned>>
      /\ irq' = [at |-> "scan", todo |-> {q}, value |-> {q}]
  BY <1>2 DEF IrqEnter, hostVars, Posted
<1>4. /\ device'.head = device.head /\ device'.tail = device.tail /\ device'.line = FALSE
      /\ device'.fetched = device.fetched /\ device'.executed = device.executed
  BY <1>3 DEF IInv, Shape
<1>5. Shape'
  BY <1>3 DEF IInv, Shape
<1>6. Found(q)'
  BY <1>1, <1>2, <1>3, <1>4 DEF Found, Posted, Position, Line, Now
<1>7. \A r \in Queues \ {q} : Settled(r)'
  BY <1>1, <1>3, <1>4 DEF UnderWay, Settled, Position
<1>8. UnderWay(q)' /\ DispatchDone'
  BY <1>1, <1>3, <1>4, <1>6, <1>7 DEF UnderWay, IInv, DispatchDone
<1> QED
  BY <1>1, <1>3, <1>5, <1>8 DEF IInv

(* It takes one entry, the one the device posted for that command. *)
LEMMA IrqQueueKeeps ==
    ASSUME OneUser, IInv, IrqQueue
    PROVE  IInv'
<1> DEFINE q == pc[Bsp].q
<1>1. pc[Bsp].at = "spin" /\ q \in Queues /\ UnderWay(q)
  BY DeviceNeedsCommand DEF Irq
<1>2. Found(q) /\ LowestOf(irq.todo) = q
  <2>1. Found(q)
    BY <1>1, HandlerPhase DEF IrqQueue
  <2>2. \A r \in {q} : q <= r
    BY <1>1, OneUserQueues
  <2> QED
    BY <2>1, <2>2 DEF LowestOf, Found
<1>3. /\ issued[q] - 1 \in 0 .. (MaxCommands - 1) /\ issued[q] \in Nat
      /\ head_value[q] = issued[q] - 1 /\ outstanding[q] = 1
  BY <1>1, <1>2, NvmeAssumption DEF UnderWay, Found, Position
<1>4. HeadAfter(q, outstanding[q]) = issued[q]
  BY <1>3, NoWrap DEF HeadAfter
<1>5. /\ head_value' = [head_value EXCEPT ![q] = issued[q]]
      /\ outstanding' = [outstanding EXCEPT ![q] = 0]
      /\ UNCHANGED <<submission, tail_value, check_queue, issued, completion, pc, device,
                     returned>>
      /\ irq' = [irq EXCEPT !.todo = irq.todo \ {q}, !.value = irq.value \ {q}]
      /\ irq.at = "scan"
  BY <1>2, <1>4 DEF IrqQueue
<1>6. irq' = [at |-> "scan", todo |-> {}, value |-> {}]
  BY <1>2, <1>5 DEF Found
<1>7. Shape'
  BY <1>1, <1>3, <1>5 DEF IInv, Shape
<1>8. Taken(q)'
  BY <1>1, <1>2, <1>5, <1>6 DEF Found, Taken, Settled, Position, Line, Now, IInv, Shape
<1>9. \A r \in Queues \ {q} : Settled(r)'
  BY <1>1, <1>5 DEF UnderWay, Settled, Position, IInv, Shape
<1>10. UnderWay(q)' /\ DispatchDone'
  BY <1>1, <1>5, <1>8, <1>9 DEF UnderWay, IInv, DispatchDone
<1> QED
  BY <1>1, <1>5, <1>7, <1>10 DEF IInv

LEMMA IrqPanicKeeps ==
    ASSUME OneUser, IInv, IrqPanic
    PROVE  IInv'
<1> DEFINE q == pc[Bsp].q
<1>1. pc[Bsp].at = "spin" /\ q \in Queues /\ UnderWay(q)
  BY DeviceNeedsCommand DEF Irq
<1>2. Found(q)
  BY <1>1, HandlerPhase DEF IrqPanic
<1>3. /\ UNCHANGED <<submission, tail_value, head_value, check_queue, outstanding, issued,
                     completion, pc, device, returned>>
      /\ irq' = [irq EXCEPT !.at = "panic"]
  BY DEF IrqPanic, hostVars
<1>4. Shape'
  BY <1>3 DEF IInv, Shape
<1>5. Found(q)'
  BY <1>2, <1>3 DEF Found, Position, Line, Now
<1>6. UnderWay(q)' /\ DispatchDone'
  BY <1>1, <1>3, <1>5 DEF UnderWay, Settled, Position, IInv, DispatchDone
<1> QED
  BY <1>1, <1>3, <1>4, <1>6 DEF IInv

(* It writes back the bits it did not handle: none. *)
LEMMA IrqExitKeeps ==
    ASSUME OneUser, IInv, IrqExit
    PROVE  IInv'
<1> DEFINE q == pc[Bsp].q
<1>1. pc[Bsp].at = "spin" /\ q \in Queues /\ UnderWay(q)
  BY DeviceNeedsCommand DEF Irq
<1>2. Taken(q)
  BY <1>1, HandlerPhase DEF IrqExit
<1>3. /\ UNCHANGED <<submission, tail_value, head_value, outstanding, issued,
                     completion, pc, device, returned>>
      /\ irq' = IrqOff /\ check_queue' = {}
  BY <1>2 DEF IrqExit, Taken
<1>4. Shape'
  BY <1>3 DEF IInv, Shape
<1>5. Handled(q)'
  BY <1>2, <1>3 DEF Taken, Handled, Settled, Position, Line, Now
<1>6. UnderWay(q)' /\ DispatchDone'
  BY <1>1, <1>3, <1>5 DEF UnderWay, Settled, Position, IInv, DispatchDone
<1> QED
  BY <1>1, <1>3, <1>4, <1>6 DEF IInv

LEMMA NextKeeps ==
    ASSUME OneUser, IInv, [Next]_vars
    PROVE  IInv'
<1>1. ASSUME NEW c \in Cores, Dispatch(c) PROVE IInv'
  <2>1. c = Bsp
    BY DEF OneUser
  <2>2. PICK q \in QueuesOf[Bsp] : \/ SetCheckBit(Bsp, q) \/ CountOutstanding(Bsp, q)
                                   \/ Issue(Bsp, q) \/ DispatchReturn(Bsp, q)
    BY <1>1, <2>1 DEF Dispatch
  <2> QED
    BY <2>2, SetCheckBitKeeps, CountOutstandingKeeps, IssueKeeps, DispatchReturnKeeps
<1>2. CASE Device
  BY <1>2, FetchKeeps, PostKeeps DEF Device
<1>3. CASE Irq
  BY <1>3, IrqEnterKeeps, IrqQueueKeeps, IrqPanicKeeps, IrqExitKeeps DEF Irq
<1>4. CASE UNCHANGED vars
  BY <1>4 DEF vars, hostVars, IInv, Shape, Quiet, UnderWay, Issued, Fetched, Posted, Found, Taken,
     Handled, Settled, Counted, Position, Line, Now, DispatchDone
<1> QED
  BY <1>1, <1>2, <1>3, <1>4 DEF Next

LEMMA Invariance == OneUser => (Spec => []IInv)
<1> SUFFICES ASSUME OneUser PROVE Spec => []IInv
  OBVIOUS
<1>1. Init => IInv
  BY InitEstablishes
<1>2. IInv /\ [Next]_vars => IInv'
  BY NextKeeps
<1> QED
  BY <1>1, <1>2, PTL DEF Spec

-----------------------------------------------------------------------------
(* dispatch_admin and its relatives return only commands the device has    *)
(* executed: the caller may use the buffer.                                *)
THEOREM DispatchedIsDone == OneUser => (Spec => []DispatchDone)
<1>1. IInv => DispatchDone
  BY DEF IInv
<1> QED
  BY <1>1, Invariance, PTL

(* When nothing is under way the driver's two indices are the device's,    *)
(* and nothing is counted as outstanding.                                  *)
THEOREM QuiescentQueuesAgree == OneUser => (Spec => []QuiescentAgree)
<1>1. ASSUME IInv PROVE QuiescentAgree
  <2>1. ASSUME pc[Bsp] = Idle PROVE \A q \in Queues : Settled(q)
    <3>1. pc[Bsp].at = "idle"
      BY <2>1 DEF Idle
    <3>2. \A q \in Queues : pc[Bsp] # [at |-> "issue", q |-> q]
      <4>1. \A q \in Queues : [at |-> "issue", q |-> q].at = "issue"
        OBVIOUS
      <4> QED
        BY <3>1, <4>1
    <3> QED
      BY <1>1, <3>1, <3>2 DEF IInv, Quiet
  <2> QED
    BY <2>1, NvmeAssumption DEF QuiescentAgree, Settled, Position
<1> QED
  BY <1>1, Invariance, PTL

=============================================================================
