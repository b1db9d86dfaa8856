-------------------------------- MODULE Nvme ---------------------------------
(***************************************************************************)
(* The NVMe driver's queues (drivers/disk/nvme.rs, nvme_queue.rs): cores   *)
(* dispatch one command at a time on their own queue pair and spin on a    *)
(* bit of check_queue; nvme_irq, which runs on the bootstrap core, takes   *)
(* num_outstanding_completions entries off each queue whose bit is set and *)
(* clears the bit.  The device is modelled from how the driver uses it.    *)
(*                                                                         *)
(* The driver tells the device that a queue has `size` entries and itself  *)
(* advances modulo size - 1.  It does not look at the phase bit.           *)
(***************************************************************************)
EXTENDS Integers, FiniteSets

CONSTANTS
  Cores,        \* cores that do disk I/O
  Bsp,          \* the core that takes the interrupt
  QueuesOf,     \* the queues each core dispatches on (0 is the admin queue)
  Size,         \* entries of a queue
  MayFail,      \* whether a command the driver issued may fail
  MaxCommands   \* bound: commands per queue

Queues == UNION {QueuesOf[c] : c \in Cores}

ASSUME NvmeAssumption ==
    /\ Bsp \in Cores
    /\ Size \in Nat /\ Size > 2
    /\ MaxCommands \in Nat
    /\ MayFail \in BOOLEAN
    /\ \A c \in Cores : QueuesOf[c] \subseteq Nat

VARIABLES
  submission,    \* submission queue memory
  completion,    \* completion queue memory: status of each entry
  tail_value, head_value,   \* the driver's indices, written to the doorbells
  check_queue,   \* queues somebody waits on
  outstanding,   \* num_outstanding_completions
  issued,        \* commands issued on each queue so far
  pc,            \* what each core does
  irq,           \* nvme_irq: off, or between two of its accesses
  device,        \* the device's side of the queues
  returned       \* commands whose dispatch has returned

hostVars == <<submission, tail_value, head_value, check_queue, outstanding, issued>>

vars == <<hostVars, completion, pc, irq, device, returned>>

Slots == 0 .. (Size - 1)

Empty == 0      \* an entry that was zeroed and never written

Command(q, k) == <<q, k>>

Idle == [at |-> "idle", q |-> 0]

IrqOff == [at |-> "off", todo |-> {}, value |-> {}]

Init ==
    /\ submission = [q \in Queues |-> [s \in Slots |-> <<q, Empty>>]]
    /\ completion = [q \in Queues |-> [s \in Slots |-> "ok"]]
    /\ tail_value = [q \in Queues |-> 0]
    /\ head_value = [q \in Queues |-> 0]
    /\ check_queue = {}
    /\ outstanding = [q \in Queues |-> 0]
    /\ issued = [q \in Queues |-> 0]
    /\ pc = [c \in Cores |-> Idle]
    /\ irq = IrqOff
    /\ device = [head |-> [q \in Queues |-> 0], tail |-> [q \in Queues |-> 0],
                 fetched |-> {}, executed |-> {}, line |-> FALSE]
    /\ returned = {}
-----------------------------------------------------------------------------
(***************************************************************************)
(* dispatch_admin, dispatch_read, dispatch_write on core c and queue q.    *)
(* The interrupt handler stops what the bootstrap core was doing.          *)
(***************************************************************************)
MayRun(c) == c = Bsp => irq.at = "off"

At(c, at, q) == pc' = [pc EXCEPT ![c] = [at |-> at, q |-> q]]

SetCheckBit(c, q) ==
    /\ MayRun(c) /\ pc[c] = Idle /\ issued[q] < MaxCommands
    /\ check_queue' = check_queue \cup {q}
    /\ At(c, "count", q)
    /\ UNCHANGED <<submission, tail_value, head_value, outstanding, issued,
                   completion, irq, device, returned>>

(* = 1 on the admin queue, += 1 on the others. *)
CountOutstanding(c, q) ==
    /\ MayRun(c) /\ pc[c] = [at |-> "count", q |-> q]
    /\ outstanding' = [outstanding EXCEPT ![q] = IF q = 0 THEN 1 ELSE @ + 1]
    /\ At(c, "issue", q)
    /\ UNCHANGED <<submission, tail_value, head_value, check_queue, issued,
                   completion, irq, device, returned>>

Advance(i) == (i + 1) % (Size - 1)

(* issue_general, issue_read, issue_write: the entry, then the doorbell. *)
Issue(c, q) ==
    /\ MayRun(c) /\ pc[c] = [at |-> "issue", q |-> q]
    /\ issued' = [issued EXCEPT ![q] = @ + 1]
    /\ submission' = [submission EXCEPT ![q][tail_value[q]] = Command(q, issued[q] + 1)]
    /\ tail_value' = [tail_value EXCEPT ![q] = Advance(@)]
    /\ At(c, "spin", q)
    /\ UNCHANGED <<head_value, check_queue, outstanding, completion, irq,
                   device, returned>>

DispatchReturn(c, q) ==
    /\ MayRun(c) /\ pc[c] = [at |-> "spin", q |-> q]
    /\ q \notin check_queue
    /\ returned' = returned \cup {Command(q, issued[q])}
    /\ pc' = [pc EXCEPT ![c] = Idle]
    /\ UNCHANGED <<hostVars, completion, irq, device>>
-----------------------------------------------------------------------------
(***************************************************************************)
(* The device.  It fetches every entry between its head and the tail       *)
(* doorbell, executes what it fetched in any order, and posts completions  *)
(* while the completion queue is not full.  An entry that was never        *)
(* written is an invalid command; another one fails only if MayFail.       *)
(***************************************************************************)
Fetch(q) ==
    /\ device.head[q] # tail_value[q]
    /\ device' = [device EXCEPT
                    !.head[q] = (@ + 1) % Size,
                    !.fetched = @ \cup {submission[q][device.head[q]]}]
    /\ UNCHANGED <<hostVars, completion, pc, irq, returned>>

(* create_io_pair passes cqid 1 for every queue it creates. *)
CompletionQueueOf(q) == IF q = 0 THEN 0 ELSE 1

StatusOf(cmd) ==
    CASE cmd[2] = Empty -> {"error"}
      [] cmd[2] # Empty /\ MayFail -> {"ok", "error"}
      [] OTHER -> {"ok"}

Post(cmd) ==
    LET cq == CompletionQueueOf(cmd[1])
        slot == device.tail[cq]
    IN
    /\ (slot + 1) % Size # head_value[cq]
    /\ \E status \in StatusOf(cmd) :
         completion' = [completion EXCEPT ![cq][slot] = status]
    /\ device' = [device EXCEPT !.tail[cq] = (@ + 1) % Size,
                                !.fetched = @ \ {cmd},
                                !.executed = @ \cup {cmd},
                                !.line = TRUE]
    /\ UNCHANGED <<hostVars, pc, irq, returned>>
-----------------------------------------------------------------------------
(***************************************************************************)
(* nvme_irq.  check_queue is read once at the start and written back, with *)
(* the handled bits cleared, at the end.                                   *)
(***************************************************************************)
(* Mutant: the interrupt is not acknowledged and is delivered again. *)
IrqEnterSpurious ==
    /\ irq.at = "off" /\ device.line
    /\ irq' = [at |-> "scan", todo |-> check_queue, value |-> check_queue]
    /\ UNCHANGED <<hostVars, completion, pc, device, returned>>

IrqEnter ==
    /\ irq.at = "off" /\ device.line
    /\ device' = [device EXCEPT !.line = FALSE]
    /\ irq' = [at |-> "scan", todo |-> check_queue, value |-> check_queue]
    /\ UNCHANGED <<hostVars, completion, pc, returned>>

(* Mutant: the entries are read but the head stays where it was. *)
HeadStays(q, n) == head_value[q]

(* unissue_silent: the entry at the head, whatever its phase. *)
HeadAfter(q, n) == (head_value[q] + n) % (Size - 1)

AllOk(q) ==
    \A i \in 0 .. (outstanding[q] - 1) : completion[q][HeadAfter(q, i)] = "ok"

LowestOf(S) == CHOOSE q \in S : \A r \in S : q <= r

IrqQueue ==
    /\ irq.at = "scan" /\ irq.todo # {}
    /\ LET q == LowestOf(irq.todo) IN
         /\ AllOk(q)
         /\ head_value' = [head_value EXCEPT ![q] = HeadAfter(q, outstanding[q])]
         /\ outstanding' = [outstanding EXCEPT ![q] = 0]
         /\ irq' = [irq EXCEPT !.todo = @ \ {q}, !.value = @ \ {q}]
    /\ UNCHANGED <<submission, tail_value, check_queue, issued, completion, pc,
                   device, returned>>

(* "irq: Queue Command failed": simple_kernel_panic. *)
IrqPanic ==
    /\ irq.at = "scan" /\ irq.todo # {}
    /\ ~AllOk(LowestOf(irq.todo))
    /\ irq' = [irq EXCEPT !.at = "panic"]
    /\ UNCHANGED <<hostVars, completion, pc, device, returned>>

(* Mutant: the bits are never written back. *)
IrqForgets ==
    /\ irq.at = "scan" /\ irq.todo = {}
    /\ irq' = IrqOff
    /\ UNCHANGED <<hostVars, completion, pc, device, returned>>

IrqExit ==
    /\ irq.at = "scan" /\ irq.todo = {}
    /\ check_queue' = irq.value
    /\ irq' = IrqOff
    /\ UNCHANGED <<submission, tail_value, head_value, outstanding, issued,
                   completion, pc, device, returned>>
-----------------------------------------------------------------------------
Dispatch(c) ==
    \E q \in QueuesOf[c] :
      SetCheckBit(c, q) \/ CountOutstanding(c, q) \/ Issue(c, q) \/ DispatchReturn(c, q)

Goes(c) == \E q \in QueuesOf[c] :
             CountOutstanding(c, q) \/ Issue(c, q) \/ DispatchReturn(c, q)

Device == (\E q \in Queues : Fetch(q)) \/ (\E cmd \in device.fetched : Post(cmd))

Irq == IrqEnter \/ IrqQueue \/ IrqPanic \/ IrqExit

Next == (\E c \in Cores : Dispatch(c)) \/ Device \/ Irq

(* The device works on what it is given, the interrupt is delivered, and a *)
(* core that is in a dispatch goes on with it.                             *)
Fairness ==
    /\ WF_vars(Device) /\ WF_vars(Irq)
    /\ \A c \in Cores : WF_vars(Goes(c))

Spec == Init /\ [][Next]_vars /\ Fairness
-----------------------------------------------------------------------------
(* The indices stay inside what the driver cycles through, and a queue     *)
(* never has more than one command under way: dispatch_* spin until the    *)
(* interrupt handler has reset num_outstanding_completions.                *)
TypeOK ==
    /\ tail_value \in [Queues -> 0 .. (Size - 2)]
    /\ head_value \in [Queues -> 0 .. (Size - 2)]
    /\ check_queue \subseteq Queues
    /\ outstanding \in [Queues -> 0 .. 1]
    /\ device.head \in [Queues -> Slots]
    /\ device.tail \in [Queues -> Slots]

(* dispatch_read returns only when the device has executed the command:    *)
(* the caller then frees the PRP list and reads the buffer.                *)
DispatchDone == returned \subseteq device.executed

(* Driver and device agree whenever no command is under way: nothing is    *)
(* counted as outstanding, and both have the same position in both rings.  *)
QuiescentAgree ==
    (irq = IrqOff /\ ~device.line /\ \A c \in Cores : pc[c] = Idle) =>
      \A q \in Queues : /\ outstanding[q] = 0
                        /\ device.head[q] = tail_value[q]
                        /\ device.tail[q] = head_value[q]

(* Every dispatch returns, unless the kernel panicked on a failed command. *)
DispatchReturns ==
    \A c \in Cores : pc[c].at = "spin" ~> (pc[c].at # "spin" \/ irq.at = "panic")

(* "irq: Queue Command failed": the handler panics only if a command the   *)
(* driver issued failed, and here the device executes each one.            *)
NoQueueFailure == irq.at # "panic"
=============================================================================
