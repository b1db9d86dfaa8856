----------------------------- MODULE CoreBringUp -----------------------------
(***************************************************************************)
(* How the other cores come up (Multithreading::activate_cores, the        *)
(* trampoline in asm/bootstrap.asm, ap_function and Processor::new), and   *)
(* the requests of Ipi that follow.                                        *)
(*                                                                         *)
(* The bootstrap core describes one core at a time in a mailbox at 0x9000, *)
(* starts it and sleeps 200 ms; the core reads the mailbox field by field, *)
(* one field twice.  There is no handshake ("INITIALIZATION CODE DOES NOT  *)
(* WAIT"), so the model takes the steps a core is sure to have made when   *)
(* the sleep ends as a parameter, chosen once: `deadline`.                 *)
(***************************************************************************)
EXTENDS Ipi, Sequences, FiniteSets

CONSTANT Deadlines    \* how far a core may be when the sleep ends

(* Cores are numbered by activation_index. *)
ASSUME CoresAssumption == IsFiniteSet(Cores) /\ Cores = 1 .. Cardinality(Cores)

ASSUME DeadlinesAssumption == Deadlines \subseteq Nat

VARIABLES
  mailbox,   \* for which core each field was written last (0: never)
  got,       \* what each core read from each field
  step,      \* the next of CoreSteps of each core, 0 before it is started
  lapic_on,  \* cores whose local APIC accepts vectors
  boot,      \* what the bootstrap core does
  deadline   \* steps a core has made when the sleep after its start ends

bootVars == <<mailbox, got, step, lapic_on, boot, deadline>>

allVars == <<vars, bootVars>>

(* The fields that differ from core to core, in the order they are stored. *)
StoreOrder == << "stack", "store", "index", "complex", "packet", "cr3" >>

(* Mutant: the packet is reset when interrupts are already on. *)
CoreStepsResetLate ==
    << "cr3", "stack", "store", "complex", "packet", "index",
       "new", "lapic", "index2", "pool", "sti", "reset" >>

(* What a started core does: bootup0 loads cr3, bootup1 the stack and the  *)
(* arguments of ap_function, which reads the index; Processor::new         *)
(* allocates, resets the request packet and enables the local APIC;        *)
(* ap_function reads the index again, allocates the application pool and   *)
(* enables interrupts.                                                     *)
CoreSteps ==
    << "cr3", "stack", "store", "complex", "packet", "index",
       "new", "reset", "lapic", "index2", "pool", "sti" >>

Field(s) == IF s = "index2" THEN "index" ELSE s

Reads == {"cr3", "stack", "store", "complex", "packet", "index", "index2"}

Booting == [at |-> "boot", path |-> "none", page |-> 0]

InitBoot ==
    /\ packet = [c \in Cores |->
                   [status |-> "Invalid", type |-> "Invalid", region |-> NoRegion]]
    /\ pending = [c \in Cores |-> FALSE]
    /\ ap = [c \in Cores |-> Booting]
    /\ mapped = [c \in Cores |-> {}]
    /\ bsp = Running
    /\ acked = {}
    /\ mailbox = [f \in {StoreOrder[i] : i \in DOMAIN StoreOrder} |-> 0]
    /\ got = [c \in Cores |-> [s \in Reads |-> 0]]
    /\ step = [c \in Cores |-> 0]
    /\ lapic_on = {}
    /\ boot = [at |-> "store", core |-> 1, field |-> 1]
    /\ deadline \in Deadlines
-----------------------------------------------------------------------------
(* The bootstrap core stores a field; the page tables of the core are made *)
(* between the first store and the last.                                   *)
BspStore ==
    /\ boot.at = "store" /\ boot.field <= Len(StoreOrder)
    /\ mailbox' = [mailbox EXCEPT ![StoreOrder[boot.field]] = boot.core]
    /\ boot' = [boot EXCEPT !.field = @ + 1]
    /\ UNCHANGED <<vars, got, step, lapic_on, deadline>>

(* Mutant: the startup vector is sent when the core is put into INIT. *)
BspStartsEarly ==
    /\ boot.at = "store" /\ boot.field >= Len(StoreOrder)
    /\ step' = [step EXCEPT ![boot.core] = 1]
    /\ boot' = [boot EXCEPT !.at = "sleep"]
    /\ UNCHANGED <<vars, mailbox, got, lapic_on, deadline>>

BspStarts ==
    /\ boot.at = "store" /\ boot.field > Len(StoreOrder)
    /\ step' = [step EXCEPT ![boot.core] = 1]
    /\ boot' = [boot EXCEPT !.at = "sleep"]
    /\ UNCHANGED <<vars, mailbox, got, lapic_on, deadline>>

(* Mutant: no sleep behind the startup vector. *)
BspDoesNotSleep ==
    /\ boot.at = "sleep"
    /\ boot' = IF boot.core + 1 \in Cores
                 THEN [at |-> "store", core |-> boot.core + 1, field |-> 1]
                 ELSE [boot EXCEPT !.at = "done"]
    /\ UNCHANGED <<vars, mailbox, got, step, lapic_on, deadline>>

(* sleep(200) is over: the next core, or the rest of the boot sequence. *)
BspWakes ==
    /\ boot.at = "sleep" /\ step[boot.core] > deadline
    /\ boot' = IF boot.core + 1 \in Cores
                 THEN [at |-> "store", core |-> boot.core + 1, field |-> 1]
                 ELSE [boot EXCEPT !.at = "done"]
    /\ UNCHANGED <<vars, mailbox, got, step, lapic_on, deadline>>
-----------------------------------------------------------------------------
(***************************************************************************)
(* The steps of a started core.                                            *)
(***************************************************************************)
Doing(c, s) == step[c] \in DOMAIN CoreSteps /\ CoreSteps[step[c]] = s

StepOver(c) == step' = [step EXCEPT ![c] = @ + 1]

ReadMailbox(c) ==
    \E s \in Reads :
      /\ Doing(c, s)
      /\ got' = [got EXCEPT ![c][s] = mailbox[Field(s)]]
      /\ StepOver(c)
      /\ UNCHANGED <<vars, mailbox, lapic_on, boot, deadline>>

(* Processor::new and ApplicationComplex::allocate take memory. *)
Allocate(c) ==
    /\ Doing(c, "new") \/ Doing(c, "pool")
    /\ StepOver(c)
    /\ UNCHANGED <<vars, mailbox, got, lapic_on, boot, deadline>>

(* The packet at the address the core read, whoever it belongs to. *)
ResetPacket(c) ==
    /\ Doing(c, "reset")
    /\ packet' = [packet EXCEPT ![got[c]["packet"]].status = "Invalid",
                                ![got[c]["packet"]].type = "Invalid"]
    /\ StepOver(c)
    /\ UNCHANGED <<pending, ap, mapped, bsp, acked, mailbox, got, lapic_on,
                   boot, deadline>>

(* Mutant: the local APIC stays disabled. *)
LapicStaysOff(c) ==
    /\ Doing(c, "lapic")
    /\ StepOver(c)
    /\ UNCHANGED <<vars, mailbox, got, lapic_on, boot, deadline>>

LapicReset(c) ==
    /\ Doing(c, "lapic")
    /\ lapic_on' = lapic_on \cup {c}
    /\ StepOver(c)
    /\ UNCHANGED <<vars, mailbox, got, boot, deadline>>

EnableInterrupts(c) ==
    /\ Doing(c, "sti")
    /\ ap' = [ap EXCEPT ![c] = Idle]
    /\ StepOver(c)
    /\ UNCHANGED <<packet, pending, mapped, bsp, acked, mailbox, got, lapic_on,
                   boot, deadline>>

CoreStep(c) ==
    \/ ReadMailbox(c) \/ Allocate(c) \/ ResetPacket(c)
    \/ LapicReset(c) \/ EnableInterrupts(c)

(* A vector sent to a local APIC that is off is lost, the packet is not. *)
SendLost(c, r) ==
    /\ boot.at = "done" /\ c \notin lapic_on
    /\ bsp.at = "run"
    /\ packet' = [packet EXCEPT ![c] =
                    [status |-> "Pending", type |-> r.type, region |-> r.region]]
    /\ bsp' = [at |-> "await", core |-> c, request |-> r, tries |-> MaxTries]
    /\ UNCHANGED <<pending, ap, mapped, acked, bootVars>>

Send(c, r) ==
    /\ boot.at = "done" /\ c \in lapic_on
    /\ SendUserIpi(c, r)
    /\ UNCHANGED bootVars

Boot == BspStore \/ BspStarts \/ BspWakes

Answer == Await /\ UNCHANGED bootVars

Handle(c) == Handler(c) /\ UNCHANGED bootVars

Panics(c) == MapPageFails(c) /\ UNCHANGED bootVars

NextBoot ==
    \/ Boot
    \/ \E c \in Cores : CoreStep(c) \/ Handle(c) \/ Panics(c)
    \/ \E c \in Cores, r \in Requests : Send(c, r) \/ SendLost(c, r)
    \/ Answer

(* A started core runs; the sleeps end; the rest as in Ipi. *)
SpecBoot ==
    /\ InitBoot /\ [][NextBoot]_allVars
    /\ WF_allVars(Boot) /\ WF_allVars(Answer)
    /\ \A c \in Cores : WF_allVars(CoreStep(c)) /\ WF_allVars(Handle(c))
-----------------------------------------------------------------------------
(* The sleep is long enough for a core to have made step s. *)
Covers(s) == \A i \in DOMAIN CoreSteps : CoreSteps[i] = s => i <= deadline

(* Every core runs with the page tables, stack, packet, pool and index     *)
(* that were made for it and no other core, if the sleep covers its second *)
(* read of the index (which comes behind everything Processor::new does).  *)
OwnMailbox ==
    Covers("index2") =>
      \A c \in Cores : \A s \in Reads : got[c][s] \in {0, c}

(* The bootstrap core makes page tables, or runs the rest of the kernel. *)
BspAllocates == boot.at = "store" \/ (boot.at = "done" /\ bsp.at = "run")

CoreAllocates(c) ==
    ap[c].at = "work" \/ \E s \in {"new", "reset", "lapic", "pool"} : Doing(c, s)

(* The allocators, which nobody locks, are used by one core at a time from *)
(* power-on, if the sleep covers all of the core's initialisation.         *)
BootExclusive ==
    Covers("pool") =>
      /\ BspAllocates => \A c \in Cores : ~CoreAllocates(c)
      /\ \A c, d \in Cores : c # d => ~(CoreAllocates(c) /\ CoreAllocates(d))

(* Every request is answered, those to a core that still allocates its     *)
(* application pool included, if the sleep covers the local APIC.          *)
AnsweredFromBoot ==
    \A c \in Cores :
      (Covers("lapic") /\ bsp.at = "await" /\ bsp.core = c)
         ~> (packet[c].status = "Completed" \/ ap[c].at = "panic")
=============================================================================
