--------------------------------- MODULE Ipi ---------------------------------
(***************************************************************************)
(* Requests from the bootstrap core (BSP) to the application cores:        *)
(* Multithreading::send_user_ipi and await_ipi (multithreading/mod.rs) on  *)
(* one side, the interrupt handler kernel_ipi_dst                          *)
(* (multithreading/per_processor_function.rs) on the other.  They share    *)
(* one IpiDescriptorPacket per application core and no lock; the physical  *)
(* page allocator is shared by all cores and has no lock either, so the    *)
(* protocol is all that keeps two cores out of it.                         *)
(*                                                                         *)
(* Every store the other side can observe is a step of its own.            *)
(***************************************************************************)
EXTENDS Integers

CONSTANTS
  Cores,        \* application cores
  Regions,      \* memory regions the BSP makes visible to them (SyncVMem)
  RegionPages,  \* pages in a region
  MaxTries      \* polls of await_ipi (50)

ASSUME IpiAssumption ==
    /\ RegionPages \in Nat \ {0}
    /\ MaxTries \in Nat

VARIABLES
  packet,   \* IpiDescriptorPacket of each core
  pending,  \* vector 254 requested in the local APIC of each core
  ap,       \* where each application core is
  mapped,   \* pages of regions in the page tables of each core
  bsp,      \* where the BSP is: run, await or panic
  acked     \* requests for which await_ipi returned true

vars == <<packet, pending, ap, mapped, bsp, acked>>

NoRegion == "none"

(* A request as the prepare function of a caller writes it. *)
Requests ==
    [type : {"SyncVMem"}, region : Regions]
       \cup [type : {"SummonApplication"}, region : {NoRegion}]

Idle == [at |-> "idle", path |-> "none", page |-> 0]

Running == [at |-> "run", core |-> NoRegion, request |-> NoRegion, tries |-> 0]

(* Processor::new resets the packet before the core enables interrupts. *)
Init ==
    /\ packet = [c \in Cores |->
                   [status |-> "Invalid", type |-> "Invalid", region |-> NoRegion]]
    /\ pending = [c \in Cores |-> FALSE]
    /\ ap = [c \in Cores |-> Idle]
    /\ mapped = [c \in Cores |-> {}]
    /\ bsp = Running
    /\ acked = {}
-----------------------------------------------------------------------------
(***************************************************************************)
(* The BSP.  Nobody sends to a core that runs an application.              *)
(***************************************************************************)
SendUserIpi(c, r) ==
    /\ bsp.at = "run"
    /\ ap[c].at # "application"
    /\ packet' = [packet EXCEPT ![c] =
                    [status |-> "Pending", type |-> r.type, region |-> r.region]]
    /\ pending' = [pending EXCEPT ![c] = TRUE]
    /\ bsp' = [at |-> "await", core |-> c, request |-> r, tries |-> MaxTries]
    /\ UNCHANGED <<ap, mapped, acked>>

AwaitCompleted ==
    /\ bsp.at = "await" /\ bsp.tries # 0
    /\ packet[bsp.core].status = "Completed"
    /\ acked' = acked \cup {<<bsp.core, bsp.request>>}
    /\ bsp' = Running
    /\ UNCHANGED <<packet, pending, ap, mapped>>

AwaitSleeps ==
    /\ bsp.at = "await" /\ bsp.tries # 0
    /\ packet[bsp.core].status # "Completed"
    /\ bsp' = [bsp EXCEPT !.tries = @ - 1]
    /\ UNCHANGED <<packet, pending, ap, mapped, acked>>

(* Mutant: a caller that ignores what await_ipi returns. *)
AwaitTimeoutIgnored ==
    /\ bsp.at = "await" /\ bsp.tries = 0
    /\ bsp' = Running
    /\ UNCHANGED <<packet, pending, ap, mapped, acked>>

(* await_ipi returns false and every caller panics: "ipi got stuck". *)
AwaitTimeout ==
    /\ bsp.at = "await" /\ bsp.tries = 0
    /\ bsp' = [bsp EXCEPT !.at = "panic"]
    /\ UNCHANGED <<packet, pending, ap, mapped, acked>>
-----------------------------------------------------------------------------
(***************************************************************************)
(* kernel_ipi_dst on core c.  Interrupts are off until it returns, so the  *)
(* core takes the next request only when it is idle again.                 *)
(***************************************************************************)
Goto(c, at, path) == ap' = [ap EXCEPT ![c] = [at |-> at, path |-> path, page |-> 0]]

(* Mutant: the request is reported as completed when it is accepted. *)
ReceiveEarly(c) ==
    /\ pending[c] /\ ap[c] = Idle
    /\ pending' = [pending EXCEPT ![c] = FALSE]
    /\ packet' = [packet EXCEPT ![c].status = "Completed"]
    /\ Goto(c, "work", "none")
    /\ UNCHANGED <<mapped, bsp, acked>>

Receive(c) ==
    /\ pending[c] /\ ap[c] = Idle
    /\ pending' = [pending EXCEPT ![c] = FALSE]
    /\ packet' = [packet EXCEPT ![c].status = "Recieved"]
    /\ Goto(c, "work", "none")
    /\ UNCHANGED <<mapped, bsp, acked>>

(* SyncVMem: one page_4_kb per page, which may take pages from the shared  *)
(* allocator.                                                              *)
MapPage(c) ==
    /\ ap[c].at = "work" /\ packet[c].type = "SyncVMem"
    /\ ap[c].page < RegionPages
    /\ mapped' = [mapped EXCEPT ![c] = @ \cup {<<packet[c].region, ap[c].page>>}]
    /\ ap' = [ap EXCEPT ![c].page = @ + 1]
    /\ UNCHANGED <<packet, pending, bsp, acked>>

(* page_4_kb(..).unwrap() on an error: the core's panic handler loops. *)
MapPageFails(c) ==
    /\ ap[c].at = "work" /\ packet[c].type = "SyncVMem"
    /\ ap[c].page < RegionPages
    /\ Goto(c, "panic", "none")
    /\ UNCHANGED <<packet, pending, mapped, bsp, acked>>

(* All pages mapped, or nothing to do (the Invalid arm). *)
MapDone(c) ==
    /\ ap[c].at = "work" /\ packet[c].type # "SummonApplication"
    /\ packet[c].type = "SyncVMem" => ap[c].page = RegionPages
    /\ Goto(c, "eoi", "done")
    /\ UNCHANGED <<packet, pending, mapped, bsp, acked>>

(* summon_application returns a launcher or an error. *)
Summon(c) ==
    /\ ap[c].at = "work" /\ packet[c].type = "SummonApplication"
    /\ \E path \in {"launch", "fail"} : Goto(c, "eoi", path)
    /\ UNCHANGED <<packet, pending, mapped, bsp, acked>>

SendEoi(c) ==
    /\ ap[c].at = "eoi"
    /\ Goto(c, "clear", ap[c].path)
    /\ UNCHANGED <<packet, pending, mapped, bsp, acked>>

ClearRequest(c) ==
    /\ ap[c].at = "clear"
    /\ packet' = [packet EXCEPT ![c].type = "Invalid"]
    /\ Goto(c, "status", ap[c].path)
    /\ UNCHANGED <<pending, mapped, bsp, acked>>

(* The Err arm sets Failed and falls through to the code behind the match. *)
SetFailed(c) ==
    /\ ap[c].at = "status" /\ ap[c].path = "fail"
    /\ packet' = [packet EXCEPT ![c].status = "Failed"]
    /\ Goto(c, "eoi", "done")
    /\ UNCHANGED <<pending, mapped, bsp, acked>>

(* The Ok arm sets Completed and jumps into the application. *)
Launch(c) ==
    /\ ap[c].at = "status" /\ ap[c].path = "launch"
    /\ packet' = [packet EXCEPT ![c].status = "Completed"]
    /\ Goto(c, "application", "none")
    /\ UNCHANGED <<pending, mapped, bsp, acked>>

(* Mutant: the status is left as it was received. *)
FinishSilently(c) ==
    /\ ap[c].at = "status" /\ ap[c].path = "done"
    /\ ap' = [ap EXCEPT ![c] = Idle]
    /\ UNCHANGED <<packet, pending, mapped, bsp, acked>>

Finish(c) ==
    /\ ap[c].at = "status" /\ ap[c].path = "done"
    /\ packet' = [packet EXCEPT ![c].status = "Completed"]
    /\ ap' = [ap EXCEPT ![c] = Idle]
    /\ UNCHANGED <<pending, mapped, bsp, acked>>

Handler(c) ==
    \/ Receive(c) \/ MapPage(c) \/ MapDone(c) \/ Summon(c)
    \/ SendEoi(c) \/ ClearRequest(c) \/ SetFailed(c) \/ Launch(c) \/ Finish(c)

Await == AwaitCompleted \/ AwaitSleeps \/ AwaitTimeout

Next ==
    \/ \E c \in Cores, r \in Requests : SendUserIpi(c, r)
    \/ Await
    \/ \E c \in Cores : Handler(c) \/ MapPageFails(c)

(* An application core executes its handler once the interrupt is pending  *)
(* (it loops with interrupts enabled), and the BSP wakes from each sleep   *)
(* with the next tick of the HPET.                                         *)
Fairness == WF_vars(Await) /\ \A c \in Cores : WF_vars(Handler(c))

Spec == Init /\ [][Next]_vars /\ Fairness
-----------------------------------------------------------------------------
(* The packets, the handlers' positions and the page tables keep their     *)
(* types; kernel_ipi_dst maps no page outside the region it was given, and *)
(* await_ipi never polls more than MaxTries times.                         *)
TypeOK ==
    /\ packet \in [Cores -> [status : {"Invalid", "Pending", "Recieved",
                                       "Completed", "Failed"},
                             type : {"Invalid", "SyncVMem", "SummonApplication"},
                             region : Regions \cup {NoRegion}]]
    /\ pending \in [Cores -> BOOLEAN]
    /\ ap \in [Cores -> [at : {"idle", "work", "eoi", "clear", "status",
                               "application", "panic"},
                         path : {"none", "done", "launch", "fail"},
                         page : 0 .. RegionPages]]
    /\ mapped \in [Cores -> SUBSET (Regions \X (0 .. (RegionPages - 1)))]
    /\ bsp.at \in {"run", "await", "panic"}
    /\ bsp.tries \in 0 .. MaxTries
    /\ bsp.at # "run" => bsp.core \in Cores /\ bsp.request \in Requests
    /\ acked \subseteq (Cores \X Requests)

(* When await_ipi has returned true for a SyncVMem request, every page of  *)
(* the region is in that core's page tables: the file system and the       *)
(* loader hand out pointers into it right afterwards.                      *)
SyncedWhenAcked ==
    \A a \in acked : a[2].type = "SyncVMem" =>
        \A i \in 0 .. (RegionPages - 1) : <<a[2].region, i>> \in mapped[a[1]]

(* The physical allocator has no lock: while the BSP runs kernel code no   *)
(* application core is inside page_4_kb or summon_application, and never   *)
(* are two application cores.                                              *)
AllocatorExclusive ==
    /\ bsp.at = "run" => \A c \in Cores : ap[c].at # "work"
    /\ \A c, d \in Cores : c # d => ~(ap[c].at = "work" /\ ap[d].at = "work")

(* The Err arm of kernel_ipi_dst reports Failed: await_ipi never returns   *)
(* true for an application that was not launched.                          *)
SummonReported ==
    \A a \in acked :
      a[2].type = "SummonApplication" => ap[a[1]].at = "application"
=============================================================================
