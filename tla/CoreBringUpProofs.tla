--------------------------- MODULE CoreBringUpProofs ---------------------------
(***************************************************************************)
(* Proofs about the application cores, for every number of them.           *)
(*                                                                         *)
(* First the requests of Ipi, for every number of regions and polls: what  *)
(* the two sides of a request know of each other is stated so that it also *)
(* holds while cores still start ("boot").  Then their start, for every    *)
(* length of the sleep: what a core reads from the mailbox is its own      *)
(* where the sleep covers the read, and the requests keep their invariant  *)
(* from the first store on.                                                *)
(***************************************************************************)
EXTENDS CoreBringUp, FiniteSetTheorems, TLAPS

-----------------------------------------------------------------------------
(* The requests between the cores.                                         *)

(* The data on both sides. *)
Wired ==
    /\ packet \in [Cores -> [status : {"Invalid", "Pending", "Recieved",
                                       "Completed", "Failed"},
                             type : {"Invalid", "SyncVMem", "SummonApplication"},
                             region : Regions \cup {NoRegion}]]
    /\ \A c \in Cores : packet[c].type = "SyncVMem" => packet[c].region \in Regions
    /\ pending \in [Cores -> BOOLEAN]
    /\ ap \in [Cores -> [at : {"boot", "idle", "work", "eoi", "clear", "status",
                               "application", "panic"},
                         path : {"none", "done", "launch", "fail"},
                         page : 0 .. RegionPages]]
    /\ mapped \in [Cores -> SUBSET (Regions \X (0 .. (RegionPages - 1)))]
    /\ \/ bsp = Running
       \/ bsp \in [at : {"await", "panic"}, core : Cores, request : Requests,
                   tries : 0 .. MaxTries]
    /\ acked \subseteq (Cores \X Requests)

(* The BSP has sent c a request that it has not seen answered. *)
Asked(c) == bsp.at # "run" /\ bsp.core = c

(* The packet of c still is the request the BSP waits for. *)
Carries(c) == packet[c].type = bsp.request.type /\ packet[c].region = bsp.request.region

Busy(c) == ap[c].at \in {"work", "eoi", "clear", "status", "panic"}

Synced(c, r) ==
    r.type = "SyncVMem" =>
      \A i \in 0 .. (RegionPages - 1) : <<r.region, i>> \in mapped[c]

(* An interrupt on its way. *)
PendingOk(c) ==
    pending[c] => /\ Asked(c) /\ ap[c].at \in {"boot", "idle"}
                  /\ packet[c].status = "Pending" /\ Carries(c)

(* A core in its handler is the one the BSP waits for and has not answered. *)
BusyOk(c) == Busy(c) => Asked(c) /\ packet[c].status \in {"Recieved", "Failed"}

(* It works on the request it was sent, and has mapped what it got past. *)
WorkOk(c) ==
    ap[c].at = "work" =>
      /\ Carries(c)
      /\ packet[c].type = "SyncVMem" =>
           \A i \in 0 .. (ap[c].page - 1) : <<packet[c].region, i>> \in mapped[c]

(* Behind the work, and once the packet says so, the request is done. *)
DoneOk(c) ==
    (Asked(c) /\ (ap[c].at \in {"eoi", "clear", "status"} \/ packet[c].status = "Completed"))
      => Synced(c, bsp.request)

Link(c) == PendingOk(c) /\ BusyOk(c) /\ WorkOk(c) /\ DoneOk(c)

Linked == \A c \in Cores : Link(c)

(* The inductive invariant of the requests. *)
RequestInv == Wired /\ Linked /\ SyncedWhenAcked

-----------------------------------------------------------------------------
(* Every handler step leaves the BSP, the acknowledgements and the other   *)
(* cores alone.                                                            *)
LEMMA HandlerWired ==
    ASSUME Wired, NEW c \in Cores, Handler(c) \/ MapPageFails(c)
    PROVE  Wired'
<1> USE DEF Wired, Goto, Idle
<1>1. CASE Receive(c)
  BY <1>1, IpiAssumption DEF Receive
<1>2. CASE MapPage(c)
  <2>1. ap[c].page \in 0 .. (RegionPages - 1) /\ ap[c].page + 1 \in 0 .. RegionPages
    BY <1>2, IpiAssumption DEF MapPage
  <2>2. <<packet[c].region, ap[c].page>> \in Regions \X (0 .. (RegionPages - 1))
    BY <1>2, <2>1 DEF MapPage
  <2>3. mapped' \in [Cores -> SUBSET (Regions \X (0 .. (RegionPages - 1)))]
    BY <1>2, <2>2 DEF MapPage
  <2> DEFINE At == [at : {"boot", "idle", "work", "eoi", "clear", "status",
                          "application", "panic"},
                    path : {"none", "done", "launch", "fail"},
                    page : 0 .. RegionPages]
  <2>4. ap' \in [Cores -> At]
    <3>1. [ap[c] EXCEPT !.page = ap[c].page + 1] \in At
      BY <2>1
    <3>2. ap' = [ap EXCEPT ![c] = [ap[c] EXCEPT !.page = ap[c].page + 1]]
      BY <1>2 DEF MapPage
    <3> QED
      BY <3>1, <3>2
  <2>5. UNCHANGED <<packet, pending, bsp, acked>>
    BY <1>2 DEF MapPage
  <2> QED
    BY <2>1, <2>3, <2>4, <2>5
<1>3. CASE MapDone(c)
  BY <1>3, IpiAssumption DEF MapDone
<1>4. CASE Summon(c)
  BY <1>4, IpiAssumption DEF Summon
<1>5. CASE SendEoi(c)
  BY <1>5, IpiAssumption DEF SendEoi
<1>6. CASE ClearRequest(c)
  BY <1>6, IpiAssumption DEF ClearRequest
<1>7. CASE SetFailed(c)
  BY <1>7, IpiAssumption DEF SetFailed
<1>8. CASE Launch(c)
  BY <1>8, IpiAssumption DEF Launch
<1>9. CASE Finish(c)
  BY <1>9, IpiAssumption DEF Finish
<1>10. CASE MapPageFails(c)
  BY <1>10, IpiAssumption DEF MapPageFails
<1> QED
  BY <1>1, <1>2, <1>3, <1>4, <1>5, <1>6, <1>7, <1>8, <1>9, <1>10 DEF Handler

(* A core that nobody touches keeps its part of the invariant. *)
LEMMA LinkKept ==
    ASSUME NEW c \in Cores, Link(c), bsp' = bsp, packet'[c] = packet[c],
           pending'[c] = pending[c], ap'[c] = ap[c], mapped'[c] = mapped[c]
    PROVE  Link(c)'
  BY DEF Link, PendingOk, BusyOk, WorkOk, DoneOk, Busy, Asked, Carries, Synced

(* What was acknowledged stays mapped: no step of a handler unmaps. *)
LEMMA AckedKept ==
    ASSUME SyncedWhenAcked, acked' = acked, \A c \in Cores : mapped[c] \subseteq mapped'[c],
           acked \subseteq (Cores \X Requests)
    PROVE  SyncedWhenAcked'
<1> SUFFICES ASSUME NEW a \in acked, a[2].type = "SyncVMem",
                    NEW i \in 0 .. (RegionPages - 1)
             PROVE  <<a[2].region, i>> \in mapped'[a[1]]
  BY DEF SyncedWhenAcked
<1>1. <<a[2].region, i>> \in mapped[a[1]] /\ a[1] \in Cores
  BY DEF SyncedWhenAcked
<1> QED
  BY <1>1

(* The handler of one core touches no other core, and takes no page away. *)
LEMMA HandlerMaps ==
    ASSUME Wired, NEW c \in Cores, Handler(c) \/ MapPageFails(c)
    PROVE  /\ bsp' = bsp /\ acked' = acked
           /\ \A d \in Cores : mapped[d] \subseteq mapped'[d]
           /\ \A d \in Cores \ {c} : /\ packet'[d] = packet[d] /\ pending'[d] = pending[d]
                                     /\ ap'[d] = ap[d] /\ mapped'[d] = mapped[d]
<1> USE DEF Wired, Goto
<1>1. CASE Receive(c)
  BY <1>1 DEF Receive
<1>2. CASE MapPage(c)
  BY <1>2 DEF MapPage
<1>3. CASE MapDone(c)
  BY <1>3 DEF MapDone
<1>4. CASE Summon(c)
  BY <1>4 DEF Summon
<1>5. CASE SendEoi(c)
  BY <1>5 DEF SendEoi
<1>6. CASE ClearRequest(c)
  BY <1>6 DEF ClearRequest
<1>7. CASE SetFailed(c)
  BY <1>7 DEF SetFailed
<1>8. CASE Launch(c)
  BY <1>8 DEF Launch
<1>9. CASE Finish(c)
  BY <1>9 DEF Finish
<1>10. CASE MapPageFails(c)
  BY <1>10 DEF MapPageFails
<1> QED
  BY <1>1, <1>2, <1>3, <1>4, <1>5, <1>6, <1>7, <1>8, <1>9, <1>10 DEF Handler

(* The core's own part. *)
LEMMA HandlerLink ==
    ASSUME Wired, NEW c \in Cores, Link(c), Handler(c) \/ MapPageFails(c)
    PROVE  Link(c)'
<1> USE DEF Wired, Link, PendingOk, BusyOk, WorkOk, DoneOk, Busy, Asked, Carries,
        Synced, Goto, Idle
<1>1. CASE Receive(c)
  BY <1>1 DEF Receive
<1>2. CASE MapPage(c)
  <2>1. /\ ap'[c].at = ap[c].at /\ ap'[c].page = ap[c].page + 1
        /\ mapped'[c] = mapped[c] \cup {<<packet[c].region, ap[c].page>>}
        /\ packet'[c] = packet[c] /\ pending'[c] = pending[c] /\ bsp' = bsp
    BY <1>2 DEF MapPage
  <2>2. ap[c].page \in Nat
    BY IpiAssumption
  <2>3. WorkOk(c)'
    <3>1. \A i \in 0 .. (ap'[c].page - 1) : i \in 0 .. (ap[c].page - 1) \/ i = ap[c].page
      <4>1. \A n \in Nat : \A i \in 0 .. (n + 1 - 1) : i \in 0 .. (n - 1) \/ i = n
        OBVIOUS
      <4> QED
        BY ONLY <2>1, <2>2, <4>1
    <3>2. Carries(c)' /\ ap[c].at = "work" /\ packet[c].type = "SyncVMem"
      BY <1>2, <2>1 DEF MapPage
    <3> QED
      BY <2>1, <3>1, <3>2
  <2>4. PendingOk(c)' /\ BusyOk(c)' /\ DoneOk(c)'
    BY <1>2, <2>1 DEF MapPage
  <2> QED
    BY <2>3, <2>4
<1>3. CASE MapDone(c)
  BY <1>3 DEF MapDone
<1>4. CASE Summon(c)
  BY <1>4 DEF Summon
<1>5. CASE SendEoi(c)
  BY <1>5 DEF SendEoi
<1>6. CASE ClearRequest(c)
  BY <1>6 DEF ClearRequest
<1>7. CASE SetFailed(c)
  BY <1>7 DEF SetFailed
<1>8. CASE Launch(c)
  BY <1>8 DEF Launch
<1>9. CASE Finish(c)
  BY <1>9 DEF Finish
<1>10. CASE MapPageFails(c)
  BY <1>10 DEF MapPageFails
<1> QED
  BY <1>1, <1>2, <1>3, <1>4, <1>5, <1>6, <1>7, <1>8, <1>9, <1>10 DEF Handler

(* kernel_ipi_dst on any core keeps the invariant. *)
LEMMA HandlerKeeps ==
    ASSUME RequestInv, NEW c \in Cores, Handler(c) \/ MapPageFails(c)
    PROVE  RequestInv'
<1>1. Wired'
  BY HandlerWired DEF RequestInv
<1>2. Linked'
  <2> SUFFICES ASSUME NEW d \in Cores PROVE Link(d)'
    BY DEF Linked
  <2>1. Link(d) /\ Link(c) /\ Wired
    BY DEF RequestInv, Linked
  <2>2. CASE d = c
    BY <2>1, <2>2, HandlerLink
  <2>3. CASE d # c
    BY <2>1, <2>3, HandlerMaps, LinkKept
  <2> QED
    BY <2>2, <2>3
<1>3. SyncedWhenAcked'
  BY HandlerMaps, AckedKept DEF RequestInv, Wired
<1> QED
  BY <1>1, <1>2, <1>3 DEF RequestInv

(* await_ipi keeps it: what it acknowledges is done. *)
LEMMA AwaitKeeps ==
    ASSUME RequestInv, Await
    PROVE  RequestInv'
<1>1. Wired'
  <2>1. CASE AwaitCompleted
    BY <2>1 DEF RequestInv, Wired, AwaitCompleted, Running
  <2>2. CASE AwaitSleeps
    <3>1. bsp \in [at : {"await", "panic"}, core : Cores, request : Requests,
                   tries : 0 .. MaxTries]
      BY <2>2 DEF RequestInv, Wired, AwaitSleeps, Running
    <3>2. bsp.tries - 1 \in 0 .. MaxTries
      BY <2>2, <3>1, IpiAssumption DEF AwaitSleeps
    <3>3. bsp' = [bsp EXCEPT !.tries = bsp.tries - 1]
      BY <2>2 DEF AwaitSleeps
    <3>4. bsp' \in [at : {"await", "panic"}, core : Cores, request : Requests,
                    tries : 0 .. MaxTries]
      BY <3>1, <3>2, <3>3
    <3> QED
      BY <2>2, <3>4 DEF RequestInv, Wired, AwaitSleeps
  <2>3. CASE AwaitTimeout
    BY <2>3 DEF RequestInv, Wired, AwaitTimeout, Running
  <2> QED
    BY <2>1, <2>2, <2>3 DEF Await
<1>2. Linked'
  <2> USE DEF Link, PendingOk, BusyOk, WorkOk, DoneOk, Busy, Asked, Carries, Synced
  <2>1. CASE AwaitCompleted
    BY <2>1 DEF RequestInv, Linked, Wired, AwaitCompleted, Running
  <2>2. CASE AwaitSleeps
    BY <2>2 DEF RequestInv, Linked, Wired, AwaitSleeps, Running
  <2>3. CASE AwaitTimeout
    BY <2>3 DEF RequestInv, Linked, Wired, AwaitTimeout, Running
  <2> QED
    BY <2>1, <2>2, <2>3 DEF Await
<1>3. SyncedWhenAcked'
  <2>1. CASE AwaitCompleted
    <3>1. bsp.core \in Cores /\ Synced(bsp.core, bsp.request)
      BY <2>1 DEF RequestInv, Linked, Link, DoneOk, Asked, Wired, AwaitCompleted, Running
    <3> QED
      BY <2>1, <3>1 DEF RequestInv, SyncedWhenAcked, AwaitCompleted, Synced
  <2>2. CASE AwaitSleeps \/ AwaitTimeout
    BY <2>2, AckedKept DEF RequestInv, Wired, AwaitSleeps, AwaitTimeout
  <2> QED
    BY <2>1, <2>2 DEF Await
<1> QED
  BY <1>1, <1>2, <1>3 DEF RequestInv

(* send_user_ipi keeps it when no core is in its handler. *)
LEMMA SendKeeps ==
    ASSUME RequestInv, NEW c \in Cores, NEW r \in Requests, SendUserIpi(c, r)
    PROVE  RequestInv'
<1>1. \A d \in Cores : ~Busy(d) /\ ~pending[d]
  BY DEF RequestInv, Linked, Link, BusyOk, PendingOk, Asked, SendUserIpi, Wired
<1>2. r.type \in {"SyncVMem", "SummonApplication"} /\ r.region \in Regions \cup {NoRegion}
      /\ (r.type = "SyncVMem" => r.region \in Regions)
  BY DEF Requests
<1>3. Wired'
  BY <1>2, IpiAssumption DEF RequestInv, Wired, SendUserIpi
<1>4. Linked'
  BY <1>1 DEF RequestInv, Wired, Linked, Link, BusyOk, PendingOk, WorkOk, DoneOk, Busy,
     Asked, Carries, Synced, SendUserIpi
<1>5. SyncedWhenAcked'
  BY AckedKept DEF RequestInv, Wired, SendUserIpi
<1> QED
  BY <1>3, <1>4, <1>5 DEF RequestInv

(* A step that changes nothing keeps the invariant. *)
LEMMA StutterKeeps == RequestInv /\ UNCHANGED vars => RequestInv'
<1> SUFFICES ASSUME RequestInv, UNCHANGED vars PROVE RequestInv'
  OBVIOUS
<1>1. Wired' /\ SyncedWhenAcked'
  BY DEF RequestInv, Wired, SyncedWhenAcked, vars
<1>2. Linked'
  BY LinkKept DEF RequestInv, Linked, vars
<1> QED
  BY <1>1, <1>2 DEF RequestInv

-----------------------------------------------------------------------------
(***************************************************************************)
(* Cores that have started: none is at "boot", and a core that is busy     *)
(* keeps every other one out of its handler.                               *)
(***************************************************************************)
Started == \A c \in Cores : ap[c].at # "boot"

IInv == RequestInv /\ Started

(* The invariant of the requests holds at the start. *)
LEMMA InitEstablishes == Init => IInv
<1> SUFFICES ASSUME Init PROVE IInv
  OBVIOUS
<1>1. Wired
  BY IpiAssumption DEF Init, Wired, Idle
<1>2. Linked
  BY DEF Init, Linked, Link, PendingOk, BusyOk, WorkOk, DoneOk, Busy, Asked, Idle, Running
<1>3. SyncedWhenAcked /\ Started
  BY DEF Init, SyncedWhenAcked, Started, Idle
<1> QED
  BY <1>1, <1>2, <1>3 DEF IInv, RequestInv

(* Every step keeps the invariant of the requests. *)
LEMMA NextKeeps == IInv /\ [Next]_vars => IInv'
<1> SUFFICES ASSUME IInv, [Next]_vars PROVE IInv'
  OBVIOUS
<1>1. RequestInv /\ Wired /\ Started
  BY DEF IInv, RequestInv
<1>2. ASSUME NEW c \in Cores, NEW r \in Requests, SendUserIpi(c, r) PROVE IInv'
  BY <1>1, <1>2, SendKeeps DEF IInv, Started, SendUserIpi
<1>3. ASSUME Await PROVE IInv'
  BY <1>1, <1>3, AwaitKeeps DEF IInv, Started, Await, AwaitCompleted, AwaitSleeps, AwaitTimeout
<1>4. ASSUME NEW c \in Cores, Handler(c) \/ MapPageFails(c) PROVE IInv'
  <2>1. RequestInv'
    BY <1>1, <1>4, HandlerKeeps
  <2>2. ap'[c].at # "boot"
    BY <1>1, <1>4 DEF Wired, Started, Handler, Receive, MapPage, MapDone, Summon, SendEoi,
       ClearRequest, SetFailed, Launch, Finish, MapPageFails, Goto, Idle
  <2>3. Started'
    BY <1>1, <1>4, <2>2, HandlerMaps DEF Started
  <2> QED
    BY <2>1, <2>3 DEF IInv
<1>5. CASE UNCHANGED vars
  BY <1>1, <1>5, StutterKeeps DEF IInv, Started, vars
<1> QED
  BY <1>2, <1>3, <1>4, <1>5 DEF Next

(* The invariant of the requests holds throughout. *)
LEMMA Invariance == Spec => []IInv
  BY InitEstablishes, NextKeeps, PTL DEF Spec

(* The packets, handlers and page tables keep their types: kernel_ipi_dst  *)
(* maps no page outside the region it was given, and await_ipi polls no    *)
(* more often than MaxTries.                                               *)
THEOREM TypeCorrect == Spec => []TypeOK
<1>1. IInv => TypeOK
  BY IpiAssumption DEF IInv, RequestInv, Wired, Started, TypeOK, Running
<1> QED
  BY <1>1, Invariance, PTL

(* When await_ipi returns true for a SyncVMem request, the region is in    *)
(* the page tables of the core.                                            *)
THEOREM AckMeansSynced == Spec => []SyncedWhenAcked
<1>1. IInv => SyncedWhenAcked
  BY DEF IInv, RequestInv
<1> QED
  BY <1>1, Invariance, PTL

(* The unlocked page allocator has one user at a time: the BSP while no    *)
(* request is under way, or the one core that serves the request.          *)
THEOREM OneAllocatorUser == Spec => []AllocatorExclusive
<1>1. IInv => AllocatorExclusive
  BY DEF IInv, RequestInv, Linked, Link, BusyOk, Busy, Asked, AllocatorExclusive
<1> QED
  BY <1>1, Invariance, PTL

-----------------------------------------------------------------------------
(* The start of the cores.                                                 *)

Fields == {StoreOrder[i] : i \in DOMAIN StoreOrder}

(* Who has been started, and how far the started ones are. *)
Order ==
    /\ step \in [Cores -> Nat]
    /\ boot \in [at : {"store", "sleep", "done"}, core : Nat, field : Nat \ {0}]
    /\ deadline \in Nat
    /\ \A c \in Cores :
         /\ c < boot.core => step[c] > deadline
         /\ c > boot.core => step[c] = 0
         /\ c = boot.core /\ boot.at = "store" => step[c] = 0
         /\ c = boot.core /\ boot.at = "done" => step[c] > deadline

(* The mailbox describes the core that is being started, as far as it has  *)
(* been written.                                                           *)
Written ==
    /\ DOMAIN mailbox = Fields
    /\ \A i \in DOMAIN StoreOrder :
         boot.at # "store" \/ i < boot.field => mailbox[StoreOrder[i]] = boot.core

(* What a core has read from a field is its own, if the sleep covers that. *)
ReadsOwn ==
    /\ got \in [Cores -> [Reads -> Nat]]
    /\ \A c \in Cores : \A s \in Reads : Covers(s) => got[c][s] \in {0, c}

MailboxInv == Order /\ Written /\ ReadsOwn /\ mailbox \in [Fields -> Nat]

(* A core's interrupt handler is out of reach until it enables interrupts, *)
(* its local APIC takes no vector before it is on, and the BSP sends       *)
(* nothing before all are started.                                         *)
Fresh ==
    /\ \A c \in Cores : step[c] \in 0 .. 12 => ap[c].at = "boot"
    /\ \A c \in Cores : c \in lapic_on => step[c] > 9
    /\ \A c \in Cores : pending[c] => c \in lapic_on
    /\ boot.at # "done" => bsp.at = "run"

BootInv == MailboxInv /\ (Covers("packet") => RequestInv /\ Fresh)

-----------------------------------------------------------------------------
(* The numbers of the steps, and the indices of the cores. *)
LEMMA StepNumbers ==
    /\ DOMAIN CoreSteps = 1 .. 12
    /\ CoreSteps[1] = "cr3" /\ CoreSteps[2] = "stack" /\ CoreSteps[3] = "store"
    /\ CoreSteps[4] = "complex" /\ CoreSteps[5] = "packet" /\ CoreSteps[6] = "index"
    /\ CoreSteps[7] = "new" /\ CoreSteps[8] = "reset" /\ CoreSteps[9] = "lapic"
    /\ CoreSteps[10] = "index2" /\ CoreSteps[11] = "pool" /\ CoreSteps[12] = "sti"
  BY DEF CoreSteps

(* The order of the stores, one by one. *)
LEMMA StoreNumbers ==
    /\ DOMAIN StoreOrder = 1 .. 6 /\ Len(StoreOrder) = 6
    /\ Fields = {"stack", "store", "index", "complex", "packet", "cr3"}
<1>1. DOMAIN StoreOrder = 1 .. 6 /\ Len(StoreOrder) = 6
  BY DEF StoreOrder
<1>2. /\ StoreOrder[1] = "stack" /\ StoreOrder[2] = "store" /\ StoreOrder[3] = "index"
      /\ StoreOrder[4] = "complex" /\ StoreOrder[5] = "packet" /\ StoreOrder[6] = "cr3"
  BY DEF StoreOrder
<1>3. \A i \in 1 .. 6 : i = 1 \/ i = 2 \/ i = 3 \/ i = 4 \/ i = 5 \/ i = 6
  OBVIOUS
<1> QED
  BY <1>1, <1>2, <1>3 DEF Fields

(* Cores are numbered from one. *)
LEMMA CoresAreNumbers == Cores \subseteq Nat \ {0}
  BY FS_CardinalityType, CoresAssumption

(* Every read is of a field of the mailbox. *)
LEMMA FieldsRead == \A s \in Reads : Field(s) \in Fields
  BY StoreNumbers DEF Reads, Field

-----------------------------------------------------------------------------
(* The bootstrap core. *)
LEMMA StoreKeeps ==
    ASSUME MailboxInv, Cores \subseteq Nat \ {0}, BspStore
    PROVE  MailboxInv'
<1>1. Order'
  <2>1. boot.field \in Nat \ {0} /\ boot.field + 1 \in Nat \ {0}
    BY DEF MailboxInv, Order
  <2>2. boot' = [boot EXCEPT !.field = boot.field + 1]
    BY DEF BspStore
  <2>3. boot' \in [at : {"store", "sleep", "done"}, core : Nat, field : Nat \ {0}]
    BY <2>1, <2>2 DEF MailboxInv, Order
  <2> QED
    BY <2>2, <2>3 DEF MailboxInv, Order, BspStore
<1>2. Written' /\ (mailbox \in [Fields -> Nat])'
  BY StoreNumbers DEF MailboxInv, Order, Written, BspStore, Fields
<1>3. ReadsOwn'
  BY DEF MailboxInv, ReadsOwn, BspStore, Covers
<1> QED
  BY <1>1, <1>2, <1>3 DEF MailboxInv

(* Starting a core changes nothing in the mailbox. *)
LEMMA StartsKeeps ==
    ASSUME MailboxInv, Cores \subseteq Nat \ {0}, BspStarts
    PROVE  MailboxInv'
<1>1. Order'
  <2>1. boot' = [boot EXCEPT !.at = "sleep"]
    BY DEF BspStarts
  <2>2. boot' \in [at : {"store", "sleep", "done"}, core : Nat, field : Nat \ {0}]
        /\ boot'.at = "sleep" /\ boot'.core = boot.core
    BY <2>1 DEF MailboxInv, Order
  <2>3. step' \in [Cores -> Nat] /\ \A c \in Cores \ {boot.core} : step'[c] = step[c]
    BY DEF MailboxInv, Order, BspStarts
  <2> QED
    BY <2>2, <2>3 DEF MailboxInv, Order, BspStarts
<1>2. Written' /\ (mailbox \in [Fields -> Nat])'
  BY StoreNumbers DEF MailboxInv, Order, Written, BspStarts, Fields
<1>3. ReadsOwn'
  BY DEF MailboxInv, ReadsOwn, BspStarts, Covers
<1> QED
  BY <1>1, <1>2, <1>3 DEF MailboxInv

(* When the BSP wakes, the core it started is past the deadline. *)
LEMMA WakesKeeps ==
    ASSUME MailboxInv, Cores \subseteq Nat \ {0}, BspWakes
    PROVE  MailboxInv'
<1>1. Order'
  BY DEF MailboxInv, Order, BspWakes
<1>2. Written' /\ (mailbox \in [Fields -> Nat])'
  BY StoreNumbers DEF MailboxInv, Order, Written, BspWakes, Fields
<1>3. ReadsOwn'
  BY DEF MailboxInv, ReadsOwn, BspWakes, Covers
<1> QED
  BY <1>1, <1>2, <1>3 DEF MailboxInv

(* A core that starts: a step is only made by a core that was started, and *)
(* one that is not past the deadline is the one the mailbox describes.     *)
LEMMA StepKeeps ==
    ASSUME MailboxInv, Cores \subseteq Nat \ {0}, NEW c \in Cores, CoreStep(c)
    PROVE  MailboxInv' /\ step'[c] = step[c] + 1 /\ step[c] \in 1 .. 12
                       /\ \A d \in Cores \ {c} : step'[d] = step[d]
<1>1. step[c] \in 1 .. 12 /\ step' = [step EXCEPT ![c] = step[c] + 1]
  BY StepNumbers DEF CoreStep, ReadMailbox, Allocate, ResetPacket, LapicReset,
     EnableInterrupts, Doing, StepOver
<1>2. UNCHANGED <<mailbox, boot, deadline>>
  BY DEF CoreStep, ReadMailbox, Allocate, ResetPacket, LapicReset, EnableInterrupts
<1>3. Order'
  BY <1>1, <1>2 DEF MailboxInv, Order
<1>4. Written' /\ (mailbox \in [Fields -> Nat])'
  BY <1>2 DEF MailboxInv, Written
<1>5. ReadsOwn'
  <2>1. CASE got' = got
    BY <1>2, <2>1 DEF MailboxInv, ReadsOwn, Covers
  <2>2. CASE ReadMailbox(c)
    <3>1. PICK s \in Reads : Doing(c, s) /\ got' = [got EXCEPT ![c][s] = mailbox[Field(s)]]
      BY <2>2 DEF ReadMailbox
    <3>2. mailbox[Field(s)] \in Nat
      BY FieldsRead DEF MailboxInv
    <3>3. got' \in [Cores -> [Reads -> Nat]]
      BY <3>1, <3>2 DEF MailboxInv, ReadsOwn
    <3>4. ASSUME Covers(s) PROVE mailbox[Field(s)] = c
      <4>1. step[c] <= deadline
        BY <1>1, <3>1, <3>4, StepNumbers DEF Covers, Doing
      <4>2. c = boot.core /\ boot.at = "sleep"
        BY <1>1, <4>1 DEF MailboxInv, Order
      <4> QED
        BY <4>2, FieldsRead DEF MailboxInv, Written, Fields
    <3>5. ASSUME NEW d \in Cores, NEW t \in Reads, Covers(t)' PROVE got'[d][t] \in {0, d}
      <4>1. Covers(t)
        BY <1>2, <3>5 DEF Covers
      <4>2. CASE d = c /\ t = s
        BY <3>1, <3>4, <4>1, <4>2 DEF MailboxInv, ReadsOwn
      <4>3. CASE ~(d = c /\ t = s)
        BY <3>1, <4>1, <4>3 DEF MailboxInv, ReadsOwn
      <4> QED
        BY <4>2, <4>3
    <3> QED
      BY <3>3, <3>5 DEF ReadsOwn
  <2>3. got' = got \/ ReadMailbox(c)
    BY DEF CoreStep, Allocate, ResetPacket, LapicReset, EnableInterrupts
  <2> QED
    BY <2>1, <2>2, <2>3
<1> QED
  BY <1>1, <1>3, <1>4, <1>5 DEF MailboxInv, Order

(* A step of the requests leaves the mailbox alone. *)
LEMMA BootVarsKeep ==
    ASSUME MailboxInv, UNCHANGED bootVars
    PROVE  MailboxInv'
  BY DEF MailboxInv, Order, Written, ReadsOwn, Covers, bootVars

-----------------------------------------------------------------------------
(* The packet a core resets is its own, and nobody waits for an answer in  *)
(* it that a handler could give.                                           *)
LEMMA ResetKeeps ==
    ASSUME MailboxInv, RequestInv, Fresh, Covers("packet"), Cores \subseteq Nat \ {0},
           NEW c \in Cores, ResetPacket(c)
    PROVE  RequestInv'
<1>1. step[c] = 8 /\ ap[c].at = "boot" /\ ~pending[c]
  BY StepNumbers DEF ResetPacket, Doing, Fresh
<1>2. got[c]["packet"] \in {0, c}
  BY DEF MailboxInv, ReadsOwn, Reads
<1>3. UNCHANGED <<pending, ap, mapped, bsp, acked>>
  BY DEF ResetPacket
<1>4. \/ packet' = packet
      \/ packet' = [packet EXCEPT ![c] = [packet[c] EXCEPT !.status = "Invalid",
                                                           !.type = "Invalid"]]
  <2>1. packet \in [Cores -> [status : {"Invalid", "Pending", "Recieved",
                                        "Completed", "Failed"},
                              type : {"Invalid", "SyncVMem", "SummonApplication"},
                              region : Regions \cup {NoRegion}]]
    BY DEF RequestInv, Wired
  <2>2. CASE got[c]["packet"] = 0
    <3>1. 0 \notin Cores
      OBVIOUS
    <3> QED
      BY <2>1, <2>2, <3>1 DEF ResetPacket
  <2>3. CASE got[c]["packet"] = c
    BY <2>1, <2>3 DEF ResetPacket
  <2> QED
    BY <1>2, <2>2, <2>3
<1>5. CASE packet' = packet
  <2>1. UNCHANGED vars
    BY <1>3, <1>5 DEF vars
  <2> QED
    BY <2>1, StutterKeeps
<1>6. CASE packet' = [packet EXCEPT ![c] = [packet[c] EXCEPT !.status = "Invalid",
                                                             !.type = "Invalid"]]
  <2> DEFINE Packets == [status : {"Invalid", "Pending", "Recieved", "Completed", "Failed"},
                         type : {"Invalid", "SyncVMem", "SummonApplication"},
                         region : Regions \cup {NoRegion}]
  <2>1. Wired'
    <3>1. Wired
      BY DEF RequestInv
    <3>2. packet \in [Cores -> Packets]
      BY <3>1 DEF Wired
    <3>3. packet'[c] \in Packets /\ packet'[c].type = "Invalid"
      BY <1>6, <3>2
    <3>4. packet' \in [Cores -> Packets] /\ \A d \in Cores \ {c} : packet'[d] = packet[d]
      BY <1>6, <3>2
    <3>5. \A d \in Cores : packet'[d].type = "SyncVMem" => packet'[d].region \in Regions
      BY <3>1, <3>3, <3>4 DEF Wired
    <3> QED
      BY <1>3, <3>1, <3>4, <3>5 DEF Wired
  <2>2. Link(c)'
    BY <1>1, <1>3, <1>6 DEF RequestInv, Wired, Linked, Link, PendingOk, BusyOk, WorkOk,
       DoneOk, Busy, Asked, Synced
  <2>3. \A d \in Cores \ {c} : Link(d)'
    BY <1>3, <1>6, LinkKept DEF RequestInv, Wired, Linked
  <2>4. SyncedWhenAcked'
    BY <1>3 DEF RequestInv, SyncedWhenAcked
  <2> QED
    BY <2>1, <2>2, <2>3, <2>4 DEF RequestInv, Linked
<1> QED
  BY <1>4, <1>5, <1>6

(* The other steps of the start do not touch the requests, or only what    *)
(* nobody looks at yet.                                                    *)
LEMMA CoreStepRequests ==
    ASSUME MailboxInv, RequestInv, Fresh, Covers("packet"), Cores \subseteq Nat \ {0},
           NEW c \in Cores, CoreStep(c)
    PROVE  RequestInv' /\ Fresh'
<1>1. /\ step'[c] = step[c] + 1 /\ step[c] \in 1 .. 12
      /\ \A d \in Cores \ {c} : step'[d] = step[d]
  BY StepKeeps
<1>2. ap[c].at = "boot"
  BY <1>1 DEF Fresh
<1>3. CASE ReadMailbox(c) \/ Allocate(c)
  <2>1. UNCHANGED <<vars, lapic_on, boot>>
    BY <1>3 DEF ReadMailbox, Allocate
  <2>2. RequestInv'
    BY <2>1, StutterKeeps
  <2>3. Fresh'
    <3>1. step[c] = 12 => FALSE
      BY <1>3, StepNumbers DEF ReadMailbox, Allocate, Doing, Reads
    <3> QED
      BY <1>1, <1>2, <2>1, <3>1 DEF Fresh, vars
  <2> QED
    BY <2>2, <2>3
<1>4. CASE ResetPacket(c)
  <2>1. RequestInv'
    BY <1>4, ResetKeeps
  <2>2. Fresh'
    <3>1. step[c] = 8
      BY <1>4, StepNumbers DEF ResetPacket, Doing
    <3> QED
      BY <1>1, <1>2, <1>4, <3>1 DEF Fresh, ResetPacket
  <2> QED
    BY <2>1, <2>2
<1>5. CASE LapicReset(c)
  <2>1. RequestInv'
    BY <1>5, StutterKeeps DEF LapicReset
  <2>2. step[c] = 9
    BY <1>5, StepNumbers DEF LapicReset, Doing
  <2>3. Fresh'
    BY <1>1, <1>2, <1>5, <2>2 DEF Fresh, LapicReset, vars
  <2> QED
    BY <2>1, <2>3
<1>6. CASE EnableInterrupts(c)
  <2>1. step[c] = 12
    BY <1>6, StepNumbers DEF EnableInterrupts, Doing
  <2>2. /\ ap' = [ap EXCEPT ![c] = Idle]
        /\ UNCHANGED <<packet, pending, mapped, bsp, acked, lapic_on, boot>>
    BY <1>6 DEF EnableInterrupts
  <2>3. Wired'
    BY <2>2, IpiAssumption DEF RequestInv, Wired, Idle
  <2>4. Link(c)'
    BY <1>2, <2>2 DEF RequestInv, Wired, Linked, Link, PendingOk, BusyOk, WorkOk, DoneOk,
       Busy, Asked, Carries, Synced, Idle
  <2>5. \A d \in Cores \ {c} : Link(d)'
    BY <2>2, LinkKept DEF RequestInv, Wired, Linked
  <2>6. SyncedWhenAcked'
    BY <2>2 DEF RequestInv, SyncedWhenAcked
  <2>7. Fresh'
    BY <1>1, <2>1, <2>2 DEF RequestInv, Wired, Fresh
  <2> QED
    BY <2>3, <2>4, <2>5, <2>6, <2>7 DEF RequestInv, Linked
<1> QED
  BY <1>3, <1>4, <1>5, <1>6 DEF CoreStep

(* Requests to cores that may still start. *)
LEMMA SendRequests ==
    ASSUME MailboxInv, RequestInv, Fresh, NEW c \in Cores, NEW r \in Requests,
           Send(c, r) \/ SendLost(c, r)
    PROVE  RequestInv' /\ Fresh'
<1>1. CASE Send(c, r)
  <2>1. RequestInv'
    BY <1>1, SendKeeps DEF Send
  <2>2. Fresh'
    BY <1>1 DEF RequestInv, Wired, Fresh, Send, SendUserIpi, bootVars
  <2> QED
    BY <2>1, <2>2
<1>2. CASE SendLost(c, r)
  <2>1. \A d \in Cores : ~Busy(d) /\ ~pending[d]
    BY <1>2 DEF RequestInv, Linked, Link, BusyOk, PendingOk, Asked, SendLost, Wired
  <2>2. r.type \in {"SyncVMem", "SummonApplication"} /\ r.region \in Regions \cup {NoRegion}
        /\ (r.type = "SyncVMem" => r.region \in Regions)
    BY DEF Requests
  <2>3. Wired'
    BY <1>2, <2>2, IpiAssumption DEF RequestInv, Wired, SendLost
  <2>4. Linked'
    BY <1>2, <2>1 DEF RequestInv, Wired, Linked, Link, BusyOk, PendingOk, WorkOk, DoneOk,
       Busy, Asked, Carries, Synced, SendLost
  <2>5. SyncedWhenAcked'
    BY <1>2 DEF RequestInv, SyncedWhenAcked, SendLost
  <2>6. Fresh'
    BY <1>2 DEF Fresh, SendLost, bootVars
  <2> QED
    BY <2>3, <2>4, <2>5, <2>6 DEF RequestInv
<1> QED
  BY <1>1, <1>2

(* The handler and await_ipi behave as in Ipi. *)
LEMMA IpiRequests ==
    ASSUME RequestInv, Fresh, MailboxInv,
           Answer \/ \E c \in Cores : Handle(c) \/ Panics(c)
    PROVE  RequestInv' /\ Fresh'
<1>1. CASE Answer
  <2>1. RequestInv'
    BY <1>1, AwaitKeeps DEF Answer
  <2>2. Fresh'
    BY <1>1 DEF Fresh, Answer, Await, AwaitCompleted, AwaitSleeps, AwaitTimeout, bootVars
  <2> QED
    BY <2>1, <2>2
<1>2. ASSUME NEW c \in Cores, Handle(c) \/ Panics(c) PROVE RequestInv' /\ Fresh'
  <2>1. RequestInv'
    BY <1>2, HandlerKeeps DEF Handle, Panics
  <2>2. /\ bsp' = bsp /\ UNCHANGED bootVars
        /\ \A d \in Cores \ {c} : pending'[d] = pending[d] /\ ap'[d] = ap[d]
    BY <1>2, HandlerMaps DEF Handle, Panics, RequestInv
  <2>3. ap[c].at # "boot" /\ (pending'[c] => pending[c])
    BY <1>2 DEF Handle, Panics, RequestInv, Wired, Handler, Receive, MapPage, MapDone, Summon,
       SendEoi, ClearRequest, SetFailed, Launch, Finish, MapPageFails, Idle
  <2>4. Fresh'
    BY <2>2, <2>3 DEF Fresh, bootVars
  <2> QED
    BY <2>1, <2>4
<1> QED
  BY <1>1, <1>2

-----------------------------------------------------------------------------
(* The invariant of the start holds at the start. *)
LEMMA InitBootEstablishes == InitBoot => BootInv
<1> SUFFICES ASSUME InitBoot PROVE BootInv
  OBVIOUS
<1>1. Order
  <2>1. Cores \subseteq Nat \ {0}
    BY CoresAreNumbers
  <2>2. deadline \in Nat /\ step = [c \in Cores |-> 0]
        /\ boot = [at |-> "store", core |-> 1, field |-> 1]
    BY DeadlinesAssumption DEF InitBoot
  <2> QED
    BY <2>1, <2>2 DEF Order
<1>2. Written /\ mailbox \in [Fields -> Nat]
  BY StoreNumbers DEF InitBoot, Written, Fields
<1>3. ReadsOwn
  BY DEF InitBoot, ReadsOwn
<1>4. Wired
  BY IpiAssumption DEF InitBoot, Wired, Booting
<1>5. Linked /\ SyncedWhenAcked
  BY DEF InitBoot, Linked, Link, PendingOk, BusyOk, WorkOk, DoneOk, Busy, Asked, Booting,
     Running, SyncedWhenAcked
<1>6. Fresh
  BY DEF InitBoot, Fresh, Booting, Running
<1> QED
  BY <1>1, <1>2, <1>3, <1>4, <1>5, <1>6 DEF BootInv, MailboxInv, RequestInv

(* Every step keeps the invariant of the start. *)
LEMMA NextBootKeeps == BootInv /\ [NextBoot]_allVars => BootInv'
<1> SUFFICES ASSUME BootInv, [NextBoot]_allVars PROVE BootInv'
  OBVIOUS
<1>1. Cores \subseteq Nat \ {0} /\ MailboxInv
  BY CoresAreNumbers DEF BootInv
<1>2. deadline' = deadline
  BY DEF NextBoot, Boot, BspStore, BspStarts, BspWakes, CoreStep, ReadMailbox, Allocate,
     ResetPacket, LapicReset, EnableInterrupts, Handle, Panics, Send, SendLost, Answer,
     bootVars, allVars
<1>3. Covers("packet")' => Covers("packet")
  BY <1>2 DEF Covers
<1>4. CASE Boot
  <2>1. MailboxInv'
    BY <1>1, <1>4, StoreKeeps, StartsKeeps, WakesKeeps DEF Boot
  <2>2. UNCHANGED vars /\ UNCHANGED lapic_on
    BY <1>4 DEF Boot, BspStore, BspStarts, BspWakes
  <2>3. ASSUME Covers("packet") PROVE RequestInv' /\ Fresh'
    <3>1. RequestInv /\ Fresh
      BY <2>3 DEF BootInv
    <3>2. \A c \in Cores : step'[c] = step[c] \/ (step[c] = 0 /\ step'[c] = 1)
      BY <1>1, <1>4 DEF Boot, BspStore, BspStarts, BspWakes, MailboxInv, Order
    <3>3. boot'.at # "done" => boot.at # "done"
      BY <1>1, <1>4 DEF Boot, BspStore, BspStarts, BspWakes, MailboxInv, Order
    <3>4. Fresh'
      BY <2>2, <3>1, <3>2, <3>3 DEF Fresh, vars
    <3> QED
      BY <2>2, <3>1, <3>4, StutterKeeps
  <2> QED
    BY <1>3, <2>1, <2>3 DEF BootInv
<1>5. ASSUME NEW c \in Cores, CoreStep(c) PROVE BootInv'
  <2>1. MailboxInv'
    BY <1>1, <1>5, StepKeeps
  <2> QED
    BY <1>1, <1>3, <1>5, <2>1, CoreStepRequests DEF BootInv
<1>6. ASSUME NEW c \in Cores, NEW r \in Requests, Send(c, r) \/ SendLost(c, r) PROVE BootInv'
  <2>1. MailboxInv'
    BY <1>1, <1>6, BootVarsKeep DEF Send, SendLost
  <2> QED
    BY <1>1, <1>3, <1>6, <2>1, SendRequests DEF BootInv
<1>7. CASE Answer \/ \E c \in Cores : Handle(c) \/ Panics(c)
  <2>1. MailboxInv'
    BY <1>1, <1>7, BootVarsKeep DEF Answer, Handle, Panics
  <2> QED
    BY <1>1, <1>3, <1>7, <2>1, IpiRequests DEF BootInv
<1>8. CASE UNCHANGED allVars
  <2>1. MailboxInv'
    BY <1>1, <1>8, BootVarsKeep DEF allVars
  <2>2. ASSUME Covers("packet") PROVE RequestInv' /\ Fresh'
    <3>1. RequestInv /\ Fresh
      BY <2>2 DEF BootInv
    <3> QED
      BY <1>8, <3>1, StutterKeeps DEF allVars, Fresh, vars, bootVars
  <2> QED
    BY <1>3, <2>1, <2>2 DEF BootInv
<1> QED
  BY <1>4, <1>5, <1>6, <1>7, <1>8 DEF NextBoot

(* The invariant of the start holds throughout. *)
LEMMA BootInvariance == SpecBoot => []BootInv
<1>1. InitBoot => BootInv
  BY InitBootEstablishes
<1>2. BootInv /\ [NextBoot]_allVars => BootInv'
  BY NextBootKeeps
<1> QED
  BY <1>1, <1>2, PTL DEF SpecBoot

(* activate_cores and ap_function: a core starts with the page tables,     *)
(* stack, packet, pool and index that were made for it, if the sleep       *)
(* covers its last read.                                                   *)
THEOREM ReadsOwnMailbox == SpecBoot => []OwnMailbox
<1>1. BootInv => OwnMailbox
  <2> SUFFICES ASSUME BootInv, Covers("index2"), NEW c \in Cores, NEW s \in Reads
               PROVE  got[c][s] \in {0, c}
    BY DEF OwnMailbox
  <2>1. deadline \in Nat /\ 10 <= deadline
    BY StepNumbers DEF BootInv, MailboxInv, Order, Covers
  <2>2. \A i \in 1 .. 12 : CoreSteps[i] = s => i <= 10
    BY StepNumbers DEF Reads
  <2>3. Covers(s)
    BY <2>1, <2>2, StepNumbers DEF Covers
  <2> QED
    BY <2>3 DEF BootInv, MailboxInv, ReadsOwn
<1> QED
  BY <1>1, BootInvariance, PTL

(* A SyncVMem request that await_ipi reports as completed was carried out, *)
(* however far the core had come when it was sent: a core in               *)
(* Processor::new may wipe the packet, but then its local APIC is still    *)
(* off and nobody completes it.  The sleep must cover the read of the      *)
(* packet's address, or the core wipes the packet of another one.          *)
THEOREM AckMeansSyncedFromBoot == SpecBoot => [](Covers("packet") => SyncedWhenAcked)
<1>1. BootInv => (Covers("packet") => SyncedWhenAcked)
  BY DEF BootInv, RequestInv
<1> QED
  BY <1>1, BootInvariance, PTL

(* The unlocked allocators have one user at a time from the first store of *)
(* activate_cores on, if the sleep covers what a core allocates.           *)
THEOREM OneAllocatorUserFromBoot == SpecBoot => []BootExclusive
<1>1. BootInv => BootExclusive
  <2> SUFFICES ASSUME BootInv, Covers("pool") PROVE BootExclusive
    BY DEF BootExclusive
  <2>1. deadline \in Nat /\ 11 <= deadline
    BY StepNumbers DEF BootInv, MailboxInv, Order, Covers
  <2>2. Covers("packet")
    BY <2>1, StepNumbers DEF Covers
  <2>3. RequestInv /\ Fresh /\ Order /\ Cores \subseteq Nat \ {0}
    BY <2>2, CoresAreNumbers DEF BootInv, MailboxInv
  <2>4. ASSUME NEW c \in Cores, \E s \in {"new", "reset", "lapic", "pool"} : Doing(c, s)
        PROVE  c = boot.core /\ boot.at = "sleep"
    <3>1. step[c] \in 1 .. 11
      BY <2>4, StepNumbers DEF Doing
    <3> QED
      BY <2>1, <2>3, <3>1 DEF Order
  <2>5. ASSUME NEW c \in Cores, ap[c].at = "work"
        PROVE  bsp.at # "run" /\ c = bsp.core /\ boot.at = "done"
    BY <2>3, <2>5 DEF RequestInv, Linked, Link, BusyOk, Busy, Asked, Fresh
  <2> QED
    BY <2>4, <2>5 DEF BootExclusive, BspAllocates, CoreAllocates
<1> QED
  BY <1>1, BootInvariance, PTL
================================================================================
