-------------------------------- MODULE Uhci --------------------------------
(***************************************************************************)
(* The UHCI driver: the boot sequence that addresses and configures one    *)
(* device per port, the control transfers it sends, the frame list, the    *)
(* interrupt handler and the interrupt pollers, next to the controller     *)
(* and the devices on the bus.                                             *)
(*                                                                         *)
(* A transfer is a list of transfer descriptors (TDs) hung from a queue    *)
(* head (QH).  The controller consumes the list and copies every TD's link *)
(* into the QH's element pointer, so what the last TD has in the place of  *)
(* a link is what the interrupt handler finds there: the driver puts a tag *)
(* that tells the handler which TDs to put back.                           *)
(***************************************************************************)
EXTENDS Integers, Sequences, FiniteSets, SequencesExt

CONSTANTS
    NPorts,            \* ports of the root hub
    MaxPackets,        \* maximum packet sizes of endpoint 0 a device may have
    Endpoints,         \* interrupt endpoints a device may have: [log, tds]
    ConfigLength,      \* w_total_length of a device's configuration
    Frames,            \* roots of the frame list (1024)
    ControlInterval,   \* CONTROL_ENDPOINT_CALL_TIME (16)
    NPages,            \* pages of the driver's private memory
    ListLength,        \* TDs of every interrupt list
    MaxReports,        \* bound: reports a device sends
    Races              \* the controller runs on while the driver changes a link

VARIABLES
    attached,   \* what sits on the ports: [on, packet, endpoint] per port
    script,     \* what the boot core has left to do
    step,       \* where it is within a transfer
    devices,    \* UhciDevice: [state, address, signaled, packet]
    td,         \* transfer descriptors by address
    qh,         \* element link of every QH
    links,      \* link of every frame list root and head link of every QH
    heads,      \* allocated control and interrupt QHs
    indices,    \* interrupt_queue_heads_indices
    used,       \* allocated_interrupt_transfer_descriptors
    pollers,    \* interrupt QHs with an installed poller
    pages,      \* allocated pages of private_physical_memory
    buffer,     \* page the running get_descriptor reads into
    usbint,     \* UsbInt of the status register
    isr,        \* the interrupt handler: idle, control, an interrupt QH, ack
    bus         \* devices: [address, expects, got, request, data, reports]
vars == <<attached, script, step, devices, td, qh, links, heads, indices, used,
          pollers, pages, buffer, usbint, isr, bus>>
bootVars == <<script, step, buffer>>

Ports == 1..NPorts
Logs == 0..10
Connected == {p \in Ports : attached[p].on}
None == <<"none">>
Stop == [to |-> None, t |-> TRUE]
To(a) == [to |-> a, t |-> FALSE]

-----------------------------------------------------------------------------
(* Addresses.  control_transfer_descriptors holds four TDs per port, every  *)
(* interrupt interval has a list of its own, an oversized transfer gets a   *)
(* page of TDs.                                                             *)
Control(k) == <<"control", k>>
InList(l, k) == <<"list", l, k>>
InPage(g, k) == <<"page", g, k>>
CustomTds == 2 + (ConfigLength + 7) \div 8
Tds == {Control(k) : k \in 0..(4 * NPorts - 1)}
       \cup {InList(l, k) : l \in Logs, k \in 0..(ListLength - 1)}
       \cup {InPage(g, k) : g \in 1..NPages, k \in 0..(CustomTds - 1)}
ControlQh(p) == <<"cqh", p>>
InterruptQh(n) == <<"iqh", n>>
Qhs == {ControlQh(p) : p \in Ports} \cup {InterruptQh(n) : n \in Ports}
Root(i) == <<"root", i>>

(* UhciTransferDescriptor: the fields the driver and the controller use.    *)
EmptyTd == [pid |-> "none", active |-> FALSE, ioc |-> FALSE, toggle |-> FALSE,
            len |-> 0, address |-> 0, link |-> To(None)]
Refreshed(d, pid, len, active, ioc, toggle) ==
    [d EXCEPT !.pid = pid, !.len = len, !.active = active, !.ioc = ioc,
              !.toggle = toggle]
RefreshForSetup(d) == Refreshed(d, "setup", 8, FALSE, FALSE, FALSE)
RefreshForIn(d, len, toggle) == Refreshed(d, "in", len, TRUE, FALSE, toggle)
RefreshForStatus(d, in) ==
    Refreshed(d, IF in THEN "in" ELSE "out", 0, TRUE, TRUE, TRUE)
LinkNextTd(d, a) == [d EXCEPT !.link = To(a)]
(* write_link_pointer keeps the low four bits, the T bit with them.         *)
WriteLinkPointer(d, a) == [d EXCEPT !.link.to = a]

-----------------------------------------------------------------------------
(* The frame list.  append_qh walks the links from a root; Walk(ls, r)[k]   *)
(* is the link it looks at in turn k.                                       *)
Walk(ls, r) ==
    LET next == [l \in [to : Qhs \cup {None}, t : BOOLEAN] |->
                    IF l.t THEN Stop ELSE ls[l.to]]
        w[k \in 0..(2 * NPorts + 1)] ==
            IF k = 0 THEN ls[r] ELSE next[w[k - 1]]
    IN  w
Chain(ls, r) == LET w == Walk(ls, r) IN {w[k].to : k \in DOMAIN w} \ {None}

(* Where the walk for a new QH stops: at the terminated link, and for a     *)
(* control QH in front of the first interrupt QH.                           *)
StopsAt(l, q) == l.t \/ (q[1] = "cqh" /\ l.to[1] = "iqh")
AppendQh(ls, q, r) ==
    LET w == Walk(ls, r)
        k == CHOOSE i \in DOMAIN w :
                 /\ w[i].to = q \/ StopsAt(w[i], q)
                 /\ \A j \in 0..(i - 1) : w[j].to # q /\ ~StopsAt(w[j], q)
        at == IF w[0].t THEN r ELSE w[IF k = 0 THEN 0 ELSE k - 1].to
    IN  IF ~w[0].t /\ w[k].to = q THEN ls
        ELSE [ls EXCEPT ![q] = ls[at], ![at] = To(q)]
Scheduled == UNION {Chain(links, Root(i)) : i \in 0..(Frames - 1)}

-----------------------------------------------------------------------------
(* The script of the boot core: untraited_work0, gather_device_information, *)
(* configure_devices, untraited_work2 and, at its end, the class driver     *)
(* that installs the pollers.                                               *)
ForEach(ops) ==
    FlattenSeq([p \in Ports |->
        IF p \in Connected THEN [i \in DOMAIN ops |-> <<ops[i], p>>] ELSE <<>>])
Script ==
    FlattenSeq([p \in Ports |->
        IF p \in Connected THEN <<<<"attach", p>>, <<"set_address", p>>>>
        ELSE <<<<"detach", p>>>>])
    \o ForEach(<<"device8", "device18">>)
    \o ForEach(<<"config9", "set_configuration", "config">>)
    \o ForEach(<<"endpoint">>) \o ForEach(<<"poller">>)
Booted == script = <<>>
Op == Head(script)[1]
Port == Head(script)[2]
At(op) == ~Booted /\ Op = op /\ isr = <<"idle">> /\ step = <<"fill">>

RequestLength ==
    CASE Op = "device8" -> 8
      [] Op = "device18" -> 18
      [] Op = "config9" -> 9
      [] Op = "config" -> ConfigLength
      [] OTHER -> 0
Reads == {"device8", "device18", "config9", "config"}
Writes == {"set_address", "set_configuration"}
Oversized == RequestLength > devices[Port].packet
Base == 4 * (Port - 1)

Init ==
    /\ attached \in [Ports -> {[on |-> FALSE]}
                              \cup [on : {TRUE}, packet : MaxPackets,
                                    endpoint : Endpoints]]
    /\ script = Script /\ step = <<"fill">>
    /\ devices = [p \in Ports |-> [state |-> "none", address |-> 0,
                                   signaled |-> FALSE, packet |-> 8]]
    /\ td = [a \in Tds |-> EmptyTd]
    /\ qh = [q \in Qhs |-> Stop]
    /\ links = [a \in {Root(i) : i \in 0..(Frames - 1)} \cup Qhs |-> Stop]
    /\ heads = [control |-> {}, interrupt |-> 0]
    /\ indices = [n \in Ports |-> 0]
    /\ used = [l \in Logs |-> 0]
    /\ pollers = {} /\ pages = {} /\ buffer = 0
    /\ usbint = FALSE /\ isr = <<"idle">>
    /\ bus = [p \in Ports |-> [address |-> -1, expects |-> FALSE, got |-> 0,
                               request |-> "none", data |-> FALSE,
                               reports |-> 0]]

-----------------------------------------------------------------------------
(* untraited_work0 resets a connected port, gives it TDs and a QH and       *)
(* places the QH; an empty port gets a QH whose element link is terminated. *)
Acquire(p, state, element) ==
    /\ devices' = [devices EXCEPT ![p].state = state]
    /\ td' = [a \in Tds |->
                IF \E k \in 0..3 : a = Control(4 * (p - 1) + k)
                THEN IF a[2] = 4 * (p - 1) + 3 THEN [td[a] EXCEPT !.link.t = TRUE]
                     ELSE WriteLinkPointer(td[a], Control(a[2] + 1))
                ELSE td[a]]
    /\ qh' = [qh EXCEPT ![ControlQh(p)] = element]
    /\ heads' = [heads EXCEPT !.control = @ \cup {ControlQh(p)}]
    /\ step' = <<"place", ControlQh(p), ControlInterval, 1>>
    /\ UNCHANGED <<attached, script, links, indices, used, pollers, pages, buffer,
                   usbint, isr>>

(* place_qh: into every multiple of the interval but the zeroth, one root   *)
(* after the other.                                                         *)
PlaceQh ==
    /\ ~Booted /\ isr = <<"idle">> /\ step[1] = "place"
    /\ LET i == step[4]
       IN  \/ /\ i < Frames \div step[3]
              /\ links' = AppendQh(links, step[2], Root(i * step[3]))
              /\ step' = [step EXCEPT ![4] = i + 1]
              /\ UNCHANGED script
           \/ /\ i >= Frames \div step[3]
              /\ step' = <<"fill">> /\ script' = Tail(script)
              /\ UNCHANGED links
    /\ UNCHANGED <<attached, devices, td, qh, heads, indices, used, pollers, pages,
                   buffer, usbint, isr, bus>>

Attach ==
    /\ At("attach")
    /\ Acquire(Port, "address", To(Control(Base)))
    /\ bus' = [bus EXCEPT ![Port].address = 0]

Detach ==
    /\ At("detach")
    /\ Acquire(Port, "detached", [to |-> Control(Base), t |-> TRUE])
    /\ UNCHANGED bus

(* private_physical_memory hands out the lowest free page.                  *)
LowestFree == {g \in (1..NPages) \ pages : \A h \in 1..(g - 1) : h \in pages}

(* get_descriptor takes a page for the answer before it sends the request.  *)
TakeBuffer ==
    /\ \E op \in Reads : At(op)
    /\ buffer = 0
    /\ \E g \in LowestFree : buffer' = g /\ pages' = pages \cup {g}
    /\ UNCHANGED <<attached, script, step, devices, td, qh, links, heads, indices,
                   used, pollers, usbint, isr, bus>>

-----------------------------------------------------------------------------
(* Sending: the TDs are filled in behind an inactive setup TD, ...          *)
FillSimple(tds) ==
    [tds EXCEPT
        ![Control(Base)] = LinkNextTd(RefreshForSetup(@), Control(Base + 1)),
        ![Control(Base + 1)] =
            [RefreshForStatus(@, TRUE) EXCEPT
                !.link = [to |-> <<"was_control", 2, Base>>, t |-> TRUE]]]

FillRead(tds) ==
    [tds EXCEPT
        ![Control(Base)] = LinkNextTd(RefreshForSetup(@), Control(Base + 1)),
        ![Control(Base + 1)] =
            LinkNextTd(RefreshForIn(@, RequestLength, TRUE), Control(Base + 2)),
        ![Control(Base + 2)] =
            [RefreshForStatus(@, FALSE) EXCEPT
                !.link = [to |-> <<"was_control", 3, Base>>, t |-> TRUE]]]

(* ... an oversized read in a page of its own, one IN TD per packet.        *)
InTdsRequired == (RequestLength + devices[Port].packet - 1)
                 \div devices[Port].packet
\* Mutant: the last packet is taken for a full one.
TookAll(k) == devices[Port].packet
Took(k) == LET rem == RequestLength - (k - 1) * devices[Port].packet
           IN  IF devices[Port].packet >= rem THEN rem ELSE devices[Port].packet
Toggle(k) == k % 2 = 1
FillCustom(tds, g) ==
    [a \in Tds |->
        IF a[1] # "page" \/ a[2] # g \/ a[3] > InTdsRequired + 1 THEN tds[a]
        ELSE LET d == [EmptyTd EXCEPT !.address = tds[Control(Base)].address]
             IN  CASE a[3] = 0 -> LinkNextTd(RefreshForSetup(d), InPage(g, 1))
                   [] a[3] \in 1..InTdsRequired ->
                        LinkNextTd(RefreshForIn(d, Took(a[3]), Toggle(a[3])),
                                   InPage(g, a[3] + 1))
                   [] OTHER -> WriteLinkPointer(RefreshForStatus(d, FALSE),
                                                <<"was_custom", Base, g>>)]

Fill ==
    /\ \E op \in Reads \cup Writes : At(op)
    /\ \/ /\ Op \in Writes
          /\ td' = FillSimple(td) /\ step' = <<"activate", Control(Base)>>
          /\ UNCHANGED pages
       \/ /\ Op \in Reads /\ buffer # 0 /\ ~Oversized
          /\ td' = FillRead(td) /\ step' = <<"activate", Control(Base)>>
          /\ UNCHANGED pages
       \/ /\ Op \in Reads /\ buffer # 0 /\ Oversized
          /\ \E g \in LowestFree :
                /\ td' = FillCustom(td, g) /\ step' = <<"activate", InPage(g, 0)>>
                /\ pages' = pages \cup {g}
    /\ UNCHANGED <<attached, script, devices, qh, links, heads, indices, used,
                   pollers, buffer, usbint, isr, bus>>

(* The setup TD becomes active, then the QH's element link is let go.  The  *)
(* link is read, changed and written back, and the controller or the        *)
(* handler, which write it too, may come in between.                        *)
Activate ==
    /\ ~Booted /\ isr = <<"idle">> /\ step[1] = "activate"
    /\ td' = [td EXCEPT ![step[2]].active = TRUE]
    /\ step' = <<"start", step[2]>>
    /\ UNCHANGED <<attached, script, devices, qh, links, heads, indices, used,
                   pollers, pages, buffer, usbint, isr, bus>>

StartRead ==
    /\ ~Booted /\ isr = <<"idle">> /\ step[1] = "start"
    /\ step' = <<"write", IF Op \in Reads /\ Oversized THEN To(step[2])
                          ELSE [qh[ControlQh(Port)] EXCEPT !.t = FALSE]>>
    /\ UNCHANGED <<attached, script, devices, td, qh, links, heads, indices, used,
                   pollers, pages, buffer, usbint, isr, bus>>

StartWrite ==
    /\ ~Booted /\ isr = <<"idle">> /\ step[1] = "write"
    /\ qh' = [qh EXCEPT ![ControlQh(Port)] = step[2]]
    /\ step' = <<"await">>
    /\ UNCHANGED <<attached, script, devices, td, links, heads, indices, used,
                   pollers, pages, buffer, usbint, isr, bus>>

(* await_interrupt returns; the caller takes in what it asked for and frees *)
(* the buffer.                                                              *)
Addressed(tds, address) ==
    [a \in Tds |-> IF \E k \in 0..3 : a = Control(Base + k)
                   THEN [tds[a] EXCEPT !.address = address] ELSE tds[a]]
Taken(d) ==
    CASE Op = "set_address" ->
           [d EXCEPT !.address = Cardinality({p \in Connected : p <= Port})]
      [] Op = "device8" -> [d EXCEPT !.packet = attached[Port].packet]
      [] Op = "config" -> [d EXCEPT !.state = "configured"]
      [] OTHER -> d

Signaled == devices[Port].signaled
AwaitInterrupt ==
    /\ ~Booted /\ isr = <<"idle">> /\ step = <<"await">> /\ Signaled
    /\ script' = Tail(script) /\ step' = <<"fill">> /\ buffer' = 0
    /\ pages' = pages \ {buffer}
    /\ devices' = [devices EXCEPT
                      ![Port] = Taken([@ EXCEPT !.signaled = FALSE])]
    /\ td' = IF Op = "set_address" THEN Addressed(td, devices'[Port].address)
             ELSE td
    /\ UNCHANGED <<attached, qh, links, heads, indices, used, pollers, usbint,
                   isr, bus>>

-----------------------------------------------------------------------------
(* untraited_work2: an interrupt endpoint takes the next interrupt QH and   *)
(* TDs of the list of its interval.  The list is noted in the slot of the   *)
(* number of allocated BULK queue heads, which is always the first.         *)
OwnEndpoint(p) == attached[p].endpoint
AcquireEndpoint ==
    /\ At("endpoint")
    /\ LET ep == OwnEndpoint(Port)
           first == used[ep.log]
           n == heads.interrupt + 1
           q == InterruptQh(n)
       IN  /\ first + ep.tds <= ListLength
           /\ td' = [a \in Tds |->
                IF a[1] # "list" \/ a[2] # ep.log
                   \/ a[3] \notin first..(first + ep.tds - 1) THEN td[a]
                ELSE [Refreshed(td[a], "in", 8, TRUE, FALSE, (a[3] - first) % 2 = 1)
                      EXCEPT !.address = devices[Port].address,
                             !.link = IF a[3] < first + ep.tds - 1
                                      THEN To(InList(ep.log, a[3] + 1))
                                      ELSE [to |-> <<"was_interrupt", first, ep.tds>>,
                                            t |-> TRUE]]]
           /\ indices' = [indices EXCEPT ![1] = ep.log]
           /\ used' = [used EXCEPT ![ep.log] = @ + ep.tds]
           /\ heads' = [heads EXCEPT !.interrupt = n]
           /\ qh' = [qh EXCEPT ![q] = [to |-> InList(ep.log, first), t |-> TRUE]]
           /\ step' = <<"place", q, 2 ^ ep.log, 1>>
    /\ UNCHANGED <<attached, script, devices, links, pollers, pages, buffer,
                   usbint, isr, bus>>

(* The QH of port p's endpoint: the n-th connected port has the n-th.       *)
EndpointQh(p) == InterruptQh(Cardinality({r \in Connected : r <= p}))

(* install_interrupt_poller: the last TD interrupts, the callback is noted, *)
(* the element link is let go.                                              *)
InstallInterruptPoller ==
    /\ At("poller")
    /\ LET q == EndpointQh(Port)
           last == [qh[q].to EXCEPT ![3] = @ + OwnEndpoint(Port).tds - 1]
       IN  /\ td' = [td EXCEPT ![last].ioc = TRUE]
           /\ pollers' = pollers \cup {q}
           /\ qh' = [qh EXCEPT ![q].t = FALSE]
    /\ script' = Tail(script)
    /\ UNCHANGED <<attached, step, devices, links, heads, indices, used, pages,
                   buffer, usbint, isr, bus>>

-----------------------------------------------------------------------------
(* The controller and the devices, as the driver relies on them: a          *)
(* scheduled QH whose element link is not terminated has its TD run when it *)
(* is active; the link of the TD becomes the element link.  A device takes  *)
(* data only with the toggle it expects, and a new address after the status *)
(* stage.  A TD nobody answers is left alone here (NoStrayTransaction).     *)
Answers(d) == {p \in Connected : bus[p].address = d.address}
Ready(q) ==
    ~qh[q].t /\ qh[q].to \in Tds /\ td[qh[q].to].active /\ q \in Scheduled

(* Without Races neither the controller nor an interrupt falls between the  *)
(* read and the write of a link, and the handler ends before the controller *)
(* visits a QH again (a control QH is visited every 16 ms).                 *)
DriverAtRest == isr = <<"idle">> /\ step[1] # "write"

Transacted(b, d, p) ==
    CASE d.pid = "setup" ->
           [b EXCEPT !.request = Op, !.got = 0, !.data = TRUE]
      [] d.pid # "setup" /\ d.len = 0 ->
           [b EXCEPT !.request = "none",
                     !.address = IF b.request = "set_address"
                                 THEN Cardinality({r \in Connected : r <= p})
                                 ELSE @]
      [] OTHER -> IF d.toggle = b.data
                  THEN [b EXCEPT !.got = @ + d.len, !.data = ~@] ELSE b

HcControl(q) ==
    /\ q[1] = "cqh" /\ Ready(q)
    /\ Races \/ DriverAtRest
    /\ LET d == td[qh[q].to]
       IN  \E p \in Answers(d) :
             /\ bus' = [bus EXCEPT ![p] = Transacted(@, d, p)]
             /\ td' = [td EXCEPT ![qh[q].to].active = FALSE]
             /\ qh' = [qh EXCEPT ![q] = d.link]
             /\ usbint' = (usbint \/ d.ioc)
    /\ UNCHANGED <<attached, devices, links, heads, indices, used, pollers, pages,
                   isr, bootVars>>

HcReport(q) ==
    /\ q[1] = "iqh" /\ Ready(q)
    /\ Races \/ DriverAtRest
    /\ LET d == td[qh[q].to]
       IN  \E p \in Answers(d) :
             /\ bus[p].reports < MaxReports
             /\ bus' = [bus EXCEPT ![p].reports = @ + 1, ![p].expects = ~@]
             /\ td' = [td EXCEPT ![qh[q].to].active = FALSE]
             /\ qh' = [qh EXCEPT ![q] = d.link]
             /\ usbint' = (usbint \/ d.ioc)
    /\ UNCHANGED <<attached, devices, links, heads, indices, used, pollers, pages,
                   isr, bootVars>>

-----------------------------------------------------------------------------
(* uhci_interrupt: status 1 leads to both scans, then UsbInt is cleared.    *)
Interrupt ==
    /\ usbint /\ isr = <<"idle">> /\ (Races \/ DriverAtRest)
    /\ isr' = <<"control">>
    /\ UNCHANGED <<attached, devices, td, qh, links, heads, indices, used,
                   pollers, pages, usbint, bus, bootVars>>

Finished == {q \in heads.control : qh[q].to[1] \in {"was_control", "was_custom"}}
\* Mutant: the last device with the address.
SignalledLast(ds, address) ==
    LET p == CHOOSE r \in Ports :
                /\ ds[r].address = address
                /\ \A s \in (r + 1)..NPorts : ds[s].address # address
    IN  IF \E r \in Ports : ds[r].address = address
        THEN [ds EXCEPT ![p].signaled = TRUE] ELSE ds
(* The first device with the address the TD carries is signalled.           *)
Signalled(ds, address) ==
    LET p == CHOOSE r \in Ports :
                /\ ds[r].address = address
                /\ \A s \in 1..(r - 1) : ds[s].address # address
    IN  IF \E r \in Ports : ds[r].address = address
        THEN [ds EXCEPT ![p].signaled = TRUE] ELSE ds
Cleared(tds, base, n) ==
    [a \in Tds |->
        IF ~\E k \in 0..(n - 1) : a = Control(base + k) THEN tds[a]
        ELSE LET d == [tds[a] EXCEPT !.active = FALSE, !.len = 0]
             IN  IF a[2] = base + n - 1 THEN LinkNextTd(d, Control(base + n))
                 ELSE d]

FinishControl(q) ==
    /\ qh[q].to[1] = "was_control"
    /\ td' = Cleared(td, qh[q].to[3], qh[q].to[2])
    /\ qh' = [qh EXCEPT ![q] = [to |-> Control(qh[q].to[3]), t |-> TRUE]]
    /\ devices' = Signalled(devices, td[Control(qh[q].to[3])].address)
    /\ UNCHANGED pages

FinishCustom(q) ==
    /\ qh[q].to[1] = "was_custom"
    /\ qh' = [qh EXCEPT ![q] = [to |-> Control(qh[q].to[2]), t |-> TRUE]]
    /\ devices' = Signalled(devices, td[Control(qh[q].to[2])].address)
    /\ pages' = pages \ {qh[q].to[3]}
    /\ UNCHANGED td
InterruptCheckControl ==
    /\ isr = <<"control">>
    /\ \/ /\ \E q \in Finished : FinishControl(q) \/ FinishCustom(q)
          /\ UNCHANGED isr
       \/ /\ Finished = {}
          /\ isr' = IF heads.interrupt = 0 THEN <<"ack">> ELSE InterruptQh(1)
          /\ UNCHANGED <<td, qh, devices, pages>>
    /\ UNCHANGED <<attached, links, heads, indices, used, pollers, usbint, bus,
                   bootVars>>

\* Mutant: an even number of TDs flips the toggle too.
FlipAlways(n) == TRUE
FlipToggle(n) == n % 2 # 0
(* A finished poll is armed again with the TDs its tag names, taken from    *)
(* the list the slot of the QH names.                                       *)
Rearmed(tds, list, first, n) ==
    [a \in Tds |->
        IF ~\E k \in first..(first + n - 1) : a = InList(list, k) THEN tds[a]
        ELSE [tds[a] EXCEPT !.active = TRUE, !.ioc = TRUE,
                            !.toggle = IF FlipToggle(n) THEN ~@ ELSE @]]

After(n) == IF n = heads.interrupt THEN <<"ack">> ELSE InterruptQh(n + 1)
InterruptCheckInterrupt ==
    /\ isr \in Qhs
    /\ LET list == indices[isr[2]]
           tag == qh[isr].to
       IN  \/ /\ tag[1] = "was_interrupt"
              /\ \A k \in tag[2]..(tag[2] + tag[3] - 1) :
                    ~td[InList(list, k)].active
              /\ td' = Rearmed(td, list, tag[2], tag[3])
              /\ qh' = [qh EXCEPT ![isr] = To(InList(list, tag[2]))]
           \/ tag[1] # "was_interrupt" /\ UNCHANGED <<td, qh>>
    /\ isr' = After(isr[2])
    /\ UNCHANGED <<attached, devices, links, heads, indices, used, pollers, pages,
                   usbint, bus, bootVars>>

AfterClear == FALSE
ClearUsbInt ==
    /\ isr = <<"ack">>
    /\ usbint' = AfterClear /\ isr' = <<"idle">>
    /\ UNCHANGED <<attached, devices, td, qh, links, heads, indices, used,
                   pollers, pages, bus, bootVars>>

Boot == \/ Attach \/ Detach \/ PlaceQh \/ TakeBuffer \/ Fill \/ Activate
        \/ StartRead \/ StartWrite \/ AwaitInterrupt \/ AcquireEndpoint \/ InstallInterruptPoller
Hc == \E q \in Qhs : HcControl(q) \/ HcReport(q)
Isr == Interrupt \/ InterruptCheckControl \/ InterruptCheckInterrupt \/ ClearUsbInt
Next == Boot \/ Hc \/ Isr

(* The boot core runs until it waits, the controller works through the      *)
(* schedule frame by frame, an interrupt is delivered and its handler ends. *)
Spec == Init /\ [][Next]_vars /\ WF_vars(Boot) /\ WF_vars(Hc) /\ WF_vars(Isr)

-----------------------------------------------------------------------------
(* The handler looks for the device by the address in the TD, and an empty  *)
(* port has address 0 like a port that is about to be addressed: signals    *)
(* reach the right device when the empty ports come last.                   *)
EmptyPortsLast == \A p \in Connected, r \in Ports \ Connected : p < r
(* The slot that names a QH's list is right for every interrupt QH.         *)
ListsNoted == \A p \in Connected :
    LET q == EndpointQh(p)
    IN  q[2] <= heads.interrupt => indices[q[2]] = OwnEndpoint(p).log

Starting(p) == /\ ~Booted /\ Port = p /\ Op \in Reads \cup Writes
               /\ step # <<"fill">>

(* What the controller is about to run on a port's control QH is answered   *)
(* by the device of that port and belongs to the request being sent: no TD  *)
(* of an earlier or half-built transfer runs.                               *)
NoStrayTransaction == \A p \in Ports :
    Ready(ControlQh(p)) =>
        /\ Starting(p)
        /\ Answers(td[qh[ControlQh(p)].to]) = {p}
        /\ td[qh[ControlQh(p)].to].pid # "setup" => bus[p].request = Op

(* A device is signalled only while its own request is waited for, after    *)
(* the device has seen the whole request and the QH is at rest again.       *)
SignalIsOwn ==
    EmptyPortsLast => \A p \in Ports :
        devices[p].signaled =>
            /\ Starting(p)
            /\ bus[p].request = "none"
            /\ qh[ControlQh(p)].to = Control(4 * (p - 1))

(* A descriptor that get_descriptor returns has been read to its last byte: *)
(* the IN TDs of an oversized read cover it, with the toggles the device    *)
(* expects.                                                                 *)
DescriptorComplete ==
    (~Booted /\ Op \in Reads /\ devices[Port].signaled)
        => bus[Port].got = RequestLength

CustomRunning == /\ ~Booted /\ Op \in Reads /\ Oversized /\ step # <<"fill">>
                 /\ ~devices[Port].signaled

(* Every page taken is the buffer of the running request or holds the TDs   *)
(* of an oversized read that has not been handled: nothing leaks and no     *)
(* page is freed under a running transfer.                                  *)
PagesExact ==
    /\ Cardinality(pages) = (IF buffer = 0 THEN 0 ELSE 1)
                            + (IF CustomRunning THEN 1 ELSE 0)
    /\ \A q \in Qhs : qh[q].to[1] = "page" => qh[q].to[2] \in pages \ {buffer}

Placed(q, i, interval) ==
    /\ i % interval = 0
    /\ ~(step[1] = "place" /\ step[2] = q /\ i >= step[4] * interval)

(* Every QH is reached in every frame that is a multiple of its interval    *)
(* (but frame 0), no list of a frame runs in a circle, and within a frame   *)
(* no control QH comes behind an interrupt QH (place_qh, append_qh).        *)
ScheduleExact ==
    /\ \A i \in 0..(Frames - 1) :
        LET w == Walk(links, Root(i))
        IN  /\ w[2 * NPorts + 1].t
            /\ \A j, k \in DOMAIN w :
                  (j < k /\ w[j].to[1] = "iqh") => w[k].to[1] # "cqh"
    /\ \A i \in 1..(Frames - 1), p \in Ports :
        /\ (ControlQh(p) \in heads.control /\ Placed(ControlQh(p), i, ControlInterval))
              => ControlQh(p) \in Chain(links, Root(i))
        /\ (p \in Connected /\ EndpointQh(p)[2] <= heads.interrupt
            /\ Placed(EndpointQh(p), i, 2 ^ OwnEndpoint(p).log))
              => EndpointQh(p) \in Chain(links, Root(i))

(* A poll that the controller may run asks for the toggle the device sends  *)
(* next, over any number of reports and any number of TDs per poll.         *)
ToggleAgrees == \A p \in Connected :
    (ListsNoted /\ EndpointQh(p) \in pollers /\ Ready(EndpointQh(p))) =>
        td[qh[EndpointQh(p)].to].toggle = bus[p].expects

(* The boot sequence ends: no await_interrupt waits forever.                *)
BootOver == Booted \/ ~ListsNoted
BootEnds == EmptyPortsLast => <>BootOver

(* A finished poll is armed again, so that the next report can come in.     *)
PollOver(n) == qh[InterruptQh(n)].to[1] = "was_interrupt" /\ ListsNoted
PollArmed(n) == qh[InterruptQh(n)].to[1] = "list"
PollsRearmed == \A n \in Ports : PollOver(n) ~> PollArmed(n)
=============================================================================
