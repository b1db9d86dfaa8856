-------------------------------- MODULE Ehci --------------------------------
(***************************************************************************)
(* The EHCI driver: boot sequence, control transfers, the two schedules,   *)
(* the interrupt handler and the interrupt poller, next to the controller  *)
(* and the devices on the bus.                                             *)
(*                                                                         *)
(* A transfer is a chain of transfer descriptors (qTDs) in a ring of the   *)
(* endpoint; it begins when the queue head (QH) points to the first.  The  *)
(* QH is then put into a queue, for the handler to disable; a transfer the *)
(* handler has answered before that is counted instead.  A poller has two  *)
(* qTDs in turn: the handler appends the other one to the QH and prepares  *)
(* the finished one for the time after.                                    *)
(***************************************************************************)
EXTENDS Integers, Sequences, FiniteSets, SequencesExt, FiniteSetsExt

CONSTANTS
    NPorts,      \* ports of the root hub
    Intervals,   \* frames between two polls of a keyboard (1 << b_interval - 1) / 8
    MaxHigh,     \* bound: high speed devices among those attached
    MaxEndpoints,\* bound: endpoints of a device
    MaxReports,  \* bound: reports a device sends
    MaxUnplugs,  \* bound: devices that are pulled out
    NQtds,       \* qTDs of a control endpoint (128)
    ListLength,  \* QHs of the asynchronous list (1024)
    FrameCount,  \* entries of the periodic list (1024)
    Races        \* an event may fall between two adjacent accesses

VARIABLES
    attached,    \* per port: [speed, endpoints, interval (0: no keyboard), on]
    script,      \* what the boot core has left to do
    step,        \* where it is within an operation
    devices,     \* EhciDevice: [state, address, setup (setup_qtd_index)]
    td,          \* qTDs: [active, next, ioc, offset]
    qh,          \* QHs in use: [next, current]
    links,       \* horizontal link of every QH of the asynchronous list
    heads,       \* QHs of the asynchronous list: the endpoint that owns one
    frames,      \* the periodic list: poller of every entry, or -1
    pollers,     \* per port with an installed poller: current_active
    async,       \* the schedule's enable and status bits
    interrupted, \* endpoint_interrupted
    queue, inserted, preinserted, \* qhs_to_disable, preinserted_answered
    usbint,      \* USBSTS: the causes that are set
    portint,     \* PortChangeInterruptEnable
    isr,         \* the handler
    halted,      \* the kernel has stopped: why
    bus          \* devices: [address, request, reports]
vars == <<attached, script, step, devices, td, qh, links, heads, frames, pollers,
          async, interrupted, queue, inserted, preinserted, usbint, portint, isr,
          halted, bus>>

Ports == 0..(NPorts - 1)
Connected == {p \in Ports : attached[p].on}
Null == <<"null">>
Stop == <<"terminate">>
ControlTd(p, i) == <<"control", p, i % NQtds>>
PollTd(p, i) == <<"poll", p, i>>
ControlQh(p) == <<"control", p>>
PollQh(p) == <<"poll", p>>
IsPoll(x) == x[1] = "poll"
Idle == "idle"

-----------------------------------------------------------------------------
(* create_ehci, then the class driver of a keyboard.  A device that is      *)
(* detached when a phase comes to it is left out of the phase.              *)
ForEach(ops) == FlattenSeq([p \in 1..NPorts |-> [i \in DOMAIN ops |-> <<ops[i], p - 1>>]])
Script ==
    FlattenSeq([p \in 1..NPorts |-> <<<<"attach", p - 1>>, <<"set_address", p - 1>>>>])
    \o <<<<"ports", 0>>>>
    \o ForEach(<<"device">>)
    \o ForEach(<<"config9", "set_configuration", "config">>)
    \o <<<<"update", 0>>>>
    \o ForEach(<<"set_protocol", "poller">>)
Booted == script = <<>>
Op == Head(script)[1]
Port == Head(script)[2]
Reads == {"device", "config9", "config"}
Requests == Reads \cup {"set_address", "set_configuration", "set_protocol"}
Running == ~Booted /\ isr = Idle /\ halted = ""
At(op) == Running /\ Op = op /\ step = "fill"
PhaseLength == CASE Op \in {"attach", "set_protocol"} -> 2
                 [] Op = "config9" -> 3
                 [] OTHER -> 1
Detached(p) == devices[p].state = "detached"

Init ==
    /\ attached \in [Ports ->
            {[speed |-> "none", endpoints |-> 0, interval |-> 0, on |-> FALSE],
             [speed |-> "low", endpoints |-> 1, interval |-> 0, on |-> TRUE]}
            \cup [speed : {"high"}, endpoints : 1..MaxEndpoints,
                  interval : Intervals \cup {0}, on : {TRUE}]]
    /\ Cardinality({p \in Ports : attached[p].speed = "high"}) <= MaxHigh
    /\ script = Script /\ step = "fill"
    /\ devices = [p \in Ports |-> [state |-> "detached", address |-> 0, setup |-> 0]]
    /\ td = <<>> /\ qh = <<>>
    /\ links = [i \in 0..(ListLength - 1) |-> (i + 1) % ListLength]
    /\ heads = <<>>
    /\ frames = [i \in 0..(FrameCount - 1) |-> -1]
    /\ pollers = <<>>
    /\ async = [enable |-> FALSE, status |-> FALSE]
    /\ interrupted = FALSE /\ queue = <<>> /\ inserted = 0 /\ preinserted = 0
    /\ usbint = {} /\ portint = FALSE /\ isr = Idle /\ halted = ""
    /\ bus = [p \in Ports |-> [address |-> -1, request |-> "none", reports |-> 0]]

With(f, x, v) == [y \in DOMAIN f \cup {x} |-> IF y = x THEN v ELSE f[y]]

-----------------------------------------------------------------------------
(* untraited_work0.                                                         *)
Addressed == {p \in Ports : devices[p].state = "address"}

(* A second device's QH goes between the last and the first one; the two    *)
(* loops that look for them count upwards, from i - 1 to 0 and below i - 1. *)
FirstOf(i) == {p \in Addressed : p < i - 1}
LastOf(i) == {p \in Addressed : i - 1 <= p /\ p <= 0}
Joins(i) == Addressed = {} \/ (FirstOf(i) # {} /\ LastOf(i) # {})

SkipAttach ==
    /\ At("attach") /\ attached[Port].speed # "high"
    /\ script' = Tail(Tail(script))
    /\ UNCHANGED <<attached, step, devices, td, qh, links, heads, frames, pollers, async,
                   interrupted, queue, inserted, preinserted, usbint, portint, isr,
                   halted, bus>>

Attach ==
    /\ At("attach") /\ attached[Port].speed = "high"
    /\ IF Joins(Port)
       THEN /\ devices' = [devices EXCEPT ![Port].state = "reset"]
            /\ qh' = With(qh, ControlQh(Port), [next |-> Stop, current |-> Null])
            /\ bus' = [bus EXCEPT ![Port].address = 0]
            /\ async' = [async EXCEPT !.enable = TRUE]
            /\ heads' = With(heads, Cardinality(Addressed), ControlQh(Port))
            /\ links' = [links EXCEPT ![Cardinality(Addressed)] = 0]
            /\ script' = Tail(script)
            /\ UNCHANGED halted
       ELSE /\ halted' = "assertion"
            /\ UNCHANGED <<devices, qh, bus, async, heads, links, script>>
    /\ UNCHANGED <<attached, step, td, frames, pollers, interrupted, queue, inserted,
                   preinserted, usbint, portint, isr>>

EnablePortChange ==
    /\ At("ports")
    /\ portint' = TRUE /\ script' = Tail(script)
    /\ UNCHANGED <<attached, step, devices, td, qh, links, heads, frames, pollers, async,
                   interrupted, queue, inserted, preinserted, usbint, isr, halted, bus>>

(* A detached device takes no part in gather_device_information, in         *)
(* configure_devices and with the class driver; only a keyboard is polled.  *)
Skips ==
    /\ Op \in {"device", "config9", "set_protocol"}
    /\ \/ Detached(Port)
       \/ Op = "set_protocol" /\ attached[Port].interval = 0
Skip ==
    /\ Running /\ step = "fill" /\ Skips
    /\ script' = SubSeq(script, PhaseLength + 1, Len(script))
    /\ UNCHANGED <<attached, step, devices, td, qh, links, heads, frames, pollers, async,
                   interrupted, queue, inserted, preinserted, usbint, portint, isr,
                   halted, bus>>

-----------------------------------------------------------------------------
(* control_without_data and control_with_data.                              *)
LastTd == IF Op \in Reads THEN 2 ELSE 1
Chain(p) ==
    LET s == devices[p].setup
    IN  [t \in {ControlTd(p, s + i) : i \in 0..LastTd} |->
            LET i == CHOOSE j \in 0..LastTd : t = ControlTd(p, s + j)
            IN  [active |-> TRUE, offset |-> 0, ioc |-> i = LastTd,
                 next |-> IF i = LastTd THEN Stop ELSE ControlTd(p, s + i + 1)]]
AdvanceSetupQtd(p) == (devices[p].setup + LastTd + 1) % NQtds

Fill ==
    /\ Running /\ Op \in Requests /\ step = "fill" /\ ~Skips
    /\ \E c \in {Chain(Port)} :
           td' = [t \in DOMAIN td \cup DOMAIN c |->
                    IF t \in DOMAIN c THEN c[t] ELSE td[t]]
    /\ step' = "link"
    /\ UNCHANGED <<attached, script, devices, qh, links, heads, frames, pollers, async,
                   interrupted, queue, inserted, preinserted, usbint, portint, isr,
                   halted, bus>>

(* The QH of the new list once update_async has run.                        *)
Link ==
    /\ Running /\ step = "link"
    /\ qh' = [qh EXCEPT ![ControlQh(Port)].next = ControlTd(Port, devices[Port].setup)]
    /\ step' = "count"
    /\ UNCHANGED <<attached, script, devices, td, links, heads, frames, pollers, async,
                   interrupted, queue, inserted, preinserted, usbint, portint, isr,
                   halted, bus>>

(* Queue::enqueue counts the entry, then writes it.                         *)
Count ==
    /\ Running /\ step = "count"
    /\ inserted' = inserted + 1 /\ queue' = Append(queue, Null)
    /\ step' = "store"
    /\ UNCHANGED <<attached, script, devices, td, qh, links, heads, frames, pollers, async,
                   interrupted, preinserted, usbint, portint, isr, halted, bus>>
Store ==
    /\ Running /\ step = "store"
    /\ queue' = IF queue = <<>> THEN queue
                ELSE [queue EXCEPT ![Len(queue)] = ControlQh(Port)]
    /\ step' = "check"
    /\ UNCHANGED <<attached, script, devices, td, qh, links, heads, frames, pollers, async,
                   interrupted, inserted, preinserted, usbint, portint, isr, halted,
                   bus>>

Check ==
    /\ Running /\ step = "check"
    /\ IF preinserted # 0
       THEN /\ preinserted' = preinserted - 1
            /\ inserted' = inserted - 1 /\ queue' = Tail(queue)
       ELSE UNCHANGED <<preinserted, inserted, queue>>
    /\ devices' = [devices EXCEPT ![Port].setup = AdvanceSetupQtd(Port)]
    /\ step' = "await"
    /\ UNCHANGED <<attached, script, td, qh, links, heads, frames, pollers, async,
                   interrupted, usbint, portint, isr, halted, bus>>

AwaitInterrupt ==
    /\ Running /\ step = "await" /\ interrupted
    /\ interrupted' = FALSE
    /\ devices' = IF Op = "set_address"
                  THEN [devices EXCEPT ![Port].address = Port + 1,
                                       ![Port].state = "address"]
                  ELSE devices
    /\ script' = Tail(script) /\ step' = "fill"
    /\ UNCHANGED <<attached, td, qh, links, heads, frames, pollers, async, queue, inserted,
                   preinserted, usbint, portint, isr, halted, bus>>

-----------------------------------------------------------------------------
(* untraited_work2, former update_async: the schedule is stopped, a new     *)
(* list made, and the schedule started.                                     *)
StopAsync ==
    /\ At("update")
    /\ async' = [async EXCEPT !.enable = FALSE]
    /\ step' = "stopping"
    /\ UNCHANGED <<attached, script, devices, td, qh, links, heads, frames, pollers,
                   interrupted, queue, inserted, preinserted, usbint, portint, isr,
                   halted, bus>>

Active == {p \in Ports : ~Detached(p)}
Endpoints ==
    FlattenSeq([i \in 1..NPorts |->
        IF i - 1 \in Active
        THEN [e \in 1..attached[i - 1].endpoints |-> <<"endpoint", i - 1, e>>]
        ELSE <<>>])
Owners ==
    [i \in 1..Cardinality(Active) |-> ControlQh(SetToSortSeq(Active, <)[i])]
    \o Endpoints
Close(l, last, first) == [l EXCEPT ![last] = first]

UpdateAsync ==
    /\ Running /\ step = "stopping" /\ ~async.status
    /\ IF Active = {}
       THEN /\ script' = Tail(script) /\ step' = "fill"
            /\ UNCHANGED <<heads, links, qh, async>>
       ELSE /\ \E owners \in {Owners} :
                  /\ heads' = [i \in 0..(Len(owners) - 1) |-> owners[i + 1]]
                  /\ links' = Close([i \in DOMAIN links |-> (i + 1) % ListLength],
                                    Len(owners) - 1, 0)
            /\ qh' = [q \in DOMAIN qh |-> [next |-> Stop, current |-> Null]]
            /\ async' = [async EXCEPT !.enable = TRUE]
            /\ step' = "starting" /\ UNCHANGED script
    /\ UNCHANGED <<attached, devices, td, frames, pollers, interrupted, queue, inserted,
                   preinserted, usbint, portint, isr, halted, bus>>

(* start_async waits while the status bit is set.                           *)
StartAsync ==
    /\ Running /\ step = "starting" /\ ~async.status
    /\ script' = Tail(script) /\ step' = "fill"
    /\ UNCHANGED <<attached, devices, td, qh, links, heads, frames, pollers, async,
                   interrupted, queue, inserted, preinserted, usbint, portint, isr,
                   halted, bus>>

\* Mutant: the last entry is left out.
EntriesShort(f) == {v \in 0..(FrameCount - 1) : v % f = 0 /\ FrameCount > v + f}
Entries(f) == {v \in 0..(FrameCount - 1) : v % f = 0 /\ FrameCount >= v + f}
InstallInterruptPoller ==
    /\ At("poller")
    /\ LET f == attached[Port].interval
           q == PollQh(Port)
       IN  /\ frames[f] = -1
           /\ td' = [t \in DOMAIN td \cup {PollTd(Port, 0), PollTd(Port, 1)} |->
                        IF t \in DOMAIN td THEN td[t]
                        ELSE [active |-> TRUE, next |-> Stop, ioc |-> TRUE, offset |-> 0]]
           /\ qh' = With(qh, q, [next |-> PollTd(Port, 0), current |-> Null])
           /\ frames' = [i \in DOMAIN frames |->
                            IF i \in Entries(f) THEN Port ELSE frames[i]]
    /\ pollers' = With(pollers, Port, 0)
    /\ script' = Tail(script)
    /\ UNCHANGED <<attached, step, devices, links, heads, async, interrupted, queue, inserted,
                   preinserted, usbint, portint, isr, halted, bus>>

-----------------------------------------------------------------------------
(* The controller and the devices, as the driver relies on them.            *)
Calm == Races \/ isr = Idle

(* The QHs it comes to: from the head along the links, ListLength of them.  *)
Circle ==
    LET r[k \in 0..ListLength] == IF k = 0 THEN 0 ELSE links[r[k - 1]]
    IN  [k \in 0..(ListLength - 1) |-> r[k]]
Reached == {Circle[k] : k \in 0..(ListLength - 1)}

HcAsync ==
    /\ async.status # async.enable
    /\ Races \/ step # "starting"
    /\ async' = [async EXCEPT !.status = async.enable]
    /\ UNCHANGED <<attached, script, step, devices, td, qh, links, heads, frames, pollers,
                   interrupted, queue, inserted, preinserted, usbint, portint, isr,
                   halted, bus>>

Done(q, t) ==
    /\ td' = [td EXCEPT ![t].active = FALSE,
                        ![t].offset = IF IsPoll(t) THEN @ + 1 ELSE @]
    /\ qh' = [qh EXCEPT ![q] = [next |-> td[t].next, current |-> t]]
    /\ usbint' = IF td[t].ioc THEN usbint \cup {"int"} ELSE usbint

Ready(q) == /\ q \in DOMAIN qh /\ qh[q].next \in DOMAIN td /\ td[qh[q].next].active

HcControl(p) ==
    /\ Calm /\ async.status /\ Ready(ControlQh(p)) /\ attached[p].on
    /\ \E i \in Reached : i \in DOMAIN heads /\ heads[i] = ControlQh(p)
    /\ Done(ControlQh(p), qh[ControlQh(p)].next)
    /\ bus' = [bus EXCEPT ![p] =
            IF td[qh[ControlQh(p)].next].ioc
            THEN [@ EXCEPT !.request = "none",
                           !.address = IF bus[p].address = 0 THEN p + 1
                                       ELSE bus[p].address]
            ELSE [@ EXCEPT !.request = Op]]
    /\ UNCHANGED <<attached, script, step, devices, links, heads, frames, pollers, async,
                   interrupted, queue, inserted, preinserted, portint, isr, halted>>

HcReport(p) ==
    /\ Calm /\ Ready(PollQh(p)) /\ attached[p].on /\ p \in Range(frames)
    /\ bus[p].reports < MaxReports
    /\ Done(PollQh(p), qh[PollQh(p)].next)
    /\ bus' = [bus EXCEPT ![p].reports = @ + 1]
    /\ UNCHANGED <<attached, script, step, devices, links, heads, frames, pollers, async,
                   interrupted, queue, inserted, preinserted, portint, isr, halted>>

(* A device that does not answer.                                           *)
HcError(p) ==
    /\ Calm /\ ~attached[p].on
    /\ \E q \in {ControlQh(p), PollQh(p)} : Ready(q)
    /\ usbint' = usbint \cup {"int", "error"}
    /\ UNCHANGED <<attached, script, step, devices, td, qh, links, heads, frames, pollers,
                   async, interrupted, queue, inserted, preinserted, portint, isr,
                   halted, bus>>

Unplug(p) ==
    /\ portint /\ attached[p].on /\ attached[p].speed = "high"
    /\ Cardinality({r \in Ports : attached[r].speed # "none" /\ ~attached[r].on})
            < MaxUnplugs
    /\ Races \/ (isr = Idle /\ usbint = {} /\ step = "fill")
    /\ attached' = [attached EXCEPT ![p].on = FALSE]
    /\ usbint' = usbint \cup {"port"}
    /\ UNCHANGED <<script, step, devices, td, qh, links, heads, frames, pollers, async,
                   interrupted, queue, inserted, preinserted, portint, isr, halted, bus>>

-----------------------------------------------------------------------------
(* ehci_interrupt: it knows three words of status and stops at any other.   *)
Delivered == /\ isr = Idle /\ halted = ""
             /\ \/ "int" \in usbint \/ "error" \in usbint
                \/ ("port" \in usbint /\ portint)
             /\ Races \/ step # "store"
Interrupt ==
    /\ Delivered
    /\ CASE usbint = {"int"} -> isr' = "scan" /\ UNCHANGED halted
         [] usbint = {"port"} -> isr' = "ports" /\ UNCHANGED halted
         [] OTHER -> halted' = "status" /\ UNCHANGED isr
    /\ UNCHANGED <<attached, script, step, devices, td, qh, links, heads, frames, pollers,
                   async, interrupted, queue, inserted, preinserted, usbint, portint,
                   bus>>

(* A poller whose current qTD is inactive has made a transaction.           *)
PollsDone == {p \in DOMAIN pollers :
              LET t == qh[PollQh(p)].current
              IN  t = Null \/ ~td[t].active}
Other(p) == (pollers[p] + 1) % 2

Refilled(t) == [td[t] EXCEPT !.offset = @ - 1]
\* Mutant: the next qTD is not made active.
RearmInactive(p) ==
    LET next == PollTd(p, Other(p))
        t == qh[PollQh(p)].current
    IN  /\ td' = IF t = Null THEN td ELSE [td EXCEPT ![t] = Refilled(t)]
        /\ qh' = [qh EXCEPT ![PollQh(p)].next = next]
        /\ pollers' = [pollers EXCEPT ![p] = Other(p)]
Rearm(p) ==
    LET next == PollTd(p, Other(p))
        t == qh[PollQh(p)].current
        refilled == IF t = Null THEN td ELSE [td EXCEPT ![t] = Refilled(t)]
    IN  /\ td' = [refilled EXCEPT ![next].active = TRUE]
        /\ qh' = [qh EXCEPT ![PollQh(p)].next = next]
        /\ pollers' = [pollers EXCEPT ![p] = Other(p)]

(* The loop over the pollers; one of them is what the model needs.          *)
HandlePoll ==
    /\ isr = "scan" /\ PollsDone # {}
    /\ Rearm(Min(PollsDone))
    /\ isr' = "clear"
    /\ UNCHANGED <<attached, script, step, devices, links, heads, frames, async, interrupted,
                   queue, inserted, preinserted, usbint, portint, halted, bus>>

HandleControl ==
    /\ isr = "scan" /\ PollsDone = {}
    /\ interrupted' = TRUE
    /\ IF inserted = 0
       THEN /\ preinserted' = preinserted + 1
            /\ UNCHANGED <<inserted, queue, qh>>
       ELSE /\ inserted' = inserted - 1 /\ queue' = Tail(queue)
            /\ qh' = [q \in DOMAIN qh |->
                        IF q = Head(queue) THEN [qh[q] EXCEPT !.next = Stop] ELSE qh[q]]
            /\ UNCHANGED preinserted
    /\ isr' = "clear"
    /\ UNCHANGED <<attached, script, step, devices, td, links, heads, frames, pollers, async,
                   usbint, portint, halted, bus>>

HandlePorts ==
    /\ isr = "ports"
    /\ devices' = [p \in Ports |->
                    IF attached[p].speed # "none" /\ ~attached[p].on
                    THEN [devices[p] EXCEPT !.state = "detached"] ELSE devices[p]]
    /\ usbint' = usbint \ {"port"} /\ isr' = Idle
    /\ UNCHANGED <<attached, script, step, td, qh, links, heads, frames, pollers, async,
                   interrupted, queue, inserted, preinserted, portint, halted, bus>>

ClearUsbInt ==
    /\ isr = "clear"
    /\ usbint' = usbint \ {"int"} /\ isr' = Idle
    /\ UNCHANGED <<attached, script, step, devices, td, qh, links, heads, frames, pollers,
                   async, interrupted, queue, inserted, preinserted, portint, halted,
                   bus>>

Boot == \/ SkipAttach \/ Attach \/ EnablePortChange \/ Skip \/ Fill \/ Link \/ Count
        \/ Store \/ Check \/ AwaitInterrupt \/ StopAsync \/ UpdateAsync \/ StartAsync
        \/ InstallInterruptPoller
Hc == HcAsync \/ \E p \in Ports : HcControl(p) \/ HcReport(p) \/ HcError(p)
Isr == Interrupt \/ HandlePoll \/ HandleControl \/ HandlePorts \/ ClearUsbInt
Next == Boot \/ Hc \/ Isr \/ \E p \in Ports : Unplug(p)

(* The boot core runs until it waits, the controller goes through its       *)
(* schedules, an interrupt is delivered and its handler ends.               *)
Spec == Init /\ [][Next]_vars /\ WF_vars(Boot) /\ WF_vars(Hc) /\ WF_vars(Isr)

-----------------------------------------------------------------------------
(* endpoint_interrupted says that the request in progress has been answered:*)
(* the flag is one for all devices and says nothing of whose transfer it    *)
(* was.                                                                     *)
SignalIsOwn ==
    interrupted =>
        /\ ~Booted /\ Op \in Requests /\ step \in {"count", "store", "check", "await"}
        /\ bus[Port].request = "none" /\ ~Ready(ControlQh(Port))

(* The handler disables the QH of the transfer that has finished, and an    *)
(* answer that came early is answered for exactly once.                     *)
AnswersBalanced ==
    /\ Len(queue) <= 1 /\ preinserted <= 1 /\ inserted = Len(queue)
    /\ (isr = "scan" /\ PollsDone = {} /\ queue # <<>>) =>
           Head(queue) = ControlQh(Port) /\ ~Ready(ControlQh(Port))
    /\ (step = "fill" /\ isr = Idle) => queue = <<>> /\ preinserted = 0

(* The new list is one circle through every QH that was filled and through  *)
(* no other.                                                                *)
RingExact ==
    (async.enable /\ step \in {"starting", "fill"} /\ heads # <<>>) =>
        \A reached \in {Reached} :
            /\ reached = DOMAIN heads
            /\ \A i, j \in reached : i # j => links[i] # links[j]

(* A poller is met once in every interval, also where the list begins anew. *)
IntervalKept ==
    \A p \in DOMAIN pollers :
        LET f == attached[p].interval
        IN  \A i \in 0..(FrameCount - 1) :
                \E j \in i..(i + f - 1) : frames[j % FrameCount] = p

(* A report goes to the buffer the class driver gave, every time.           *)
ReportInPlace ==
    \A t \in DOMAIN td : (IsPoll(t) /\ td[t].active) => td[t].offset = 0

(* The kernel stops only for a device that was used after it was gone.      *)
OnlyErrorsHalt ==
    halted # "" =>
        \E p \in Ports : ~attached[p].on /\ (Ready(ControlQh(p)) \/ Ready(PollQh(p)))

(* "assert_ne!(first_endpoint_queue_head_address, 0)": a further device     *)
(* finds the ones before it.                                                *)
AssertionsHold == halted # "assertion"

(* The boot sequence ends.                                                  *)
BootOver == Booted \/ halted # ""
BootEnds == <>BootOver

(* After a poll the keyboard is polled again.                               *)
PollOver(p) == p \in DOMAIN pollers /\ ~Ready(PollQh(p))
PollArmed(p) == Ready(PollQh(p)) \/ halted # ""
PollsRearmed == \A p \in Ports : PollOver(p) ~> PollArmed(p)
=============================================================================
