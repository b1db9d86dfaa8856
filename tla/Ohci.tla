-------------------------------- MODULE Ohci --------------------------------
(***************************************************************************)
(* The OHCI driver: boot sequence, control transfers, the interrupt tree,  *)
(* the handler of the done queue and the interrupt pollers, next to the    *)
(* controller and the devices on the bus.                                  *)
(*                                                                         *)
(* An endpoint descriptor (ED) is worked on while its K bit is clear and   *)
(* its head differs from its tail.  The controller moves every finished    *)
(* transfer descriptor (TD) to its done queue and hands the queue over,    *)
(* newest TD first, when the driver has acknowledged the one before.  The  *)
(* handler does not look at the TDs: it walks the queue and takes the      *)
(* first device whose K bit is clear for the owner of two control TDs, and *)
(* every periodic ED at its tail for the owner of one interrupt TD.        *)
(***************************************************************************)
EXTENDS Integers, Sequences, FiniteSets, SequencesExt

CONSTANTS
    NPorts,       \* ports of the root hub
    Intervals,    \* b_interval of a keyboard's endpoint, a power of two
    MaxKeyboards, \* bound: keyboards among the devices
    MaxReports,   \* bound: reports a device sends
    Races         \* the controller visits an ED between two writes to it

VARIABLES
    attached,   \* per port: [on], and of a device [kind, interval]
    script,     \* what the boot core has left to do
    step,       \* where it is within a transfer
    devices,    \* OhciDevice: [address, signaled]
    td,         \* next of every TD while it is not done
    qh,         \* EDs: [k, head, tail], and the periodic ones' [f]
    links,      \* next_ed of the EDs of the interrupt tree
    heads,      \* ED of every port's periodic endpoint, in order of allocation
    pollers,    \* EDs with an installed poller
    filled,     \* ControlListFilled
    done,       \* the controller's done queue, newest first
    usbint,     \* Wdh: the done queue has been handed over
    isr,        \* the handler: idle, or walk with the rest of the queue
    bus         \* devices: [address, request, reports]
vars == <<attached, script, step, devices, td, qh, links, heads, pollers, filled,
          done, usbint, isr, bus>>

Ports == 1..NPorts
Connected == {p \in Ports : attached[p].on}
Keyboards == {p \in Connected : attached[p].kind = "keyboard"}
Null == <<"null">>
Processed(n) == <<"processed", n>>
Idle == <<"idle">>

-----------------------------------------------------------------------------
(* Two control TDs per port, one TD per periodic endpoint.  EDs: one per    *)
(* port in the control list; the periodic ones are numbered as in the array *)
(* of the interrupt list: five connectors, the 32 EDs of the HCCA, and what *)
(* install adds.                                                            *)
SetupTd(p) == <<"setup", p>>
StatusTd(p) == <<"status", p>>
PollTd(e) == <<"poll", e>>
ControlEd(p) == <<"control", p>>
Periodic(e) == <<"periodic", e>>
LastEd == 36 + NPorts
HccaEd(i) == 5 + i
Con(e) == e \in 0..4
ControlTds == {SetupTd(p) : p \in Ports} \cup {StatusTd(p) : p \in Ports}
IsControl(t) == t[1] \in {"setup", "status"}
EmptyEd == [k |-> FALSE, f |-> FALSE, head |-> Null, tail |-> Null]
With(f, x, v) == [y \in DOMAIN f \cup {x} |-> IF y = x THEN v ELSE f[y]]

-----------------------------------------------------------------------------
(* OhciHccaInterruptList::initialize: the tree.  -1 is the end of a list.   *)
InitialNext(e) ==
    CASE e = 0 -> -1
      [] e \in 1..4 -> e - 1
      [] e \in 5..36 ->
           LET i == e - 5
           IN  CASE i % 2 = 1 -> 0
                 [] i % 4 = 2 -> 1
                 [] i % 8 = 4 -> 2
                 [] i % 16 = 8 -> 3
                 [] OTHER -> 4
      [] OTHER -> -1
Log2(n) == CHOOSE l \in 0..7 : 2 ^ l = n

(* The EDs behind e, up to n of them: what the controller visits.           *)
Reach(next, e) ==
    LET r[k \in 0..(6 + NPorts)] ==
            IF k = 0 THEN e ELSE IF r[k - 1] = -1 THEN -1 ELSE next[r[k - 1]]
    IN  r

Isochronous(e) == Periodic(e) \in DOMAIN qh /\ qh[Periodic(e)].f

(* install walks behind a connector (or the first HCCA ED) to the end of    *)
(* its segment; an interrupt ED stops in front of the isochronous ones.     *)
StopsBehind(next, e, f) ==
    \/ next[e] = -1
    \/ Con(next[e])
    \/ ~f /\ Isochronous(next[e])
AppendEd(next, e, f) ==
    LET r == Reach(next, e)
        k == CHOOSE i \in DOMAIN r :
                /\ StopsBehind(next, r[i], f)
                /\ \A j \in 0..(i - 1) : ~StopsBehind(next, r[j], f)
    IN  r[k]
(* The ED install takes for the interval: a free HCCA ED for 32 ms, a new   *)
(* one otherwise, and where it is hung in.                                  *)
FreeHcca == {i \in 0..31 : Periodic(HccaEd(i)) \notin DOMAIN qh}
Installed(interval) ==
    IF interval = 32 /\ FreeHcca # {}
    THEN HccaEd(CHOOSE i \in FreeHcca : \A j \in FreeHcca : i <= j)
    ELSE 37 + Cardinality({p \in DOMAIN heads : heads[p] > 36})
\* Mutant: one level too deep.
AnchorOff(interval) == IF interval = 32 THEN HccaEd(0) ELSE Log2(interval) + 1
Anchor(interval) == IF interval = 32 THEN HccaEd(0) ELSE Log2(interval)
Hung(next, e, interval, f) ==
    IF e \in 5..36 THEN next
    ELSE LET at == AppendEd(next, Anchor(interval), f)
         IN  [next EXCEPT ![e] = next[at], ![at] = e]

-----------------------------------------------------------------------------
(* The script of the boot core: untraited_work0, gather_device_information, *)
(* configure_devices, untraited_work2, then the class driver.               *)
ForEach(ports, ops) ==
    FlattenSeq([p \in Ports |->
        IF p \in ports THEN [i \in DOMAIN ops |-> <<ops[i], p>>] ELSE <<>>])
Script ==
    FlattenSeq([p \in Ports |->
        IF p \in Connected THEN <<<<"attach", p>>, <<"set_address", p>>>>
        ELSE <<<<"detach", p>>>>])
    \o ForEach(Connected, <<"device8", "device18">>)
    \o ForEach(Connected, <<"config9", "set_configuration", "config">>)
    \o ForEach(Connected, <<"endpoint">>)
    \o ForEach(Keyboards, <<"set_protocol", "poller">>)
Booted == script = <<>>
Op == Head(script)[1]
Port == Head(script)[2]
Requests == {"set_address", "device8", "device18", "config9",
             "set_configuration", "config", "set_protocol"}
Running == ~Booted /\ isr = Idle
At(op) == Running /\ Op = op /\ step = "fill"

Init ==
    /\ attached \in [Ports -> {[on |-> FALSE]}
                              \cup [on : {TRUE}, kind : {"keyboard", "other"},
                                    interval : Intervals]
                              \cup [on : {TRUE}, kind : {"audio"},
                                    interval : {1}]]
    /\ Cardinality(Keyboards) <= MaxKeyboards
    /\ script = Script /\ step = "fill"
    /\ devices = [p \in Ports |-> [address |-> 0, signaled |-> FALSE]]
    /\ td = [t \in ControlTds |-> Null]
    /\ qh = [q \in {ControlEd(p) : p \in Ports} |-> EmptyEd]
    /\ links = [e \in 0..LastEd |-> InitialNext(e)]
    /\ heads = <<>>
    /\ pollers = {}
    /\ filled = FALSE /\ done = <<>> /\ usbint = FALSE /\ isr = Idle
    /\ bus = [p \in Ports |-> [address |-> -1, request |-> "none", reports |-> 0]]

-----------------------------------------------------------------------------
(* untraited_work0.  The new ED is not skipped, but has nothing to do; the  *)
(* ED of the port before is.  An empty port's ED is skipped.                *)
Attach ==
    /\ At("attach")
    /\ qh' = [q \in DOMAIN qh |->
                CASE q = ControlEd(Port) -> EmptyEd
                  [] Port > 1 /\ q = ControlEd(Port - 1) -> [qh[q] EXCEPT !.k = TRUE]
                  [] OTHER -> qh[q]]
    /\ bus' = [bus EXCEPT ![Port].address = 0]
    /\ script' = Tail(script)
    /\ UNCHANGED <<attached, step, devices, td, links, heads, pollers, filled,
                   done, usbint, isr>>

Detach ==
    /\ At("detach")
    /\ qh' = [qh EXCEPT ![ControlEd(Port)] = [EmptyEd EXCEPT !.k = TRUE]]
    /\ script' = Tail(script)
    /\ UNCHANGED <<attached, step, devices, td, links, heads, pollers, filled,
                   done, usbint, isr, bus>>

\* Mutant: one TD too many is skipped.
TailMarkOff == Processed(3)
TailMark == Processed(2)

(* send_setup_status: the TDs, then head, tail and K of the ED; then        *)
(* send_for_processing sets the fill bit of the control list.               *)
Fill ==
    /\ Running /\ Op \in Requests /\ step = "fill"
    /\ td' = [td EXCEPT ![SetupTd(Port)] = StatusTd(Port),
                        ![StatusTd(Port)] = TailMark]
    /\ step' = "head"
    /\ UNCHANGED <<attached, script, devices, qh, links, heads, pollers, filled,
                   done, usbint, isr, bus>>

SendHead ==
    /\ Running /\ step = "head"
    /\ qh' = [qh EXCEPT ![ControlEd(Port)].head = SetupTd(Port)]
    /\ step' = "tail"
    /\ UNCHANGED <<attached, script, devices, td, links, heads, pollers, filled,
                   done, usbint, isr, bus>>

SendTail ==
    /\ Running /\ step = "tail"
    /\ qh' = [qh EXCEPT ![ControlEd(Port)].tail = TailMark]
    /\ step' = "unskip"
    /\ UNCHANGED <<attached, script, devices, td, links, heads, pollers, filled,
                   done, usbint, isr, bus>>

Unskip ==
    /\ Running /\ step = "unskip"
    /\ qh' = [qh EXCEPT ![ControlEd(Port)].k = FALSE]
    /\ step' = "process"
    /\ UNCHANGED <<attached, script, devices, td, links, heads, pollers, filled,
                   done, usbint, isr, bus>>

\* Mutant: the fill bit is not set.
SendUnfilled ==
    /\ Running /\ step = "process"
    /\ step' = "await"
    /\ UNCHANGED <<attached, script, devices, td, qh, links, heads, pollers, filled,
                   done, usbint, isr, bus>>
SendForProcessing ==
    /\ Running /\ step = "process"
    /\ filled' = TRUE
    /\ step' = "await"
    /\ UNCHANGED <<attached, script, devices, td, qh, links, heads, pollers, done,
                   usbint, isr, bus>>

AwaitInterrupt ==
    /\ Running /\ step = "await" /\ devices[Port].signaled
    /\ devices' = [devices EXCEPT
            ![Port].signaled = FALSE,
            ![Port].address = IF Op = "set_address"
                              THEN Cardinality({p \in Connected : p <= Port})
                              ELSE @]
    /\ script' = Tail(script) /\ step' = "fill"
    /\ UNCHANGED <<attached, td, qh, links, heads, pollers, filled, done, usbint,
                   isr, bus>>

(* untraited_work2: an isochronous endpoint goes to the 1 ms segment, an    *)
(* interrupt endpoint to the segment of its interval; both stay skipped.    *)
AcquireEndpoint ==
    /\ At("endpoint")
    /\ LET a == attached[Port]
           f == a.kind = "audio"
           e == Installed(a.interval)
       IN  /\ links' = Hung(links, e, a.interval, f)
           /\ qh' = With(qh, Periodic(e), [EmptyEd EXCEPT !.k = TRUE, !.f = f])
           /\ heads' = With(heads, Port, e)
    /\ script' = Tail(script)
    /\ UNCHANGED <<attached, step, devices, td, pollers, filled, done, usbint, isr,
                   bus>>

InstallInterruptPoller ==
    /\ At("poller")
    /\ LET e == heads[Port]
       IN  /\ td' = With(td, PollTd(e), Processed(e))
           /\ qh' = [qh EXCEPT ![Periodic(e)] =
                        [@ EXCEPT !.head = PollTd(e), !.tail = Processed(e),
                                  !.k = FALSE]]
           /\ pollers' = pollers \cup {e}
    /\ script' = Tail(script)
    /\ UNCHANGED <<attached, step, devices, links, heads, filled, done, usbint,
                   isr, bus>>

-----------------------------------------------------------------------------
(* The controller and the devices, as the driver relies on them.            *)
HasWork(q) == ~qh[q].k /\ qh[q].head # qh[q].tail
HcAtRest == Races \/ step # "tail"

(* It goes through the control list while the fill bit is set, ...          *)
HcControl(p) ==
    /\ HcAtRest /\ filled /\ HasWork(ControlEd(p)) /\ qh[ControlEd(p)].head \in DOMAIN td
    /\ LET t == qh[ControlEd(p)].head
       IN  /\ qh' = [qh EXCEPT ![ControlEd(p)].head = td[t]]
           /\ done' = <<t>> \o done
           /\ bus' = [bus EXCEPT ![p] =
                IF t[1] = "setup" THEN [@ EXCEPT !.request = Op]
                ELSE [@ EXCEPT !.request = "none",
                               !.address = IF @ = 0 THEN p ELSE @]]
    /\ UNCHANGED <<attached, script, step, devices, td, links, heads, pollers,
                   filled, usbint, isr>>

(* ... and clears the bit when it has found no work.                        *)
HcControlEnd ==
    /\ filled /\ \A p \in Ports : ~HasWork(ControlEd(p))
    /\ filled' = FALSE
    /\ UNCHANGED <<attached, script, step, devices, td, qh, links, heads, pollers,
                   done, usbint, isr, bus>>

HcReport(p) ==
    /\ p \in DOMAIN heads /\ HasWork(Periodic(heads[p]))
    /\ bus[p].reports < MaxReports
    /\ LET q == Periodic(heads[p])
       IN  /\ qh[q].head \in DOMAIN td
           /\ qh' = [qh EXCEPT ![q].head = td[qh[q].head]]
           /\ done' = <<qh[q].head>> \o done
    /\ bus' = [bus EXCEPT ![p].reports = @ + 1]
    /\ UNCHANGED <<attached, script, step, devices, td, links, heads, pollers,
                   filled, usbint, isr>>

(* The setup TD asks for no interrupt (Di = 7): alone it is not handed over. *)
HcDone ==
    /\ ~usbint /\ \E i \in DOMAIN done : done[i][1] # "setup"
    /\ usbint' = TRUE
    /\ isr' = <<"pending", done>> /\ done' = <<>>
    /\ UNCHANGED <<attached, script, step, devices, td, qh, links, heads, pollers,
                   filled, bus>>

-----------------------------------------------------------------------------
(* ohci_interrupt.                                                          *)
Interrupt ==
    /\ isr[1] = "pending"
    /\ isr' = <<"walk", isr[2]>>
    /\ UNCHANGED <<attached, script, step, devices, td, qh, links, heads, pollers,
                   filled, done, usbint, bus>>

Advance(rest, n) == IF n > Len(rest) THEN <<Null>> ELSE SubSeq(rest, n + 1, Len(rest))
Marked(tail) == IF tail = Null THEN 0 ELSE tail[2]
Unskipped == {p \in Ports : ~qh[ControlEd(p)].k /\ qh[ControlEd(p)] # EmptyEd}
Finished == {e \in {heads[p] : p \in DOMAIN heads} :
                LET q == qh[Periodic(e)]
                IN  ~q.f /\ q.head = q.tail /\ q.tail # Null}

HandleControl ==
    /\ isr[1] = "walk" /\ isr[2] # <<>> /\ IsControl(isr[2][1])
    /\ Unskipped # {}
    /\ LET p == CHOOSE r \in Unskipped : \A s \in Unskipped : r <= s
       IN  /\ qh' = [qh EXCEPT ![ControlEd(p)].k = TRUE]
           /\ devices' = [devices EXCEPT ![p].signaled = TRUE]
           /\ isr' = <<"walk", Advance(isr[2], Marked(qh[ControlEd(p)].tail))>>
    /\ UNCHANGED <<attached, script, step, td, links, heads, pollers, filled, done,
                   usbint, bus>>

(* The TD that has been processed is the ED's head again.                   *)
Rearm(e) == [qh[Periodic(e)] EXCEPT !.head = PollTd(e)]

HandleInterrupt ==
    /\ isr[1] = "walk" /\ isr[2] # <<>> /\ isr[2][1][1] = "poll"
    /\ Finished # {}
    /\ qh' = [q \in DOMAIN qh |->
                IF q[1] = "periodic" /\ q[2] \in Finished THEN Rearm(q[2])
                ELSE qh[q]]
    /\ td' = [t \in DOMAIN td |->
                IF t[1] = "poll" /\ t[2] \in Finished THEN Processed(t[2]) ELSE td[t]]
    /\ isr' = <<"walk", Advance(isr[2], Cardinality(Finished))>>
    /\ UNCHANGED <<attached, script, step, devices, links, heads, pollers, filled,
                   done, usbint, bus>>

ClearWdh ==
    /\ isr = <<"walk", <<>>>>
    /\ usbint' = FALSE /\ isr' = Idle
    /\ UNCHANGED <<attached, script, step, devices, td, qh, links, heads, pollers,
                   filled, done, bus>>

Boot == \/ Attach \/ Detach \/ Fill \/ SendHead \/ SendTail \/ Unskip
        \/ SendForProcessing \/ AwaitInterrupt \/ AcquireEndpoint
        \/ InstallInterruptPoller
Hc == (\E p \in Ports : HcControl(p) \/ HcReport(p)) \/ HcControlEnd \/ HcDone
Isr == Interrupt \/ HandleControl \/ HandleInterrupt \/ ClearWdh
Next == Boot \/ Hc \/ Isr

(* The boot core runs until it waits, the controller goes through its lists *)
(* frame by frame, an interrupt is delivered and its handler ends.          *)
Spec == Init /\ [][Next]_vars /\ WF_vars(Boot) /\ WF_vars(Hc) /\ WF_vars(Isr)

-----------------------------------------------------------------------------
(* A device is signalled only while its own request is waited for and after *)
(* the device has answered it; the handler finds it by the K bit alone.     *)
SignalIsOwn ==
    \A p \in Ports :
        devices[p].signaled => /\ step \in {"unskip", "process", "await"}
                               /\ Port = p /\ bus[p].request = "none"

(* The handler never reads behind the end of the done queue, and the        *)
(* controller never takes a tail mark for a TD.                             *)
NoRunaway ==
    /\ isr[1] = "walk" => Null \notin Range(isr[2])
    /\ HcAtRest => \A q \in DOMAIN qh : HasWork(q) => qh[q].head \in DOMAIN td

(* The handler does not spin: a TD it finds always has an owner.            *)
HandlerNeverStuck ==
    (isr[1] = "walk" /\ isr[2] # <<>>) =>
        IF IsControl(isr[2][1]) THEN Unskipped # {} ELSE Finished # {}

(* Every installed endpoint is visited at least once in its interval, and   *)
(* the lists of the tree end, whenever install has changed the tree.        *)
Visited(e) == LET r == Reach(links, e) IN {r[k] : k \in DOMAIN r}
Meets(visits) ==
    /\ \A i \in 0..31 : -1 \in visits[i]
    /\ \A p \in DOMAIN heads :
        LET n == IF attached[p].interval > 32 THEN 32 ELSE attached[p].interval
        IN  \A i \in 0..(32 - n) : \E j \in i..(i + n - 1) : heads[p] \in visits[j]
EveryInterval == \A v \in {[i \in 0..31 |-> Visited(HccaEd(i))]} : Meets(v)
ChangeKeeps == links' # links => EveryInterval'
IntervalKept == [][ChangeKeeps]_vars

(* Within a frame interrupt EDs of a segment come before its isochronous    *)
(* ones.                                                                    *)
InterruptsFirst ==
    \A e \in 0..LastEd :
        (links[e] # -1 /\ ~Con(e) /\ ~Con(links[e]) /\ Isochronous(e))
            => Isochronous(links[e])

(* The boot sequence ends: no await_interrupt waits forever.                *)
BootEnds == <>Booted

(* A finished poll is armed again.                                          *)
Due(p) == p \in DOMAIN heads /\ heads[p] \in Finished
PollsRearmed == \A p \in Ports : Due(p) ~> ~Due(p)
=============================================================================
