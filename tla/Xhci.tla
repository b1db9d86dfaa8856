-------------------------------- MODULE Xhci --------------------------------
(***************************************************************************)
(* The xHCI driver (drivers/usb/xhci) from the port reset to the polling   *)
(* of a keyboard: the thread that enumerates, its interrupt handler, the   *)
(* event ring, the rings of the interrupt endpoints, and the controller.   *)
(*                                                                         *)
(* The thread waits for commands with one flag, got_events, which any      *)
(* event sets, and for control transfers with a flag per device.  The      *)
(* controller is external: it executes commands in order, transfers in any *)
(* order, and posts an event for each.                                     *)
(***************************************************************************)
EXTENDS Integers, Sequences, FiniteSets, SequencesExt

CONSTANTS
  NumDevices,   \* every port has a device; numbered as they are enumerated
  Polled,       \* devices that get an interrupt poller
  RingSize,     \* TRBs of the event ring (512)
  PollTrbs      \* TRBs of an interrupt endpoint's ring before its link (7)

Devices == 1 .. NumDevices

ASSUME XhciAssumption ==
    /\ NumDevices \in Nat /\ Polled \subseteq Devices
    /\ RingSize \in Nat /\ RingSize > 1
    /\ PollTrbs \in Nat /\ PollTrbs > 0

VARIABLES
  drv,       \* the thread and its handler: pc, callback, got_events, ...
  dev,       \* what the driver keeps of each device
  ring,      \* the event ring: events and their cycle bits
  hc,        \* the controller
  poll,      \* rings of the interrupt endpoints
  pending,   \* history: events posted and not handled
  quiet,     \* no port reports a change but for its reset
  panic      \* why the kernel stopped, or "none"

vars == <<drv, dev, ring, hc, poll, pending, quiet, panic>>

(***************************************************************************)
(* What the thread does for one device after the other.                    *)
(***************************************************************************)
ForEach(list, ops) ==
    [k \in 1 .. Len(list) * Len(ops) |->
       [op |-> ops[1 + ((k - 1) % Len(ops))], dev |-> list[1 + (k - 1) \div Len(ops)]]]

AllDevices == [i \in Devices |-> i]

(* untraited_work0, gather_device_information, configure_devices (two      *)
(* descriptors and SET_CONFIGURATION), Keyboard::new_usb (SET_PROTOCOL)    *)
(* with install_interrupt_poller.                                          *)
Script ==
    ForEach(AllDevices, << "reset", "isReset", "wait", "enableSlot", "wait",
                           "slotEnabled", "addressDevice", "wait", "addressed" >>)
    \o ForEach(AllDevices, << "control", "await", "evaluate", "wait", "control", "await" >>)
    \o ForEach(AllDevices, << "control", "await", "control", "await", "control", "await" >>)
    \o ForEach(SetToSeq(Polled), << "control", "await", "configure", "wait", "open" >>)

(* id: the slot, or the endpoint of a poller, which is known by its device. *)
NoEvent == [type |-> "none", id |-> 0]

PortEvent == [type |-> "port", id |-> 0]

Init ==
    /\ drv = [pc |-> 1, callback |-> "none", slot_index |-> 0, got_events |-> FALSE,
              isr |-> FALSE, dequeue |-> 0, css |-> TRUE]
    /\ dev = [d \in Devices |->
                [slot |-> 0, address |-> "none", signaled |-> FALSE, open |-> FALSE,
                 a_line |-> "none"]]
    /\ ring = [i \in 0 .. RingSize - 1 |-> [event |-> NoEvent, cycle |-> FALSE]]
    /\ quiet \in BOOLEAN
    /\ hc = [enqueue |-> 0, cycle |-> TRUE, erdp |-> 0, commands |-> <<>>,
             resetting |-> 0, connects |-> IF quiet THEN {} ELSE Devices,
             owner |-> <<>>, addressed |-> {}, transfers |-> {}, configured |-> {}]
    /\ poll = [d \in Polled |->
                 [trb |-> [i \in 0 .. PollTrbs - 1 |-> TRUE], link |-> TRUE,
                  enqueue |-> 0, at |-> 0, ccs |-> TRUE]]
    /\ pending = <<>>
    /\ panic = "none"
-----------------------------------------------------------------------------
(***************************************************************************)
(* The thread.  It does not run inside the interrupt handler.              *)
(***************************************************************************)
At(op) ==
    /\ panic = "none" /\ ~drv.isr
    /\ drv.pc \in DOMAIN Script /\ Script[drv.pc].op = op

D == Script[drv.pc].dev

(* A callback stays installed over what command_ring.process does. *)
Issue(type, d) ==
    hc' = [hc EXCEPT !.commands = Append(@, [type |-> type, dev |-> d, slot |-> dev[d].slot])]

ResetPort ==
    /\ At("reset")
    /\ hc' = [hc EXCEPT !.resetting = D]
    /\ drv' = [drv EXCEPT !.pc = @ + 1]
    /\ UNCHANGED <<dev, ring, poll, pending, quiet, panic>>

IsReset ==
    /\ At("isReset") /\ hc.resetting = 0
    /\ drv' = [drv EXCEPT !.pc = @ + 1]
    /\ UNCHANGED <<dev, ring, hc, poll, pending, quiet, panic>>

(* Mutant: the flag stays set. *)
WakesSticky ==
    /\ At("wait") /\ drv.got_events
    /\ drv' = [drv EXCEPT !.pc = @ + 1]
    /\ UNCHANGED <<dev, ring, hc, poll, pending, quiet, panic>>

(* wait_for_events: some event came since the flag was cleared last. *)
Wakes ==
    /\ At("wait") /\ drv.got_events
    /\ drv' = [drv EXCEPT !.pc = @ + 1, !.got_events = FALSE]
    /\ UNCHANGED <<dev, ring, hc, poll, pending, quiet, panic>>

(* No event for 20 sleeps of 10 ms. *)
TimesOut ==
    /\ At("wait") /\ ~drv.got_events
    /\ panic' = "timeout"
    /\ UNCHANGED <<drv, dev, ring, hc, poll, pending, quiet>>

EnableSlot ==
    /\ At("enableSlot")
    /\ Issue("EnableSlot", D)
    /\ drv' = [drv EXCEPT !.pc = @ + 1, !.callback = "enable", !.slot_index = 0]
    /\ UNCHANGED <<dev, ring, poll, pending, quiet, panic>>

(* The device context goes to the slot the callback wrote down. *)
SlotEnabled ==
    /\ At("slotEnabled")
    /\ drv' = [drv EXCEPT !.pc = @ + 1, !.callback = "none"]
    /\ dev' = [dev EXCEPT ![D].slot = drv.slot_index]
    /\ UNCHANGED <<ring, hc, poll, pending, quiet, panic>>

AddressDevice ==
    /\ At("addressDevice")
    /\ Issue("AddressDevice", D)
    /\ dev' = [dev EXCEPT ![D].a_line = "address"]
    /\ drv' = [drv EXCEPT !.pc = @ + 1, !.callback = "address"]
    /\ UNCHANGED <<ring, poll, pending, quiet, panic>>

(* set_address reads the address out of the device context. *)
Addressed ==
    /\ At("addressed")
    /\ drv' = [drv EXCEPT !.pc = @ + 1, !.callback = "none"]
    /\ dev' = [dev EXCEPT ![D].address =
                 IF dev[D].slot \in hc.addressed THEN "assigned" ELSE "garbage"]
    /\ UNCHANGED <<ring, hc, poll, pending, quiet, panic>>

(* send_control_read, send_control_no_data; doorbell 0 starts no transfer. *)
SendControl ==
    /\ At("control")
    /\ hc' = [hc EXCEPT !.transfers = @ \cup ({dev[D].slot} \ {0})]
    /\ drv' = [drv EXCEPT !.pc = @ + 1]
    /\ UNCHANGED <<dev, ring, poll, pending, quiet, panic>>

AwaitInterrupt ==
    /\ At("await") /\ dev[D].signaled
    /\ dev' = [dev EXCEPT ![D].signaled = FALSE]
    /\ drv' = [drv EXCEPT !.pc = @ + 1]
    /\ UNCHANGED <<ring, hc, poll, pending, quiet, panic>>

EvaluateContext ==
    /\ At("evaluate")
    /\ Issue("EvaluateContext", D)
    /\ dev' = [dev EXCEPT ![D].a_line = "control"]
    /\ drv' = [drv EXCEPT !.pc = @ + 1]
    /\ UNCHANGED <<ring, poll, pending, quiet, panic>>

ConfigureEndpoint ==
    /\ At("configure")
    /\ Issue("ConfigureEndpoint", D)
    /\ dev' = [dev EXCEPT ![D].a_line = "poll"]
    /\ drv' = [drv EXCEPT !.pc = @ + 1]
    /\ UNCHANGED <<ring, poll, pending, quiet, panic>>

OpenEndpoint ==
    /\ At("open")
    /\ dev' = [dev EXCEPT ![D].a_line = "none", ![D].open = TRUE]
    /\ drv' = [drv EXCEPT !.pc = @ + 1]
    /\ UNCHANGED <<ring, hc, poll, pending, quiet, panic>>

Thread ==
    \/ ResetPort \/ IsReset \/ Wakes
    \/ EnableSlot \/ SlotEnabled \/ AddressDevice \/ Addressed
    \/ SendControl \/ AwaitInterrupt \/ EvaluateContext
    \/ ConfigureEndpoint \/ OpenEndpoint
-----------------------------------------------------------------------------
(***************************************************************************)
(* xhci_interrupt0: consume_events, one event per step.                    *)
(***************************************************************************)
HasEvent == ring[drv.dequeue].cycle = drv.css

Event == ring[drv.dequeue].event

Interrupt ==
    /\ panic = "none" /\ ~drv.isr /\ HasEvent
    /\ drv' = [drv EXCEPT !.isr = TRUE]
    /\ UNCHANGED <<dev, ring, hc, poll, pending, quiet, panic>>

Advanced(r) ==
    IF r.dequeue + 1 = RingSize
      THEN [r EXCEPT !.got_events = TRUE, !.dequeue = 0, !.css = ~@]
      ELSE [r EXCEPT !.got_events = TRUE, !.dequeue = @ + 1]

Handling(type) == panic = "none" /\ drv.isr /\ HasEvent /\ Event.type = type

(* A port change or a completion goes to the callback, if there is one,    *)
(* which takes nothing but a completion.                                   *)
HandleCallback ==
    /\ Handling("port") \/ Handling("command")
    /\ IF drv.callback # "none" /\ Event.type = "port"
         THEN panic' = "invalidEvent" /\ UNCHANGED drv
         ELSE /\ drv' = IF drv.callback = "enable"
                          THEN Advanced([drv EXCEPT !.slot_index = Event.id])
                          ELSE Advanced(drv)
              /\ UNCHANGED panic
    /\ pending' = Tail(pending)
    /\ UNCHANGED <<dev, ring, hc, poll, quiet>>

(* The first device with the slot is signalled. *)
HandleControl ==
    /\ Handling("control")
    /\ dev' = [d \in Devices |->
                 IF dev[d].slot = Event.id /\ \A e \in 1 .. d - 1 : dev[e].slot # Event.id
                   THEN [dev[d] EXCEPT !.signaled = TRUE] ELSE dev[d]]
    /\ drv' = Advanced(drv)
    /\ pending' = Tail(pending)
    /\ UNCHANGED <<ring, hc, poll, quiet, panic>>

(* Mutant: the link's cycle bit is left alone. *)
GivenBackNoLink(p) ==
    [p EXCEPT !.trb[p.enqueue] = ~@,
              !.enqueue = IF @ = PollTrbs - 1 THEN 0 ELSE @ + 1]

(* The TRB is given back for the next round, the link with the last one. *)
GivenBack(p) ==
    IF p.enqueue = PollTrbs - 1
      THEN [p EXCEPT !.trb[p.enqueue] = ~@, !.enqueue = 0, !.link = ~@]
      ELSE [p EXCEPT !.trb[p.enqueue] = ~@, !.enqueue = @ + 1]

(* The endpoint is looked up by its number alone; the model gives every    *)
(* polled device another one.                                              *)
HandlePoll ==
    /\ Handling("poll")
    /\ IF dev[Event.id].open
         THEN /\ poll' = [poll EXCEPT ![Event.id] = GivenBack(@)]
              /\ drv' = Advanced(drv)
              /\ UNCHANGED panic
         ELSE /\ panic' = "endpointState"
              /\ UNCHANGED <<poll, drv>>
    /\ pending' = Tail(pending)
    /\ UNCHANGED <<dev, ring, hc, quiet>>

(* The end of consume_events tells the controller how far it came. *)
InterruptEnds ==
    /\ panic = "none" /\ drv.isr /\ ~HasEvent
    /\ hc' = [hc EXCEPT !.erdp = drv.dequeue]
    /\ drv' = [drv EXCEPT !.isr = FALSE]
    /\ UNCHANGED <<dev, ring, poll, pending, quiet, panic>>

Handler ==
    Interrupt \/ HandleCallback \/ HandleControl \/ HandlePoll \/ InterruptEnds
-----------------------------------------------------------------------------
(***************************************************************************)
(* The controller.                                                         *)
(***************************************************************************)
CanPost == (hc.enqueue + 1) % RingSize # hc.erdp

(* The event goes behind the last one; h is the controller otherwise. *)
Post(e, h) ==
    /\ ring' = [ring EXCEPT ![hc.enqueue] = [event |-> e, cycle |-> hc.cycle]]
    /\ hc' = IF hc.enqueue + 1 = RingSize
               THEN [h EXCEPT !.enqueue = 0, !.cycle = ~@]
               ELSE [h EXCEPT !.enqueue = @ + 1]
    /\ pending' = Append(pending, e)

PortReset ==
    /\ CanPost /\ hc.resetting # 0
    /\ Post(PortEvent, [hc EXCEPT !.resetting = 0])
    /\ UNCHANGED <<drv, dev, poll, quiet, panic>>

PortConnects ==
    /\ CanPost
    /\ \E p \in hc.connects : Post(PortEvent, [hc EXCEPT !.connects = @ \ {p}])
    /\ UNCHANGED <<drv, dev, poll, quiet, panic>>

(* The input context is read when the command is executed. *)
Executed(c, slot) ==
    LET h == [hc EXCEPT !.commands = Tail(@)]
    IN CASE c.type = "EnableSlot" -> [h EXCEPT !.owner = Append(@, c.dev)]
         [] c.type = "AddressDevice" -> [h EXCEPT !.addressed = @ \cup {slot}]
         [] c.type = "ConfigureEndpoint" /\ dev[c.dev].a_line = "poll" ->
              [h EXCEPT !.configured = @ \cup {c.dev}]
         [] OTHER -> h

ExecuteCommand ==
    /\ CanPost /\ hc.commands # <<>>
    /\ LET c == Head(hc.commands)
           slot == IF c.type = "EnableSlot" THEN Len(hc.owner) + 1 ELSE c.slot
       IN Post([type |-> "command", id |-> slot], Executed(c, slot))
    /\ UNCHANGED <<drv, dev, poll, quiet, panic>>

CompleteTransfer ==
    /\ CanPost
    /\ \E s \in hc.transfers :
         Post([type |-> "control", id |-> s], [hc EXCEPT !.transfers = @ \ {s}])
    /\ UNCHANGED <<drv, dev, poll, quiet, panic>>

(* A report: the next TRB is used, and the link followed behind the last. *)
Report ==
    /\ CanPost
    /\ \E d \in hc.configured :
         LET p == poll[d] IN
           /\ p.trb[p.at] = p.ccs
           /\ p.at = PollTrbs - 1 => p.link = p.ccs
           /\ poll' = [poll EXCEPT ![d].at = (@ + 1) % PollTrbs,
                                   ![d].ccs = IF p.at = PollTrbs - 1 THEN ~@ ELSE @]
           /\ Post([type |-> "poll", id |-> d], hc)
    /\ UNCHANGED <<drv, dev, quiet, panic>>

Controller == PortReset \/ PortConnects \/ ExecuteCommand \/ CompleteTransfer

Next == Thread \/ TimesOut \/ Handler \/ Controller \/ Report

(* The thread and the handler run on, the controller answers; a device     *)
(* need not have anything to report.                                       *)
Spec ==
    /\ Init /\ [][Next]_vars
    /\ WF_vars(Thread) /\ WF_vars(Handler)
    /\ WF_vars(PortReset) /\ WF_vars(ExecuteCommand) /\ WF_vars(CompleteTransfer)
-----------------------------------------------------------------------------
(* The event ring loses, repeats and reorders nothing: the driver finds an *)
(* event exactly when the controller posted one that is not handled, and   *)
(* it is the oldest of these (cycle bits in consume_events).               *)
EventsExact ==
    panic = "none" =>
      /\ HasEvent = (pending # <<>>)
      /\ HasEvent => Event = Head(pending)

(* await_interrupt returns only when the transfer it waits for is over:    *)
(* nobody reads a descriptor that is not there.  A port that reports a     *)
(* change of its own accord can give two devices one slot, see SlotsOwn.   *)
TransferAwaited ==
    quiet => \A d \in Devices :
      dev[d].signaled =>
        /\ dev[d].slot \notin hc.transfers
        /\ \A i \in DOMAIN pending :
             pending[i] # [type |-> "control", id |-> dev[d].slot]

(* A device is driven through the slot the controller enabled for it, and  *)
(* its address is read when there is one, if no port reports a change of   *)
(* its own accord.                                                         *)
SlotsOwn ==
    quiet => \A d \in Devices :
      /\ dev[d].slot # 0 =>
           dev[d].slot \in DOMAIN hc.owner /\ hc.owner[dev[d].slot] = d
      /\ dev[d].address # "garbage"

(* A TRB of an interrupt endpoint is the controller's, or its report waits *)
(* to be handled; the TRB given back next is that of the oldest report.    *)
PollRingExact ==
    \A d \in Polled :
      LET p == poll[d]
          waiting == Cardinality({i \in DOMAIN pending :
                       pending[i] = [type |-> "poll", id |-> d]})
          used == {(p.enqueue + i) % PollTrbs : i \in 0 .. waiting - 1}
          Owned(i) == p.trb[i] = (IF i >= p.at THEN p.ccs ELSE ~p.ccs)
      IN panic = "none" =>
           /\ waiting <= PollTrbs
           /\ \A i \in 0 .. PollTrbs - 1 : Owned(i) = (i \notin used)
           /\ (p.enqueue + waiting) % PollTrbs = p.at
           /\ (p.link = p.ccs) = (p.enqueue + waiting < PollTrbs)

(* The xHCI event ring and the rings of interrupt endpoints lose, repeat   *)
(* and reorder nothing, however often they wrap (consume_events,           *)
(* xhci_interrupt0).                                                       *)
XhciRingsExact == EventsExact /\ PollRingExact

(* Enumeration comes to an end, if no port reports a change of its own     *)
(* accord: a slot that was mixed up, or an event that is missed, would     *)
(* leave await_interrupt spinning.                                         *)
BootOver == drv.pc > Len(Script) \/ panic \in {"timeout", "endpointState"}
BootEnds == quiet ~> BootOver
=============================================================================
