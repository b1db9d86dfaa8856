-------------------------- MODULE UsbConfiguration --------------------------
(***************************************************************************)
(* From the configuration descriptors of the USB devices to the running    *)
(* keyboard.  Each controller's configure_devices parses the descriptors   *)
(* of its devices one behind the other into three pools that all of them   *)
(* share (PageAllocators of interfaces and endpoints, an array of HID      *)
(* records); find_hid_device looks through the controllers for a keyboard; *)
(* Keyboard::new_usb checks the boot protocol and installs the poller.     *)
(* The transfers that fetch the descriptors are in Uhci, Ohci, Ehci, Xhci. *)
(*                                                                         *)
(* A descriptor is [type, len, body]; the parser moves by bytes, so a      *)
(* wrong step lands where no descriptor starts.                            *)
(***************************************************************************)
EXTENDS Integers, Sequences, FiniteSets, SequencesExt

CONSTANTS
  Devices,      \* the devices somebody plugs in, [class, interfaces]
  NPorts,       \* ports of each controller
  MaxDevices,   \* devices plugged in at all
  MaxHids       \* length of a controller's array of HID records

VARIABLES
  ports,        \* what is plugged in, by controller and port
  phase,        \* "configure", "search", "start", "running", "halted"
  turn,         \* the controller and slot being configured
  cursor,       \* offset of the parser, and the interfaces it has read
  interfaces, endpoints,  \* the pools, by controller
  hids, hidBase,          \* the HID arrays and current_hid_index
  config,       \* the configuration of each slot, as slices of the pools
  found,        \* the result of find_hid_device
  polled        \* what the keyboard's poller polls

vars == <<ports, phase, turn, cursor, interfaces, endpoints, hids, hidBase,
          config, found, polled>>

NoDevice == [class |-> -1, interfaces |-> <<>>]

\* The order of Usb::new, and the order of find_hid_device.
Creation == <<"OHC", "UHC", "EHC", "XHC">>
Searched == <<"XHC", "EHC", "OHC", "UHC">>
Kinds == ToSet(Creation)

\* The xHCI driver lists the devices it has addressed; the others have one
\* slot for every port.
Slots(kind) ==
  IF kind = "XHC" THEN SelectSeq(ports[kind], LAMBDA d : d /= NoDevice) ELSE ports[kind]

Active(kind) == Cardinality({p \in DOMAIN ports[kind] : ports[kind][p] /= NoDevice})

-----------------------------------------------------------------------------
(***************************************************************************)
(* The bytes a device sends behind its configuration descriptor.           *)
(***************************************************************************)
Nothing == [type |-> "none", len |-> 0, body |-> <<0, 0, 0, 0>>]

EndpointData(e) ==
  <<[type |-> "endpoint", len |-> 7, body |-> <<e.address, e.interval>>]>>
    \o (IF e.burst = 0 THEN <<>>
        ELSE <<[type |-> "companion", len |-> 6, body |-> <<e.burst>>]>>)

InterfaceData(f) ==
  <<[type |-> "interface", len |-> 9,
     body |-> <<f.class, f.sub, f.protocol, Len(f.endpoints)>>]>>
    \o (CASE f.special = "none" -> <<>>
          [] f.special = "hid" -> <<[type |-> "hid", len |-> 9, body |-> <<f.report>>]>>
          [] OTHER -> <<[type |-> f.special, len |-> 10, body |-> <<0>>]>>)
    \o FlattenSeq([i \in DOMAIN f.endpoints |-> EndpointData(f.endpoints[i])])

Data(device) ==
  FlattenSeq([i \in DOMAIN device.interfaces |-> InterfaceData(device.interfaces[i])])

OffsetOf(data, i) == FoldLeft(LAMBDA sum, d : sum + d.len, 0, SubSeq(data, 1, i - 1))

\* What a read at an offset finds; the page behind the data is zeroed.
At(data, offset) ==
  IF \E i \in DOMAIN data : OffsetOf(data, i) = offset
  THEN data[CHOOSE i \in DOMAIN data : OffsetOf(data, i) = offset]
  ELSE Nothing

-----------------------------------------------------------------------------
(***************************************************************************)
(* XxxDeviceConfiguration::new: one interface and its endpoints.           *)
(***************************************************************************)
SpecialShort(kind, peeked) == \* mutant: a HID descriptor taken for 7 bytes
  CASE peeked.type = "endpoint" -> 0
    [] peeked.type = "hid" -> 7
    [] kind = "XHC" /\ peeked.type = "capability" -> peeked.len
    [] OTHER -> -1

\* handle_special_descriptor: bytes to skip, -1 where it panics.
Special(kind, peeked) ==
  CASE peeked.type = "endpoint" -> 0
    [] peeked.type = "hid" -> 9
    [] kind = "XHC" /\ peeked.type = "capability" -> peeked.len
    [] OTHER -> -1

\* The loop over b_num_endpoints: the records, and the offset behind them.
ReadEndpoints(kind, data, offset, n) ==
  FoldLeft(LAMBDA acc, i :
             LET e == At(data, acc.offset)
                 c == At(data, acc.offset + 7)
                 companion == kind = "XHC" /\ c.type = "companion" IN
             [offset |-> acc.offset + 7 + (IF companion THEN 6 ELSE 0),
              read   |-> Append(acc.read,
                           [address |-> e.body[1], interval |-> e.body[2],
                            burst |-> IF companion THEN c.body[1] ELSE 0])],
           [offset |-> offset, read |-> <<>>],
           [i \in 1..n |-> i])

\* The ports that are used, and what is plugged into them.
Placements ==
  {used \in SUBSET (Kinds \X (1..NPorts)) : Cardinality(used) <= MaxDevices}

Plugged(used, plug) ==
  [k \in Kinds |->
     [i \in 1..(IF \E x \in used : x[1] = k
                THEN Max({x[2] : x \in {y \in used : y[1] = k}}) ELSE 0) |->
        IF <<k, i>> \in used THEN plug[<<k, i>>] ELSE NoDevice]]

Init ==
  /\ \E used \in Placements : \E plug \in [used -> Devices] : ports = Plugged(used, plug)
  /\ phase = "configure"
  /\ turn = [kind |-> 1, slot |-> 1]
  /\ cursor = [offset |-> 0, read |-> 0]
  /\ interfaces = [k \in Kinds |-> <<>>]
  /\ endpoints = [k \in Kinds |-> <<>>]
  /\ hids = [k \in Kinds |-> [i \in 1..MaxHids |-> [report |-> 0, interface |-> 0]]]
  /\ hidBase = [k \in Kinds |-> 0]
  /\ config = [k \in Kinds |-> <<>>]
  /\ found = [kind |-> "none", slot |-> 0]
  /\ polled = [kind |-> "none", slot |-> 0, endpoint |-> 0, report |-> 0]

Kind == Creation[turn.kind]
Configuring == phase = "configure" /\ turn.kind <= 4
Here == Slots(Kind)[turn.slot]

\* An empty slot keeps an empty configuration.
NextSlot ==
  /\ turn' = [turn EXCEPT !.slot = @ + 1]
  /\ cursor' = [offset |-> 0, read |-> 0]

SkipEmpty ==
  /\ Configuring /\ turn.slot <= Len(Slots(Kind)) /\ Here = NoDevice
  /\ config' = [config EXCEPT ![Kind] = Append(@, [interfaces |-> <<0, 0>>, hids |-> <<0, 0>>])]
  /\ NextSlot
  /\ UNCHANGED <<ports, phase, interfaces, endpoints, hids, hidBase, found, polled>>

\* The first read of a device sets up empty slices at the end of the pools.
Begin ==
  /\ Configuring /\ turn.slot <= Len(Slots(Kind)) /\ Here /= NoDevice
  /\ Len(config[Kind]) < turn.slot
  /\ config' = [config EXCEPT ![Kind] =
       Append(@, [interfaces |-> <<Len(interfaces[Kind]), Len(Here.interfaces)>>,
                  hids       |-> <<hidBase[Kind], 0>>])]
  /\ UNCHANGED <<ports, phase, turn, cursor, interfaces, endpoints, hids, hidBase, found, polled>>

Reading ==
  /\ Configuring /\ turn.slot <= Len(Slots(Kind)) /\ Here /= NoDevice
  /\ Len(config[Kind]) = turn.slot
  /\ cursor.read < Len(Here.interfaces)

ReadInterface ==
  /\ Reading
  /\ \E data \in {Data(Here)} :
       LET f == At(data, cursor.offset)
           peeked == At(data, cursor.offset + 9)
           skip == Special(Kind, peeked)
           c == config[Kind][turn.slot]
           eps == ReadEndpoints(Kind, data, cursor.offset + 9 + skip, f.body[4]) IN
       /\ skip >= 0
       /\ interfaces' = [interfaces EXCEPT ![Kind] =
            Append(@, [class |-> f.body[1], sub |-> f.body[2], protocol |-> f.body[3],
                       endpoints |-> <<Len(endpoints[Kind]), f.body[4]>>])]
       /\ endpoints' = [endpoints EXCEPT ![Kind] = @ \o eps.read]
       /\ cursor' = [offset |-> eps.offset, read |-> cursor.read + 1]
       /\ IF peeked.type = "hid"
          THEN /\ hids' = [hids EXCEPT ![Kind][c.hids[1] + c.hids[2] + 1] =
                             [report |-> peeked.body[1], interface |-> cursor.read]]
               /\ config' = [config EXCEPT ![Kind][turn.slot].hids[2] = @ + 1]
          ELSE UNCHANGED <<hids, config>>
  /\ UNCHANGED <<ports, phase, turn, hidBase, found, polled>>

\* "Unhandled b_descriptor_type".
Unhandled ==
  /\ Reading
  /\ \E data \in {Data(Here)} : Special(Kind, At(data, cursor.offset + 9)) < 0
  /\ phase' = "halted"
  /\ UNCHANGED <<ports, turn, cursor, interfaces, endpoints, hids, hidBase, config, found, polled>>

Advance == hidBase' = [hidBase EXCEPT ![Kind] = @ + config[Kind][turn.slot].hids[2]]

Finish ==
  /\ Configuring /\ turn.slot <= Len(Slots(Kind)) /\ Here /= NoDevice
  /\ Len(config[Kind]) = turn.slot /\ cursor.read = Len(Here.interfaces)
  /\ Advance
  /\ NextSlot
  /\ UNCHANGED <<ports, phase, interfaces, endpoints, hids, config, found, polled>>

NextController ==
  /\ Configuring /\ turn.slot > Len(Slots(Kind))
  /\ turn' = [kind |-> turn.kind + 1, slot |-> 1]
  /\ phase' = IF turn.kind = 4 THEN "search" ELSE phase
  /\ UNCHANGED <<ports, cursor, interfaces, endpoints, hids, hidBase, config, found, polled>>

-----------------------------------------------------------------------------
(***************************************************************************)
(* find_hid_device(Keyboard) and Keyboard::new_usb, on the boot processor. *)
(***************************************************************************)
FirstInterface(kind, slot) == interfaces[kind][config[kind][slot].interfaces[1] + 1]

IsKeyboard(kind, slot) ==
  /\ Slots(kind)[slot].class = 0
  /\ FirstInterface(kind, slot).class = 3
  /\ FirstInterface(kind, slot).protocol = 1

\* The search looks at as many slots as devices are active, and ends at the
\* first keyboard; get_interface(0).unwrap() ends it at an empty slot.
Stops(kind, slot) == Slots(kind)[slot] = NoDevice \/ IsKeyboard(kind, slot)

StopsAnywhere == \* mutant: the controllers are searched in the order of creation
  LET stops == {x \in (1..4) \X (1..NPorts) : x[2] <= Active(Creation[x[1]])
                                              /\ Stops(Creation[x[1]], x[2])} IN
  {[kind |-> Creation[x[1]], slot |-> x[2]] :
     x \in {y \in stops : \A z \in stops : y[1] < z[1] \/ (y[1] = z[1] /\ y[2] <= z[2])}}

FirstStop ==
  LET stops == {x \in (1..4) \X (1..NPorts) : x[2] <= Active(Searched[x[1]])
                                              /\ Stops(Searched[x[1]], x[2])} IN
  {[kind |-> Searched[x[1]], slot |-> x[2]] :
     x \in {y \in stops : \A z \in stops : y[1] < z[1] \/ (y[1] = z[1] /\ y[2] <= z[2])}}

FindHidDevice ==
  /\ phase = "search"
  /\ \E stop \in {FirstStop} :
       \* No keyboard: "Unimplemented Check for PS2 Keyboard".
       IF stop = {} \/ \E s \in stop : \/ Slots(s.kind)[s.slot] = NoDevice
                                       \/ config[s.kind][s.slot].hids[2] = 0
       THEN phase' = "halted" /\ UNCHANGED found
       ELSE phase' = "start" /\ found' \in stop
  /\ UNCHANGED <<ports, turn, cursor, interfaces, endpoints, hids, hidBase, config, polled>>

NewUsb ==
  /\ phase = "start"
  /\ LET f == FirstInterface(found.kind, found.slot)
         c == config[found.kind][found.slot] IN
     IF f.sub /= 1 \/ f.endpoints[2] = 0
     THEN phase' = "halted" /\ UNCHANGED polled
     ELSE /\ phase' = "running"
          /\ polled' = [kind |-> found.kind, slot |-> found.slot,
                        endpoint |-> f.endpoints[1] + 1,
                        report |-> hids[found.kind][c.hids[1] + 1].report]
  /\ UNCHANGED <<ports, turn, cursor, interfaces, endpoints, hids, hidBase, config, found>>

Next ==
  \/ SkipEmpty \/ Begin \/ ReadInterface \/ Unhandled \/ Finish \/ NextController
  \/ FindHidDevice \/ NewUsb

Spec == Init /\ [][Next]_vars

-----------------------------------------------------------------------------
Configured(kind, slot) ==
  \/ phase \notin {"configure", "halted"}
  \/ \E n \in 1..4 : Creation[n] = kind /\ (turn.kind > n \/ (turn.kind = n /\ turn.slot > slot))

\* A configuration, read through its slices as the drivers read it.
ParsedInterfaces(kind, slot) ==
  LET c == config[kind][slot].interfaces IN
  [i \in 1..c[2] |->
     LET f == interfaces[kind][c[1] + i] IN
     [class |-> f.class, sub |-> f.sub, protocol |-> f.protocol,
      endpoints |-> SubSeq(endpoints[kind], f.endpoints[1] + 1, f.endpoints[1] + f.endpoints[2])]]

ParsedHids(kind, slot) ==
  LET c == config[kind][slot].hids IN [i \in 1..c[2] |-> hids[kind][c[1] + i]]

(* XxxDeviceConfiguration::new: whatever was parsed before and after it, the
   configuration of every configured device reads as its own interfaces,
   each with its own endpoints, and its own HID records. *)
ParsedExact ==
  \A kind \in Kinds : \A slot \in DOMAIN Slots(kind) :
    \E device \in {Slots(kind)[slot]} :
      (device /= NoDevice /\ Configured(kind, slot)) =>
        /\ ParsedInterfaces(kind, slot) =
             [i \in DOMAIN device.interfaces |->
                LET f == device.interfaces[i] IN
                [class |-> f.class, sub |-> f.sub, protocol |-> f.protocol,
                 endpoints |-> f.endpoints]]
        /\ ToSet(ParsedHids(kind, slot)) =
             {[report |-> device.interfaces[i].report, interface |-> i - 1] :
                i \in {j \in DOMAIN device.interfaces : device.interfaces[j].special = "hid"}}

BootKeyboard(d) ==
  /\ d.class = 0
  /\ d.interfaces[1].class = 3 /\ d.interfaces[1].protocol = 1
  /\ d.interfaces[1].special = "hid"

(* find_hid_device and new_usb: with no port empty before one that is used (the
   search takes the number of active devices for a bound of the slots), and
   every plugged device one the drivers can read, the system halts only where
   no device is a keyboard in its first interface, and the poller it installs
   is for the first endpoint of the first such device in the order xHCI, EHCI,
   OHCI, UHCI, with the report descriptor of that interface. *)
KeyboardStarted ==
  LET keyboards == {x \in (1..4) \X (1..NPorts) :
        x[2] \in DOMAIN Slots(Searched[x[1]]) /\ BootKeyboard(Slots(Searched[x[1]])[x[2]])}
      readable == \A kind \in Kinds : \A p \in DOMAIN ports[kind] :
        \A i \in DOMAIN ports[kind][p].interfaces :
          \/ ports[kind][p].interfaces[i].special \in {"none", "hid"}
          \/ kind = "XHC" /\ ports[kind][p].interfaces[i].special = "capability" IN
  (\A kind \in Kinds : NoDevice \notin ToSet(ports[kind])) =>
  /\ (phase = "halted" /\ readable) => keyboards = {}
  /\ phase = "running" =>
       \E x \in keyboards :
         /\ \A y \in keyboards : x[1] < y[1] \/ (x[1] = y[1] /\ x[2] <= y[2])
         /\ polled.kind = Searched[x[1]] /\ polled.slot = x[2]
         /\ \E f \in {Slots(polled.kind)[polled.slot].interfaces[1]} :
              /\ endpoints[polled.kind][polled.endpoint] = f.endpoints[1]
              /\ polled.report = f.report

=============================================================================
