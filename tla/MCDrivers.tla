------------------------------ MODULE MCDrivers ------------------------------
(***************************************************************************)
(* Five parts of the drivers that share no state, for TLC: the NVMe queues *)
(* (the variables of Nvme), the register accessors, the parsing of USB     *)
(* configurations with the search for a keyboard, the keyboard itself, and *)
(* the reading of a file from the disk.  A behaviour is one of the part    *)
(* that is chosen first; the others do not move.                           *)
(***************************************************************************)
EXTENDS MCNvme

CONSTANTS Devices, NPorts, MaxDevices, MaxHids, Keys, MaxKeys,
  Direct, Indirect, PerPage, PerList, DiskBlocks, Bulks, Files

VARIABLES
  which,
  reg, word, call,                                           \* of Registers
  ports, phase, turn, cursor, interfaces, endpoints, hids, hidBase, config,
  found, polled,                                             \* of UsbConfiguration
  buffer, pending, last, modifiers, pressed, translated, numPressed, uppercase,
                                                             \* of Keyboard
  file, bulk, walk, transfer, command, contents, doing       \* of FileRead

R == INSTANCE Registers
C == INSTANCE UsbConfiguration
K == INSTANCE Keyboard
F == INSTANCE FileRead

ASSUME DriversAssumption == F!FileAssumption

\* Usage codes of keys; 0 to 3 report none or an error.
ASSUME KeysAssumption == Keys \subseteq 4..255

In(i) == [address |-> 129, interval |-> i, burst |-> 0]

Interface(c, s, p, special, report, list) ==
  [class |-> c, sub |-> s, protocol |-> p, special |-> special, report |-> report,
   endpoints |-> list]

BootKeyboard == Interface(3, 1, 1, "hid", 63, <<In(10)>>)
BootMouse == Interface(3, 1, 2, "hid", 52, <<In(4)>>)
Disk == Interface(8, 6, 80, "none", 0, <<In(0), [In(0) EXCEPT !.address = 2]>>)
FastDisk == Interface(8, 6, 80, "capability", 0,
                      <<[In(0) EXCEPT !.burst = 15], [In(1) EXCEPT !.burst = 7]>>)

\* A keyboard, a mouse, a keyboard with a mouse built in, a disk, a hub.
MCDevices ==
  {[class |-> 0, interfaces |-> <<BootKeyboard>>],
   [class |-> 0, interfaces |-> <<BootMouse>>],
   [class |-> 0,
    interfaces |-> <<[BootKeyboard EXCEPT !.report = 65, !.endpoints = <<In(8)>>],
                     [BootMouse EXCEPT !.endpoints = <<In(4), In(2)>>]>>],
   [class |-> 0, interfaces |-> <<FastDisk, [Disk EXCEPT !.endpoints[1].burst = 3]>>],
   [class |-> 9, interfaces |-> <<Interface(9, 0, 0, "none", 0, <<In(12)>>)>>]}

\* Files of two runs of blocks: the second goes on from the first (g = 16), lies
\* behind it or before it.
MCFiles ==
  {[i \in 1..f.n |-> IF i <= f.a THEN 16 + i ELSE f.g + i] :
     f \in {f \in [n : 1..16, a : 1..15, g : {0, 16, 18}] : f.a <= f.n}}

rVars == <<reg, word, call>>
cVars == <<ports, phase, turn, cursor, interfaces, endpoints, hids, hidBase, config,
           found, polled>>
kVars == <<buffer, pending, last, modifiers, pressed, translated, numPressed, uppercase>>
fVars == <<file, bulk, walk, transfer, command, contents, doing>>

NoRegisters == reg = "none" /\ word = "none" /\ call = "none"
NoConfiguration ==
  /\ ports = "none" /\ phase = "none" /\ turn = "none" /\ cursor = "none"
  /\ interfaces = "none" /\ endpoints = "none" /\ hids = "none" /\ hidBase = "none"
  /\ config = "none" /\ found = "none" /\ polled = "none"
NoKeyboard ==
  /\ buffer = "none" /\ pending = "none" /\ last = "none" /\ modifiers = "none"
  /\ pressed = "none" /\ translated = "none" /\ numPressed = "none" /\ uppercase = "none"

NoFile ==
  /\ file = "none" /\ bulk = "none" /\ walk = "none" /\ transfer = "none"
  /\ command = "none" /\ contents = "none" /\ doing = "none"

InitDrivers ==
  /\ Init
  /\ \/ which = "nvme" /\ NoRegisters /\ NoConfiguration /\ NoKeyboard /\ NoFile
     \/ which = "registers" /\ R!Init /\ NoConfiguration /\ NoKeyboard /\ NoFile
     \/ which = "configuration" /\ NoRegisters /\ C!Init /\ NoKeyboard /\ NoFile
     \/ which = "keyboard" /\ NoRegisters /\ NoConfiguration /\ K!Init /\ NoFile
     \/ which = "file" /\ NoRegisters /\ NoConfiguration /\ NoKeyboard /\ F!Init

NextDrivers ==
  /\ UNCHANGED which
  /\ \/ which = "nvme" /\ Next /\ UNCHANGED <<rVars, cVars, kVars, fVars>>
     \/ which = "registers" /\ R!Next /\ UNCHANGED <<vars, cVars, kVars, fVars>>
     \/ which = "configuration" /\ C!Next /\ UNCHANGED <<vars, rVars, kVars, fVars>>
     \/ which = "keyboard" /\ K!Next /\ UNCHANGED <<vars, rVars, cVars, fVars>>
     \/ which = "file" /\ F!Next /\ UNCHANGED <<vars, rVars, cVars, kVars>>

\* The fairness of Nvme; the other parts have none.
NvmeFairness ==
  /\ WF_vars(which = "nvme" /\ Device) /\ WF_vars(which = "nvme" /\ Irq)
  /\ \A c \in Cores : WF_vars(which = "nvme" /\ Goes(c))

SpecDrivers == InitDrivers /\ [][NextDrivers]_<<which, vars, rVars, cVars, kVars, fVars>> /\ NvmeFairness

(* A setter changes the field of its name and no other (the set_ and clear_ methods
   of the register files): the accessors of a register, and the registers of a
   device, are about different bits, but for the known overlaps. *)
RegisterSettersExact == which = "registers" => R!SetExact /\ R!FieldsApart

(* A read-modify-write does not acknowledge an event raised in between. *)
RegisterLateEventKept == which = "registers" => R!LateEventKept

(* XxxDeviceConfiguration::new gives every device the interfaces, endpoints and
   HID records of its own descriptors. *)
ConfigurationParsedExact == which = "configuration" => C!ParsedExact

(* Keyboard::new_usb finds a keyboard if there is one and polls the right
   endpoint. *)
ConfigurationKeyboardStarted == which = "configuration" => C!KeyboardStarted

(* usb_report, which works on differences, leaves exactly the reported keys
   pressed and their characters to be read; the two tables of choose_keyboard
   agree, so that the key of a character is reported as pressed. *)
KeyboardReportExact ==
  which = "keyboard" => K!PressedExact /\ K!TranslatedExact /\ K!TablesAgree

(* GfsFile::read puts the first run of a file's blocks where it belongs, whatever
   transfers read_into_buffer cuts it into, and no transfer reaches behind the
   buffer of the file. *)
FileReadExact == which = "file" => F!FirstRunExact /\ F!TransfersInside

(* construct_prp lists the pages of a transfer, each once and in their order. *)
NvmePrpExact == which = "file" => F!PrpExact
=============================================================================
