------------------------------- MODULE MCUsb --------------------------------
(***************************************************************************)
(* The four USB host controller drivers for TLC.  A machine of this model  *)
(* has one controller, of a kind chosen once: Usb::new (drivers/usb/mod.rs)*)
(* builds a driver per controller, and these share no state.  The variables*)
(* of Xhci are its own; those the other three have in common hold the      *)
(* state of the chosen one, and the chosen one's actions are the steps.    *)
(***************************************************************************)
EXTENDS Xhci

CONSTANTS
  NPorts, Races,                      \* of all three
  MaxPackets, UEndpoints, ConfigLength, Frames, ControlInterval, NPages, UListLength,
  UMaxReports,
  OIntervals, MaxKeyboards, OMaxReports,
  EIntervals, EMaxReports, MaxHigh, MaxEndpoints, MaxUnplugs, NQtds, EListLength, FrameCount

ASSUME UsbAssumption == NPorts \in Nat \ {0} /\ NQtds \in Nat /\ NQtds > 2

\* Two kinds of keyboards for UHCI: polled in every frame with one TD, in
\* every other frame with two.
MCEndpoints == {[log |-> 0, tds |-> 1], [log |-> 1, tds |-> 2]}

VARIABLES
  which,     \* the kind of the controller
  attached, script, step, devices, td, qh, links, heads, pollers, usbint, isr, bus,
  indices, used, pages, buffer,                                     \* of Uhci
  filled, done,                                                     \* of Ohci
  frames, async, interrupted, queue, inserted, preinserted, portint, halted \* of Ehci

U == INSTANCE Uhci WITH Endpoints <- UEndpoints, ListLength <- UListLength, MaxReports <- UMaxReports
O == INSTANCE Ohci WITH Intervals <- OIntervals, MaxReports <- OMaxReports
E == INSTANCE Ehci WITH Intervals <- EIntervals, ListLength <- EListLength,
                     MaxReports <- EMaxReports

common == <<attached, script, step, devices, td, qh, links, heads, pollers, usbint, isr, bus>>
uhciVars == <<indices, used, pages, buffer>>
ohciVars == <<filled, done>>
ehciVars == <<frames, async, interrupted, queue, inserted, preinserted, portint, halted>>

uhciAll == <<common, uhciVars>>
ohciAll == <<common, ohciVars>>
ehciAll == <<common, ehciVars>>
allVars == <<which, common, uhciVars, ohciVars, ehciVars, vars>>

NoXhci == Init /\ quiet = TRUE
NoCommon == attached = "none" /\ script = "none" /\ step = "none" /\ devices = "none"
            /\ td = "none" /\ qh = "none" /\ links = "none" /\ heads = "none"
            /\ pollers = "none" /\ usbint = "none" /\ isr = "none" /\ bus = "none"
NoUhci == indices = "none" /\ used = "none" /\ pages = "none" /\ buffer = "none"
NoOhci == filled = "none" /\ done = "none"
NoEhci == frames = "none" /\ async = "none" /\ interrupted = "none" /\ queue = "none"
          /\ inserted = "none" /\ preinserted = "none" /\ portint = "none"
          /\ halted = "none"

InitUsb ==
  \/ which = "uhci" /\ U!Init /\ NoOhci /\ NoEhci /\ NoXhci
  \/ which = "ohci" /\ O!Init /\ NoUhci /\ NoEhci /\ NoXhci
  \/ which = "ehci" /\ E!Init /\ NoUhci /\ NoOhci /\ NoXhci
  \/ which = "xhci" /\ NoCommon /\ NoUhci /\ NoOhci /\ NoEhci /\ Init

NextUsb ==
  /\ UNCHANGED which
  /\ \/ which = "uhci" /\ U!Next /\ UNCHANGED <<ohciVars, ehciVars, vars>>
     \/ which = "ohci" /\ O!Next /\ UNCHANGED <<uhciVars, ehciVars, vars>>
     \/ which = "ehci" /\ E!Next /\ UNCHANGED <<uhciVars, ohciVars, vars>>
     \/ which = "xhci" /\ Next /\ UNCHANGED <<common, uhciVars, ohciVars, ehciVars>>

\* The fairness of the four specifications.
Usb_WF ==
  /\ WF_uhciAll(which = "uhci" /\ U!Boot)
  /\ WF_uhciAll(which = "uhci" /\ U!Hc)
  /\ WF_uhciAll(which = "uhci" /\ U!Isr)
  /\ WF_ohciAll(which = "ohci" /\ O!Boot)
  /\ WF_ohciAll(which = "ohci" /\ O!Hc)
  /\ WF_ohciAll(which = "ohci" /\ O!Isr)
  /\ WF_ehciAll(which = "ehci" /\ E!Boot)
  /\ WF_ehciAll(which = "ehci" /\ E!Hc)
  /\ WF_ehciAll(which = "ehci" /\ E!Isr)
  /\ WF_vars(which = "xhci" /\ Thread)
  /\ WF_vars(which = "xhci" /\ Handler)
  /\ WF_vars(which = "xhci" /\ PortReset)
  /\ WF_vars(which = "xhci" /\ ExecuteCommand)
  /\ WF_vars(which = "xhci" /\ CompleteTransfer)

SpecUsb == InitUsb /\ [][NextUsb]_allVars /\ Usb_WF

-----------------------------------------------------------------------------
(* A wait ends only when the request it is for was answered: the handlers of the
   four drivers find the device that waits by a slot, a bit or one flag for all
   (uhci_interrupt, with the empty ports last; ohci_interrupt by the K bit alone;
   await_interrupt of ehci; xhci_interrupt0). *)
UsbSignalIsOwn ==
  /\ which = "uhci" => U!SignalIsOwn
  /\ which = "ohci" => O!SignalIsOwn
  /\ which = "ehci" => E!SignalIsOwn
  /\ which = "xhci" => TransferAwaited

(* What is linked into a schedule is reached as often as it should be and in its
   order, and every walk ends: the UHCI frame lists (place_qh, append_qh), the
   order in a segment of the OHCI tree, the EHCI circle of queue heads and the
   poller in the EHCI periodic list. *)
UsbScheduleExact ==
  /\ which = "uhci" => U!ScheduleExact
  /\ which = "ohci" => O!InterruptsFirst
  /\ which = "ehci" => E!RingExact /\ E!IntervalKept

(* A change of the OHCI interrupt tree leaves every poller visited once in its
   interval at least, and every list with an end (install_interrupt_poller). *)
OhciIntervalKept == [][which = "ohci" => O!ChangeKeeps]_common

(* The handlers come to an end: the OHCI handler leaves no list behind its end and
   finds an owner for every TD, the EHCI handler answers every interrupt once and
   stops the kernel only for a device used after it was gone. *)
UsbHandlersAnswer ==
  /\ which = "ohci" => O!NoRunaway /\ O!HandlerNeverStuck
  /\ which = "ehci" => E!AnswersBalanced /\ E!OnlyErrorsHalt

(* A UHCI control transfer is run as it was built: no TD of an earlier one, an
   oversized read to its last byte, its page of TDs and its buffer freed when it is
   over and only then (get_descriptor and the other senders). *)
UhciTransfersExact ==
  which = "uhci" => U!NoStrayTransaction /\ U!DescriptorComplete /\ U!PagesExact

(* Over any number of reports a UHCI poll asks for the toggle the keyboard sends
   next (flip_toggle), and an EHCI report goes to the class driver's buffer. *)
UsbReportsInPlace ==
  /\ which = "uhci" => U!ToggleAgrees
  /\ which = "ehci" => E!ReportInPlace

Booting ==
  \/ which = "uhci" /\ U!EmptyPortsLast
  \/ which \in {"ohci", "ehci"}
  \/ which = "xhci" /\ quiet

UsbBootOver ==
  \/ which = "uhci" /\ U!BootOver
  \/ which = "ohci" /\ O!Booted
  \/ which = "ehci" /\ E!BootOver
  \/ which = "xhci" /\ BootOver

(* The boot sequence ends (BootEnds of the four drivers): no await_interrupt waits
   forever. *)
UsbBootEnds == Booting ~> UsbBootOver

UsbPollOver(p) ==
  \/ which = "uhci" /\ U!PollOver(p)
  \/ which = "ohci" /\ O!Due(p)
  \/ which = "ehci" /\ E!PollOver(p)

UsbPollArmed(p) ==
  \/ which = "uhci" /\ U!PollArmed(p)
  \/ which = "ohci" /\ ~O!Due(p)
  \/ which = "ehci" /\ E!PollArmed(p)

(* A finished poll is armed again (PollsRearmed of the three drivers that have it). *)
UsbPollsRearmed == \A p \in 1..NPorts : UsbPollOver(p) ~> UsbPollArmed(p)
=============================================================================
