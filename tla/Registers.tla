------------------------------ MODULE Registers ------------------------------
(***************************************************************************)
(* One call of one accessor on one register: the read of the word, the     *)
(* write of the changed word, and between the two whatever the device      *)
(* raises.  The device is external: an event bit it raised stays until a 1 *)
(* is written to it, every other bit takes the value that is written.      *)
(*                                                                         *)
(* reg   the register,                                                     *)
(* word  its bits that are 1,                                              *)
(* call  the accessor that runs: its name, the bits it clears and those it *)
(*       puts, the word it has seen, the events raised since.              *)
(***************************************************************************)
EXTENDS UsbRegisters, DiskRegisters

VARIABLES reg, word, call

vars == <<reg, word, call>>

Here == IF reg \in UsbTables THEN UsbTable(reg)
        ELSE DiskTable(reg)

Lowest(bits) ==
    CHOOSE b \in bits : \A c \in bits :
        b[1] < c[1] \/ (b[1] = c[1] /\ b[2] <= c[2])

BitsOf(layout) == UNION {layout.fields[f] : f \in DOMAIN layout.fields}

\* The values a setter is called with: no bit, every bit and the lowest one.
Values(layout, f) ==
    LET bits == layout.fields[f] IN
    CASE f \in layout.ones -> {bits}
      [] f \in layout.zeros -> {{}}
      [] OTHER -> {{}, bits, {Lowest(bits)}}

\* Mutant: a setter that only ors.
ClearedNothing(layout, f) == {}

\* set and set_part of every register: `prev_val &= !mask`, `prev_val |= val`.
ClearedBits(layout, f) == layout.clears[f]

Accessors(layout) ==
    layout.bulk \cup
    UNION {{Bulk(f, ClearedBits(layout, f), v) : v \in Values(layout, f)} :
               f \in layout.sets}

\* Mutant: reads the register again for the write.
ComposedFresh(seen, accessor) == (word \ accessor.clear) \cup accessor.put

\* The word an accessor writes back, from the word it has read.
Composed(seen, accessor) == (seen \ accessor.clear) \cup accessor.put

Idle == [at |-> "idle", name |-> "", clear |-> {}, put |-> {}, seen |-> {},
         late |-> {}]

Init ==
    /\ reg \in UsbTables \cup DiskTables
    /\ \E layout \in {Here} :
           word \in {{}, BitsOf(layout)} \cup
                    {layout.fields[f] : f \in DOMAIN layout.fields}
    /\ call = Idle

Read ==
    /\ call.at = "idle"
    /\ \E layout \in {Here} : \E a \in Accessors(layout) :
           call' = [at |-> "read", name |-> a.name, clear |-> a.clear,
                    put |-> a.put, seen |-> word, late |-> {}]
    /\ UNCHANGED <<reg, word>>

\* The device raises an event while the accessor holds the word it has read.
Raise ==
    /\ call.at = "read" /\ call.late = {}
    /\ \E layout \in {Here} : \E e \in layout.events :
           /\ layout.fields[e] \cap word = {}
           /\ word' = word \cup layout.fields[e]
           /\ call' = [call EXCEPT !.late = {e}]
    /\ UNCHANGED reg

EventBits(layout) == UNION {layout.fields[e] : e \in layout.events}

Stored(layout, now, written) ==
    (written \ EventBits(layout)) \cup ((now \cap EventBits(layout)) \ written)

Write ==
    /\ call.at = "read"
    /\ \E layout \in {Here} :
           word' = Stored(layout, word, Composed(call.seen, call))
    /\ call' = [call EXCEPT !.at = "done"]
    /\ UNCHANGED reg

Next == Read \/ Raise \/ Write

Spec == Init /\ [][Next]_vars

Get(layout, f, w) == w \cap layout.reads[f]

(***************************************************************************)
(* Properties.                                                             *)
(***************************************************************************)

\* The fields that share bits with another of the same table.
Shared ==
    [QueueHead |-> {"TotalBytesToTransfer", "Dt"},
     QueueHeadBuffer |-> {"current_offset", "buffer_pointer0"},
     IsochronousWords |-> {"transaction5", "transaction6", "transaction7",
                           "buffer_pointer0", "buffer_pointer1", "buffer_pointer2"},
     QueueElement |-> {"pid_code", "c_page", "error_counter"},
     DeviceSleep |-> {"device_sleep_idle_timeout", "dito_multiplier"},
     Abar |-> {"cap2", "bohc"}]

SharesBits(f) == reg \in DOMAIN Shared /\ f \in Shared[reg]

\* The accessors of one register, and the registers of one device, are about
\* different bits: no two fields of a table overlap but the ones in Shared.
FieldsApart ==
    call.at = "idle" =>
        \A fields \in {Here.fields} : \A f, g \in DOMAIN fields :
            f # g /\ ~(SharesBits(f) /\ SharesBits(g)) =>
                fields[f] \cap fields[g] = {}

\* A setter does what its name says and nothing else: the field reads back
\* what was set, an acknowledged event is gone, every other field that is not
\* an event reads as it did.  Left out are the setters that do not clear their
\* field (the SATA and NVMe ones with a number for a mask), the getters that
\* test the wrong bit and the overlaps of Shared.
SetExact ==
    call.at = "done" /\ ~SharesBits(call.name) =>
        \A layout \in {Here} : \A f \in layout.sets \cap {call.name} :
            /\ \A g \in DOMAIN layout.fields \ (layout.events \cup {f}) :
                   Get(layout, g, word) = Get(layout, g, call.seen)
            /\ f \in layout.events /\ call.put # {} =>
                   layout.fields[f] \cap word = {}
            /\ (/\ f \notin layout.events
                /\ layout.fields[f] \subseteq layout.clears[f]
                /\ layout.reads[f] = layout.fields[f]) =>
                   Get(layout, f, word) = call.put

\* An event that the device raises between an accessor's read and its write is
\* not acknowledged by the write, unless the accessor acknowledges that event.
LateEventKept ==
    call.at = "done" =>
        \A e \in call.late : \A bits \in {Here.fields[e]} :
            bits \cap call.put = {} => bits \subseteq word
=============================================================================
