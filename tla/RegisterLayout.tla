-------------------------- MODULE RegisterLayout --------------------------
(***************************************************************************)
(* How the driver's accessors see a device register or a descriptor that   *)
(* a device reads.  A bit is <<word, number>>, a field the set of its      *)
(* bits, the value of a field the subset of them that is 1; the shift by   *)
(* the field's low bit is thereby left out.  In the map of a whole         *)
(* register file (the Bar tables) a bit stands for one byte.               *)
(*                                                                         *)
(* Nearly every accessor is written the same way: read the word, clear the *)
(* mask of the field, or the new value in, write the word back.            *)
(***************************************************************************)
EXTENDS Naturals, FiniteSets

\* (mask << low) of a u32: bits shifted out of the word are lost.
PartIn(word, low, width) ==
    {<<word, b>> : b \in {n \in low .. low + width - 1 : n < 32}}
Part(low, width) == PartIn(0, low, width)
BitIn(word, b) == {<<word, b>>}
Bit(b) == BitIn(0, b)
Bytes(offset, n) == {<<offset + i, 0>> : i \in 0 .. n - 1}

AllBits == (0 .. 15) \X (0 .. 31)

\* An accessor that writes several fields at once.
Bulk(name, clear, put) == [name |-> name, clear |-> clear, put |-> put]
ZeroOut == Bulk("zero_out", AllBits, {})

(***************************************************************************)
(* A layout: the fields; those that have a setter (sets), one that takes   *)
(* no value and writes ones, or zeros; the events, which the device raises *)
(* and a written 1 acknowledges; the bits a setter clears before it ors    *)
(* the value in, and the bits the getter looks at; the bulk accessors.     *)
(***************************************************************************)
Layout(fields) ==
    [fields |-> fields, sets |-> DOMAIN fields, ones |-> {}, zeros |-> {},
     events |-> {}, clears |-> fields, reads |-> fields, bulk |-> {}]

Settable(fields, sets) == [Layout(fields) EXCEPT !.sets = sets]
Reads(fields) == Settable(fields, {})
OnlySets(fields) ==
    [Layout(fields) EXCEPT
        !.ones = {f \in DOMAIN fields : Cardinality(fields[f]) = 1}]
Raises(fields, events) == [Layout(fields) EXCEPT !.events = events]
RaisesOnlySets(fields, events) ==
    [OnlySets(fields) EXCEPT !.events = events]
AllRaise(fields) == RaisesOnlySets(fields, DOMAIN fields)
=============================================================================
