------------------------------ MODULE Keyboard ------------------------------
(***************************************************************************)
(* The boot-protocol keyboard of src/emkk/src/drivers/keyboard.rs: the     *)
(* device samples the keys that are down into an eight byte report, the    *)
(* controller writes it to SCANCODE_BUFFER, and usb_report, called by the  *)
(* controller's handler, turns the difference to LAST_SCAN into the bitmap *)
(* PRESSED_KEYS and the characters TRANSLATED_KEYS.                        *)
(*                                                                         *)
(* A report is [shift, keys]: whether left shift is down, and the packed   *)
(* sequence of usage codes.  PRESSED_KEYS is the set of the set bits.      *)
(***************************************************************************)
EXTENDS Integers, Sequences, FiniteSets, SequencesExt

CONSTANTS
  Keys,       \* the usage codes of the keys somebody presses
  MaxKeys     \* how many keys the device lists before it rolls over

VARIABLES
  buffer,       \* SCANCODE_BUFFER
  pending,      \* a report has arrived that usb_report has not been called for
  last,         \* LAST_SCAN
  modifiers,    \* PRESSED_KEYS[7], the word of the modifier keys
  pressed,      \* the other words of PRESSED_KEYS
  translated,   \* the first NUM_TRANSLATED_KEYS of TRANSLATED_KEYS
  numPressed,   \* NUM_KEYS_PRESSED
  uppercase     \* UPPERCASE

vars == <<buffer, pending, last, modifiers, pressed, translated,
          numPressed, uppercase>>

ErrorRollOver == 1
CapsLock == 57       \* 0x39
NoChar == 255
MaxImplemented == 116
Empty == [shift |-> FALSE, keys |-> <<>>]

(***************************************************************************)
(* The translation tables of the English (US) layout.                      *)
(***************************************************************************)
From(first, last_) == [i \in 1..(last_ - first + 1) |-> first + i - 1]
Untranslated(n) == [i \in 1..n |-> NoChar]

UsKeys ==
  Untranslated(4) \o From(97, 122) \o From(49, 57)
    \o <<48, 13, 255, 255, 9, 32, 45, 61, 91, 93, 92, 255, 59, 39, 96, 44, 46, 47>>
    \o Untranslated(27) \o <<47, 42, 45, 43, 255>> \o From(49, 57)
    \o <<48, 46, 255, 255, 255, 61>> \o Untranslated(12)

UsUppercase ==
  Untranslated(4) \o From(65, 90)
    \o <<33, 64, 35, 36, 37, 94, 38, 42, 40, 41, 13, 255, 255, 9, 32, 95, 43,
         123, 125, 124, 255, 58, 34, 126, 60, 61, 63>>
    \o Untranslated(27) \o <<47, 42, 45, 43>> \o Untranslated(5) \o <<53>>
    \o Untranslated(9) \o <<61>> \o Untranslated(12)

\* 2 is a key that is never pressed, 128 + x the key x with UPPERCASE.
UsAsciiPunctuation ==
  <<44, 158, 179, 160, 161, 162, 164, 52, 166, 167, 165, 174, 54, 45, 55, 56,
    39>> \o From(30, 38) \o <<179, 51, 182, 46, 183, 184, 159>>

UsAscii ==
  [i \in 1..9 |-> 2] \o <<43>> \o [i \in 1..22 |-> 2] \o UsAsciiPunctuation
    \o From(132, 157) \o <<47, 49, 48, 163, 173, 53>> \o From(4, 29)
    \o <<175, 177, 176, 181>> \o [i \in 1..128 |-> 2]

\* choose_keyboard lays the two tables out one behind the other; an index of
\* 116 passes the check, and behind the second table anything may follow.
Behind == {0, NoChar}

CharOf(upper, key, behind) ==
  IF key > MaxImplemented THEN NoChar
  ELSE IF upper
    THEN (UsUppercase \o <<behind>>)[key + 1]
    ELSE (UsKeys \o UsUppercase)[key + 1]

\* The characters of the keys, from the last key to the first.
Translate(upper, keys, behind) ==
  LET char == [n \in 1..Len(keys) |-> CharOf(upper, keys[Len(keys) + 1 - n], behind)]
      chars[n \in 0..Len(keys)] ==
        IF n = 0 THEN <<>>
        ELSE IF char[n] = NoChar THEN chars[n - 1] ELSE Append(chars[n - 1], char[n])
  IN chars[Len(keys)]

\* is_key_pressed
IsKeyPressed(char) == UsAscii[char + 1] \in pressed

-----------------------------------------------------------------------------
Init ==
  /\ buffer = Empty /\ pending = FALSE /\ last = Empty
  /\ modifiers = FALSE /\ pressed = {} /\ translated = <<>>
  /\ numPressed = 0 /\ uppercase = FALSE

driver == <<last, modifiers, pressed, translated, numPressed, uppercase>>

\* What the device may have to say at a poll: any keys may have gone down or
\* up since the last one, and they are listed in any order.
Reports ==
  {[shift |-> down, keys |-> keys] :
     down \in BOOLEAN,
     keys \in {k \in UNION {[1..n -> Keys] : n \in 0..MaxKeys} : IsInjective(k)}
              \cup {[i \in 1..6 |-> ErrorRollOver]}}

\* The controller polls; the next poll waits until the callback has returned.
Poll ==
  /\ ~pending
  /\ pending' = TRUE
  /\ buffer' \in Reports
  /\ UNCHANGED driver

-----------------------------------------------------------------------------
(***************************************************************************)
(* usb_report.  Every action below is one way through it.                  *)
(***************************************************************************)
LastKey == buffer.keys[Len(buffer.keys)]

KeepOld == pressed  \* mutant: the keys of the last scan stay pressed
Unpressed == pressed \ ToSet(SubSeq(last.keys, 1, numPressed))

Shifted == IF buffer.shift /= last.shift THEN ~uppercase ELSE uppercase

Modified ==
  /\ pending
  /\ pending' = FALSE
  /\ buffer /= last
  \* The word is taken from LAST_SCAN before LAST_SCAN is updated.
  /\ modifiers' = IF buffer.shift /= last.shift THEN last.shift ELSE modifiers
  /\ UNCHANGED buffer

Unchanged ==
  /\ pending /\ buffer = last
  /\ pending' = FALSE
  /\ UNCHANGED <<buffer, driver>>

\* No key is down: the characters of the last report stay.
AllReleased ==
  /\ Modified
  /\ buffer.keys = <<>>
  /\ pressed' = Unpressed
  /\ numPressed' = 0
  /\ last' = buffer
  /\ uppercase' = Shifted
  /\ UNCHANGED translated

\* Too many keys: only the modifiers are taken over.
RolledOver ==
  /\ Modified
  /\ buffer.keys /= <<>> /\ LastKey = ErrorRollOver
  /\ translated' = <<>>
  /\ last' = [last EXCEPT !.shift = buffer.shift]
  /\ uppercase' = Shifted
  /\ UNCHANGED <<pressed, numPressed>>

\* Caps lock is the last key: the keys between it and the first are taken.
CapsLocked ==
  /\ Modified
  /\ buffer.keys /= <<>> /\ LastKey = CapsLock
  /\ LET taken == SubSeq(buffer.keys, 2, Len(buffer.keys) - 1)
         toggled == IF CapsLock \in pressed THEN pressed \ {CapsLock}
                                            ELSE pressed \cup {CapsLock} IN
     \E behind \in Behind :
       /\ pressed' = (toggled \ ToSet(SubSeq(last.keys, 1, numPressed))) \cup ToSet(taken)
       /\ translated' = Translate(~Shifted, taken, behind)
  /\ uppercase' = ~Shifted
  /\ numPressed' = Len(buffer.keys)
  /\ last' = buffer

Taken == \E behind \in Behind : translated' = Translate(Shifted, buffer.keys, behind)

KeysDown ==
  /\ Modified
  /\ buffer.keys /= <<>> /\ LastKey \notin {ErrorRollOver, CapsLock}
  /\ pressed' = Unpressed \cup ToSet(buffer.keys)
  /\ Taken
  /\ uppercase' = Shifted
  /\ numPressed' = Len(buffer.keys)
  /\ last' = buffer

UsbReport == Unchanged \/ AllReleased \/ RolledOver \/ CapsLocked \/ KeysDown

Next == Poll \/ UsbReport

Spec == Init /\ [][Next]_vars

-----------------------------------------------------------------------------
Handled == ~pending /\ (buffer.keys = <<>> \/ LastKey /= ErrorRollOver)
CapsLast == buffer.keys /= <<>> /\ LastKey = CapsLock

(* usb_report updates the bitmap from differences only.  Once it has handled
   a report that has not rolled over, no key that the report does not list is
   left pressed, and every key it lists is pressed unless caps lock ends it. *)
PressedExact ==
  Handled => /\ pressed \subseteq ToSet(buffer.keys)
             /\ CapsLast \/ ToSet(buffer.keys) \subseteq pressed

(* The characters a reader gets after a report are those of the keys that
   the report lists, in the case that is set then, or none at all (a roll-over
   drops them, and the same keys are not translated again after it): never
   those of an earlier report, never a part. *)
TranslatedExact ==
  (Handled /\ buffer.keys /= <<>> /\ ~CapsLast /\ translated /= <<>>) =>
    /\ Len(translated) <= Len(buffer.keys)
    /\ \E behind \in Behind :
         ToSet(translated) = {CharOf(uppercase, k, behind) : k \in ToSet(buffer.keys)} \ {NoChar}

(* choose_keyboard installs two tables in opposite directions: in lower case
   every character delivered for a key of the main block (up to 0x38, return
   aside) is one that is_key_pressed reports as pressed. *)
TablesAgree ==
  (Handled /\ ~CapsLast /\ ~uppercase) =>
    \A k \in ToSet(buffer.keys) :
      (k <= 56 /\ k /= 40 /\ CharOf(FALSE, k, NoChar) /= NoChar) =>
         IsKeyPressed(CharOf(FALSE, k, NoChar))
=============================================================================
