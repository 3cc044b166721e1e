---------------------------- MODULE SequenceFile ----------------------------
(***************************************************************************)
(* The conversions of ptrim-lib between what a user types or a sequence    *)
(* file holds and the bytes a unit stores.  Text is a sequence of          *)
(* character codes where the program computes with them, that is in        *)
(* colours and in the hold and fade times; numbers of a file that are read *)
(* digit by digit are numbers here, with the number of digits.             *)
(***************************************************************************)
EXTENDS Integers, Sequences

CONSTANTS
    LEDS,       \* LEDs of a unit (8)
    SLOTS,      \* slots of a unit (76)
    LineWrap    \* lines an unsigned char can number (256)

ASSUME LedsAssumption  == LEDS \in Nat /\ LEDS > 2 /\ LEDS % 2 = 0
ASSUME SlotsAssumption == SLOTS \in Nat \ {0}
ASSUME WrapAssumption  == LineWrap \in Nat \ {0, 1, 2, 3}

Space == 32
Byte  == 0 .. 255

\* A digit 0 .. 15 as it is printed, and what makeColor() takes a character for.
HexChar(d) == IF d > 9 THEN d + 55 ELSE d + 48
Digit(c) == CASE c > 70            -> c - 87
              [] c > 57 /\ c <= 70 -> c - 55
              [] c > 9 /\ c <= 57  -> c - 48
              [] OTHER             -> c

HexDigits == (48 .. 57) \cup (65 .. 70) \cup (97 .. 102)

makeBrightness(n) == IF n > 100 THEN 100 ELSE IF n < 1 THEN 1 ELSE n

\* setName(): of the first 26 characters those that can be printed.
setName(text) ==
    SelectSeq(SubSeq(text, 1, IF Len(text) > 26 THEN 26 ELSE Len(text)),
              LAMBDA c : c >= Space /\ c < 128)

-----------------------------------------------------------------------------
(* Colours: one for all LEDs or one for each, with one or two hex digits   *)
(* for each of red, green and blue.                                        *)

Half == 3 * LEDS     \* digits of a colour with one for each component (24)
Full == 6 * LEDS     \* with two (48)

At(text, k) == IF k < Len(text) THEN text[k + 1] ELSE 0

\* The text, its spaces removed, brought to Full digits, or to Half.
Standard(text, full) ==
    LET n == Len(text)
        Source(k) == CASE n < 6 /\ full              -> (k % 6) \div 2
                       [] n < 6 /\ ~full             -> k % 3
                       [] n >= 6 /\ n < Half /\ full   -> k % 6
                       [] n >= 6 /\ n < Half /\ ~full  -> 2 * (k % 3)
                       [] n >= Half /\ n < Full /\ full  -> k \div 2
                       [] n >= Half /\ n < Full /\ ~full -> k
                       [] n >= Full /\ full            -> k
                       [] n >= Full /\ ~full           -> 2 * k
    IN  [k \in 1 .. (IF full THEN Full ELSE Half) |-> At(text, Source(k - 1))]

\* Two digits to a byte.
Pack(text) ==
    [k \in 1 .. Len(text) \div 2 |->
        (16 * Digit(text[2 * k - 1]) + Digit(text[2 * k])) % 256]

\* makeColor() on a text without spaces; stripping them is done in place, and
\* so by the caller (see CommandLine).
makeColor(text, full) == Pack(Standard(text, full))

\* getColor(), and the "%02X" of download().
HexText(bytes) ==
    [k \in 1 .. 2 * Len(bytes) |->
        LET b == bytes[(k + 1) \div 2] IN
        HexChar(IF k % 2 = 1 THEN b \div 16 ELSE b % 16)]

\* fade(): the colours shown, the last of them the new one.
FadeSteps(time) == CASE time = 0 -> 1   [] time = 1 -> 10 [] time = 2 -> 30
                     [] time = 3 -> 61  [] time = 4 -> 122 [] OTHER -> 255
FadeColor(from, to, steps, n) ==
    IF n = steps THEN to
    ELSE [k \in DOMAIN from |-> (from[k] * steps - (from[k] - to[k]) * n) \div steps]

-----------------------------------------------------------------------------
(* Slots.  A line of a file has the characters of its hold and fade times  *)
(* and a colour of Half digits for each device; a unit keeps a byte of      *)
(* times and a byte of colour for every two digits.                       *)

BlankSlot == [times |-> 0, color |-> [k \in 1 .. Half \div 2 |-> 0]]

\* Slip: the colour of the first device is taken for all of them.
SlotOfFirst(line, device) ==
    [times |-> ((line.hold - 48) * 16 + line.fade - 48) % 256,
     color |-> makeColor(line.colors[1], FALSE)]

\* Line 509 takes '0' from both characters, whatever they are.
SlotOf(line, device) ==
    [times |-> ((line.hold - 48) * 16 + line.fade - 48) % 256,
     color |-> makeColor(line.colors[device], FALSE)]

LineOf(slot) ==
    [hold |-> HexChar(slot.times \div 16), fade |-> HexChar(slot.times % 16),
     colors |-> <<HexText(slot.color)>>]

\* Slip: the upper limit is not applied.
activeSlotsUnlimited(n) == LET b == n % 256 IN IF b < 1 THEN 1 ELSE b

\* setActiveSlots(): the argument is an unsigned char.
activeSlotsOf(n) ==
    LET b == n % 256 IN IF b > SLOTS THEN SLOTS ELSE IF b < 1 THEN 1 ELSE b

\* download(): SLOTS lines; with blank the slots not in use are not read.
download(active, slots, blank) ==
    [active |-> active,
     lines |-> [k \in 1 .. SLOTS |->
         LineOf(IF blank /\ k > active THEN BlankSlot ELSE slots[k - 1])]]

-----------------------------------------------------------------------------
(* upload() of a file by the device with number id (from 0).  The header   *)
(* is read into up; line n + 3 of the file (from 0) is its slot n.         *)

\* activeSlots is never set before the digits of a multi-device file are
\* added to it; garbage is what it held.
UploadStart(garbage) ==
    [line |-> 0, active |-> garbage, device |-> 1, loopStart |-> 0, load |-> SLOTS]

\* The lines before the loop of the sequence, which are not loaded.
Skip(file) == IF file.version = "multi" THEN file.loopStart - 1 ELSE 0

\* A file whose header tells the truth about its lines.
WellFormed(file) ==
    /\ file.version \in {"simple", "multi", "unknown"}
    /\ file.devices \in Nat \ {0} /\ file.digits \in Nat /\ file.loopStart \in Nat \ {0}
    /\ file.active \in Byte
    /\ Skip(file) < file.active /\ file.active <= Len(file.lines)
    /\ file.lines \in Seq([hold : HexDigits, fade : HexDigits,
                            colors : Seq([1 .. Half -> HexDigits])])
    /\ \A k \in DOMAIN file.lines : file.devices <= Len(file.lines[k].colors)

LineCount(file) == 3 + Len(file.lines)

ReadHeader(up, file, id, blank) ==
    LET multi  == file.version = "multi"
        active == IF multi THEN (up.active * 10 ^ file.digits + file.active) % 256
                           ELSE file.active
        start  == Skip(file)
    IN  [up EXCEPT !.active = active,
                   !.loopStart = start,
                   !.device = IF multi THEN (id % file.devices) + 1 ELSE 1,
                   !.load = IF blank /\ active - start < SLOTS
                            THEN (active - start) % 256 ELSE @]

\* The line is one of those to be loaded.
ToLoad(up) ==
    up.line > 2 + up.loopStart /\ up.line < 3 + up.load + up.loopStart

\* The slot the line goes to; the loop of the sequence begins at slot 0.
Target(up) == up.line - 3 - up.loopStart

NextLine(up) == [up EXCEPT !.line = (@ + 1) % LineWrap]

=============================================================================
