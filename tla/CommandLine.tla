---------------------------- MODULE CommandLine ----------------------------
(***************************************************************************)
(* ptrim, the USB command line: main() finds and opens the units the user  *)
(* named, then runs the command on each of them, in a thread per unit or,  *)
(* for downloads and information, one after the other.  The threads share  *)
(* argv, and makeColor() strips the spaces of a colour in place, in argv.  *)
(* The stream command is the subject of StreamSync.                        *)
(***************************************************************************)
EXTENDS SequenceFile, Functions, FiniteSets

CONSTANTS
    Units,          \* PlasmaTrims; a unit stands for its serial number
    Bus,            \* what libusb lists: [unit, perInterface, hid, plasma]
    MAX_DEVICES,    \* 32 in ptrim-lib.h
    Identifiers,    \* first arguments: [kind, serials]
    Commands,       \* the rest: [word, text, arg, time, file, stdin]
    Garbage,        \* what an uninitialised unsigned char may hold
    Mishaps,        \* what may go wrong
    None

(***************************************************************************)
(* open_fail    hid_open_path() returns NULL for a unit that is there      *)
(* uninit       activeSlots starts with something else than 0              *)
(* same_string  two threads strip the spaces of argv[3] at once            *)
(* hex_times    a line of the file has a hold or fade time above 9         *)
(***************************************************************************)
AllMishaps == {"open_fail", "uninit", "same_string", "hex_times"}

Words == {"info", "query", "name", "brightness", "start", "stop", "color", "fade",
          "download", "full_download", "upload", "full_upload"}

ASSUME MaxAssumption     == MAX_DEVICES \in Nat \ {0}
ASSUME GarbageAssumption == 0 \in Garbage /\ Garbage \subseteq Byte
ASSUME MishapAssumption  == Mishaps \subseteq AllMishaps
\* Arguments are strings, which makeColor() indexes with unsigned characters.
ASSUME CommandAssumption ==
    \A c \in Commands : /\ c.word \in Words
                        /\ c.text \in Seq(Byte \ {0}) /\ Len(c.text) < 256
                        /\ c.arg = None \/ c.arg \in Int
                        /\ c.word = "brightness" => c.arg \in Int
                        /\ c.file = None \/ WellFormed(c.file)
\* A list has eight characters and a separator for each serial number, and an unsigned char
\* counts them.
ASSUME IdentAssumption   ==
    \A i \in Identifiers : /\ i.kind \in {"none", "version", "all", "one", "list"}
                           /\ i.serials \in Seq(Units) /\ 9 * Len(i.serials) <= 256
                           /\ i.kind = "one" => Len(i.serials) = 1

Threads == 1 .. MAX_DEVICES     \* thread t runs for handle[t], with id t - 1

VARIABLES
    ident, cmd,     \* the arguments
    main,           \* where main is
    cur,            \* the rest of the enumeration
    todo,           \* serial numbers of the list still to be looked up
    path_list,      \* the paths found for them
    handle,         \* the units opened, in order
    opened,         \* the units with an open handle
    status,         \* how the program ended
    argv3,          \* the shared text of argv[3], ended by 0
    pc,             \* stage of each thread
    strip,          \* a thread's i, offset and length in makeColor()
    up,             \* its variables in upload()
    shades,         \* its variables in fade(): colours from and to, steps done
    unit,           \* what each unit stores and shows
    happened

threadVars == <<argv3, pc, strip, up, shades, unit>>
mainVars   == <<main, cur, todo, path_list, handle, status>>
args       == <<ident, cmd>>
vars == <<args, mainVars, opened, threadVars, happened>>

Black == [k \in 1 .. Half |-> 0]
NewUnit == [name |-> <<>>, saved |-> 50, running |-> TRUE, level |-> 50,
            shown |-> [k \in 1 .. Half |-> 255], active |-> 1,
            slots |-> [n \in 0 .. SLOTS - 1 |-> BlankSlot]]
NoStrip  == [i |-> 0, offset |-> 0, length |-> 0]
NoShades == [from |-> Black, to |-> Black, step |-> 0]

Stages == {"none", "begin", "strip", "show", "fading", "lines", "close", "ended"}

TypeOK ==
    /\ main \in {"start", "search", "reopen", "serial", "launch", "run", "exit"}
    /\ cur \in Seq(Units) /\ todo \in Seq(Units) /\ path_list \in Seq(Units)
    /\ handle \in Seq(Units) /\ Len(handle) <= MAX_DEVICES
    /\ opened \subseteq Units
    /\ status \in {"running", "ok", "error", "crash"}
    /\ argv3 \in Seq(Byte)
    /\ pc \in [Threads -> Stages]
    /\ \A t \in Threads : up[t].line \in 0 .. LineWrap - 1
    /\ \A u \in Units :
          /\ unit[u].active \in 1 .. SLOTS
          /\ unit[u].shown \in [1 .. Half -> Byte]
          /\ unit[u].saved \in 1 .. 100 /\ unit[u].level \in 1 .. 100
    /\ happened \subseteq Mishaps

Init ==
    /\ ident \in Identifiers
    /\ cmd \in Commands
    /\ ident.kind \in {"none", "version"} => cmd.word = "info"
    /\ main = "start"
    /\ cur = <<>> /\ todo = <<>> /\ path_list = <<>> /\ handle = <<>>
    /\ opened = {}
    /\ status = "running"
    /\ argv3 = Append(cmd.text, 0)
    /\ pc = [t \in Threads |-> "none"]
    /\ strip = [t \in Threads |-> NoStrip]
    /\ up = [t \in Threads |-> UploadStart(0)]
    /\ shades = [t \in Threads |-> NoShades]
    /\ unit = [u \in Units |-> NewUnit]
    /\ happened = {}

Happens(m) == m \in Mishaps /\ happened' = happened \cup {m}
Exit(code) == main' = "exit" /\ status' = code

-----------------------------------------------------------------------------
(* main(): which units.                                                    *)

\* The HID interfaces, of devices that have their class at the interface, with
\* the vendor and product of a PlasmaTrim, in the order of the bus.
hid_enumerate ==
    LET found == SelectSeq(Bus, LAMBDA d : d.perInterface /\ d.hid /\ d.plasma)
    IN  [k \in 1 .. Len(found) |-> found[k].unit]

ASSUME EnumAssumption == hid_enumerate \in Seq(Units)

\* hid_open_path(): fails for a unit this program has open already, because
\* the interface is claimed.
Opens(u) == u \notin opened /\ UNCHANGED happened
OpenFails(u) == IF u \in opened THEN UNCHANGED happened ELSE Happens("open_fail")

\* The version, without a device; or the first enumeration.
Start ==
    /\ main = "start"
    /\ IF ident.kind = "version"
       THEN Exit("ok") /\ UNCHANGED <<cur, todo>>
       ELSE /\ main' = "search"
            /\ cur' = hid_enumerate
            /\ todo' = ident.serials
            /\ UNCHANGED status
    /\ UNCHANGED <<args, path_list, handle, opened, threadVars, happened>>

Searching == main = "search"
Take1 == cur' = Tail(cur)

\* "all", and no argument: open what there is, up to the size of the table.
OpenAll ==
    /\ Searching
    /\ ident.kind \in {"none", "all"}
    /\ IF cur # <<>> /\ Len(handle) < MAX_DEVICES
       THEN /\ Take1
            /\ \/ Opens(Head(cur)) /\ handle' = Append(handle, Head(cur))
                                   /\ opened' = opened \cup {Head(cur)}
               \/ OpenFails(Head(cur)) /\ UNCHANGED <<handle, opened>>
            /\ UNCHANGED main
       ELSE /\ main' = "launch"
            /\ UNCHANGED <<cur, handle, opened, happened>>
    /\ UNCHANGED <<args, todo, path_list, status, threadVars>>

\* One serial number: open each unit in turn, keep the one that has it.
OpenOne ==
    /\ Searching
    /\ ident.kind = "one"
    /\ cur # <<>>
    /\ handle = <<>>
    /\ Take1
    /\ \/ /\ Opens(Head(cur))
          /\ IF Head(cur) = Head(todo)
             THEN handle' = <<Head(cur)>> /\ opened' = {Head(cur)}
             ELSE UNCHANGED <<handle, opened>>
       \/ OpenFails(Head(cur)) /\ UNCHANGED <<handle, opened>>
    /\ UNCHANGED <<args, main, todo, path_list, status, threadVars>>

OneFound ==
    /\ Searching
    /\ ident.kind = "one"
    /\ cur = <<>> \/ handle # <<>>
    /\ IF handle = <<>> THEN Exit("error") ELSE main' = "launch" /\ UNCHANGED status
    /\ UNCHANGED <<args, cur, todo, path_list, handle, opened, threadVars, happened>>

\* A list: each serial number is looked up in an enumeration of its own, which
\* ends when it is found; every unit is closed again.
LookUp ==
    /\ Searching
    /\ ident.kind = "list"
    /\ cur # <<>>
    /\ todo # <<>>
    /\ Len(path_list) < MAX_DEVICES
    /\ \/ /\ Opens(Head(cur))
          /\ IF Head(cur) = Head(todo)
             THEN /\ path_list' = Append(path_list, Head(cur))
                  /\ cur' = hid_enumerate
                  /\ todo' = Tail(todo)
             ELSE Take1 /\ UNCHANGED <<path_list, todo>>
       \/ OpenFails(Head(cur)) /\ Take1 /\ UNCHANGED <<path_list, todo>>
    /\ UNCHANGED <<args, main, handle, opened, status, threadVars>>

\* Slip: the search goes on with what is left of the last enumeration.
SameList == UNCHANGED cur

NewList == cur' = hid_enumerate

\* Reported on stderr; the next one is looked up.
NotFound ==
    /\ Searching
    /\ ident.kind = "list"
    /\ cur = <<>>
    /\ todo # <<>>
    /\ Len(path_list) < MAX_DEVICES
    /\ todo' = Tail(todo)
    /\ NewList
    /\ UNCHANGED <<args, main, path_list, handle, opened, status, threadVars, happened>>

LookedUp ==
    /\ Searching
    /\ ident.kind = "list"
    /\ todo = <<>> \/ Len(path_list) = MAX_DEVICES
    /\ main' = "reopen"
    /\ UNCHANGED <<args, cur, todo, path_list, handle, opened, status, threadVars, happened>>

\* The paths are opened again.  number_devices is counted up before the first
\* getSerial(), which is therefore given the handle after the last.
Reopen ==
    /\ main = "reopen"
    /\ IF path_list = <<>>
       THEN /\ main' = "launch"
            /\ UNCHANGED <<path_list, handle, opened, happened>>
       ELSE /\ path_list' = Tail(path_list)
            /\ \/ /\ Opens(Head(path_list))
                  /\ handle' = Append(handle, Head(path_list))
                  /\ opened' = opened \cup {Head(path_list)}
                  /\ main' = "serial"
               \/ OpenFails(Head(path_list)) /\ UNCHANGED <<main, handle, opened>>
    /\ UNCHANGED <<args, cur, todo, status, threadVars>>

\* The index of the handle given to getSerial(): number_devices, counted up.
SerialIndex == Len(handle) + 1

\* getSerial() of that handle prints the number; on one that was never set the
\* program crashes, or whatever is read and written has no effect.
ShowSerial ==
    /\ main = "serial"
    /\ \/ main' = "reopen" /\ UNCHANGED status
       \/ SerialIndex \notin DOMAIN handle /\ Exit("crash")
    /\ UNCHANGED <<args, cur, todo, path_list, handle, opened, threadVars, happened>>

-----------------------------------------------------------------------------
(* main(): the command.                                                    *)

Uploading == cmd.word \in {"upload", "full_upload"}
Threaded == cmd.word \notin {"info", "download", "full_download"}

\* No unit; an upload of standard input to several; or on with the command.
Launch ==
    /\ main = "launch"
    /\ IF handle = <<>> THEN Exit("ok") /\ UNCHANGED pc
       ELSE IF Len(handle) > 1 /\ Uploading /\ cmd.stdin
       THEN Exit("error") /\ UNCHANGED pc
       ELSE /\ main' = "run"
            /\ pc' = [t \in Threads |->
                        IF t <= Len(handle) /\ (Threaded \/ t = 1) THEN "begin" ELSE "none"]
            /\ UNCHANGED status
    /\ UNCHANGED <<args, cur, todo, path_list, handle, opened, argv3, strip, up,
                   shades, unit, happened>>

\* Without threads the next call is made when the last has returned.
NextCall(t) ==
    /\ main = "run"
    /\ ~Threaded
    /\ t < Len(handle)
    /\ pc[t] = "ended"
    /\ pc[t + 1] = "none"
    /\ pc' = [pc EXCEPT ![t + 1] = "begin"]
    /\ UNCHANGED <<args, mainVars, opened, argv3, strip, up, shades, unit, happened>>

\* All threads are joined; hid_exit().
Finish ==
    /\ main = "run"
    /\ \A t \in 1 .. Len(handle) : pc[t] = "ended"
    /\ Exit("ok")
    /\ UNCHANGED <<args, cur, todo, path_list, handle, opened, threadVars, happened>>

-----------------------------------------------------------------------------
(* runCommand() of thread t.                                               *)

At_(t, stage) == pc[t] = stage
Goto(t, stage) == pc' = [pc EXCEPT ![t] = stage]
frame == <<args, mainVars>>

\* One request changes the unit, or nothing does: information, queries,
\* downloads, and an upload whose file does not open.
Simple(t) ==
    /\ At_(t, "begin")
    /\ cmd.word \notin {"color", "fade"}
    /\ Uploading => cmd.file = None
    /\ unit' = [unit EXCEPT ![handle[t]] =
                  CASE cmd.word = "name"       -> [@ EXCEPT !.name = setName(cmd.text)]
                    [] cmd.word = "brightness" -> [@ EXCEPT !.saved = makeBrightness(cmd.arg)]
                    [] cmd.word = "start"      -> [@ EXCEPT !.running = TRUE]
                    [] cmd.word = "stop"       -> [@ EXCEPT !.running = FALSE]
                    [] OTHER                   -> @]
    /\ Goto(t, "close")
    /\ UNCHANGED <<frame, opened, argv3, strip, up, shades, happened>>

\* strlen() of the text in argv[3].
TextLength == (CHOOSE k \in DOMAIN argv3 : argv3[k] = 0
                                          /\ \A j \in 1 .. k - 1 : argv3[j] # 0) - 1

Stripping(t) == At_(t, "strip")
Spaces == \E k \in DOMAIN cmd.text : cmd.text[k] = Space

\* color and fade: fade() first asks for the colour shown; makeColor() of the
\* user's colour begins.
BeginColor(t) ==
    /\ At_(t, "begin")
    /\ cmd.word \in {"color", "fade"}
    /\ strip' = [strip EXCEPT ![t] = [NoStrip EXCEPT !.length = TextLength]]
    /\ shades' = IF cmd.word = "fade"
                 THEN [shades EXCEPT ![t].from = HexText(unit[handle[t]].shown)] ELSE shades
    /\ IF Spaces /\ \E s \in Threads \ {t} : Stripping(s)
       THEN Happens("same_string") ELSE UNCHANGED happened
    /\ Goto(t, "strip")
    /\ UNCHANGED <<frame, opened, argv3, up, unit>>

\* One round of the loop: skip the spaces, move one character down.
StripStep(t) ==
    LET s    == strip[t]
        from == CHOOSE k \in s.i + s.offset .. Len(argv3) - 1 :
                    /\ argv3[k + 1] # Space
                    /\ \A j \in s.i + s.offset .. k - 1 : argv3[j + 1] = Space
    IN  /\ Stripping(t)
        /\ s.i + s.offset < s.length
        /\ argv3' = [argv3 EXCEPT ![s.i + 1] = argv3[from + 1]]
        /\ strip' = [strip EXCEPT ![t].offset = from - s.i, ![t].i = @ + 1]
        /\ UNCHANGED <<frame, opened, pc, up, shades, unit, happened>>

\* Slip: the length is not corrected for the spaces taken out.
TypedColorLong(t) == makeColor(SubSeq(argv3, 1, strip[t].length), TRUE)

TypedColor(t) == makeColor(SubSeq(argv3, 1, strip[t].length - strip[t].offset), TRUE)

StripEnd(t) ==
    /\ Stripping(t)
    /\ strip[t].i + strip[t].offset >= strip[t].length
    /\ shades' = [shades EXCEPT ![t].to = TypedColor(t),
                     ![t].from = IF cmd.word = "fade" THEN makeColor(@, TRUE) ELSE @]
    /\ Goto(t, IF cmd.word = "fade" THEN "fading" ELSE "show")
    /\ UNCHANGED <<frame, opened, argv3, strip, up, unit, happened>>

Level(t) == IF cmd.arg = None THEN unit[handle[t]].saved ELSE makeBrightness(cmd.arg)

setColor(t, color) ==
    unit' = [unit EXCEPT ![handle[t]].shown = color, ![handle[t]].level = Level(t)]

Show(t) ==
    /\ At_(t, "show")
    /\ setColor(t, shades[t].to)
    /\ Goto(t, "close")
    /\ UNCHANGED <<frame, opened, argv3, strip, up, shades, happened>>

\* One colour of the table; the last is the new one.
FadeStep(t) ==
    LET n == shades[t].step + 1
        steps == FadeSteps(cmd.time)
    IN  /\ At_(t, "fading")
        /\ setColor(t, FadeColor(shades[t].from, shades[t].to, steps, n))
        /\ shades' = [shades EXCEPT ![t].step = n]
        /\ Goto(t, IF n = steps THEN "close" ELSE "fading")
        /\ UNCHANGED <<frame, opened, argv3, strip, up, happened>>

-----------------------------------------------------------------------------
(* upload() of thread t, a line of the file at a time.                     *)

\* The unit is stopped and shows black.
BeginUpload(t) ==
    /\ At_(t, "begin")
    /\ Uploading
    /\ cmd.file # None
    /\ \E g \in Garbage :
          /\ up' = [up EXCEPT ![t] = UploadStart(g)]
          /\ IF g = 0 THEN UNCHANGED happened ELSE Happens("uninit")
    /\ unit' = [unit EXCEPT ![handle[t]].running = FALSE, ![handle[t]].shown = Black,
                            ![handle[t]].level = unit[handle[t]].saved]
    /\ Goto(t, "lines")
    /\ UNCHANGED <<frame, opened, argv3, strip, shades>>

AtLine(t) == At_(t, "lines") /\ up[t].line < LineCount(cmd.file)
LineNo(t) == up[t].line

\* Lines 0 and 1: an unknown format ends the upload there and then.
UploadVersion(t) ==
    /\ AtLine(t)
    /\ LineNo(t) < 2
    /\ up' = [up EXCEPT ![t] = NextLine(up[t])]
    /\ Goto(t, IF LineNo(t) = 1 /\ cmd.file.version = "unknown" THEN "close" ELSE "lines")
    /\ UNCHANGED <<frame, opened, argv3, strip, shades, unit, happened>>

UploadHeader(t) ==
    /\ AtLine(t)
    /\ LineNo(t) = 2
    /\ up' = [up EXCEPT ![t] = NextLine(ReadHeader(@, cmd.file, t - 1, cmd.word = "upload"))]
    /\ UNCHANGED <<frame, opened, argv3, pc, strip, shades, unit, happened>>

\* The line goes into its slot if it is part of the loop and in use.
LoadLine(t) ==
    LET line == cmd.file.lines[LineNo(t) - 2] IN
    IF ToLoad(up[t])
    THEN /\ unit' = [unit EXCEPT ![handle[t]].slots[Target(up[t])] =
                                     SlotOf(line, up[t].device)]
         /\ IF line.hold > 57 \/ line.fade > 57
            THEN Happens("hex_times") ELSE UNCHANGED happened
    ELSE UNCHANGED <<unit, happened>>

\* Slip: the line number is counted up only where a slot is written.
AdvanceLoaded(t) == up' = IF ToLoad(up[t]) THEN [up EXCEPT ![t] = NextLine(up[t])] ELSE up

Advance(t) == up' = [up EXCEPT ![t] = NextLine(up[t])]

UploadSlot(t) ==
    /\ AtLine(t)
    /\ LineNo(t) > 2
    /\ LoadLine(t)
    /\ Advance(t)
    /\ UNCHANGED <<frame, opened, argv3, pc, strip, shades>>

\* After the last line: setActiveSlots() and start().
UploadEnd(t) ==
    /\ At_(t, "lines")
    /\ ~AtLine(t)
    /\ unit' = [unit EXCEPT
                  ![handle[t]].active = activeSlotsOf(up[t].active - up[t].loopStart),
                  ![handle[t]].running = TRUE]
    /\ Goto(t, "close")
    /\ UNCHANGED <<frame, opened, argv3, strip, up, shades, happened>>

Close(t) ==
    /\ At_(t, "close")
    /\ opened' = opened \ {handle[t]}
    /\ Goto(t, "ended")
    /\ UNCHANGED <<frame, argv3, strip, up, shades, unit, happened>>

-----------------------------------------------------------------------------
Main == Start \/ OpenAll \/ OpenOne \/ OneFound \/ LookUp \/ NotFound \/ LookedUp
        \/ Reopen \/ ShowSerial \/ Launch \/ (\E t \in Threads : NextCall(t)) \/ Finish

Run(t) == Simple(t) \/ BeginColor(t) \/ StripStep(t) \/ StripEnd(t) \/ Show(t)
          \/ FadeStep(t) \/ BeginUpload(t) \/ UploadVersion(t) \/ UploadHeader(t)
          \/ UploadSlot(t) \/ UploadEnd(t) \/ Close(t)

Next == Main \/ \E t \in Threads : Run(t)

Spec == Init /\ [][Next]_vars

\* The process runs: some thread that can take a step does.  No thread need be
\* preferred, because each has a bounded number of them to take.
FairSpec == Spec /\ WF_vars(Next)

-----------------------------------------------------------------------------
Never(m) == m \notin happened
Listed == hid_enumerate
OnBus(u) == u \in Range(Listed)

\* The units in the order they should be commanded in, as the user put it, and which
\* of them are there.
Asked == IF ident.kind \in {"none", "all"} THEN Listed ELSE ident.serials
Found == {k \in DOMAIN Asked : OnBus(Asked[k])}

\* Sequence s is sequence t at some of the places S, in the same order.
PickedFrom(s, t, S) ==
    \E place \in [DOMAIN s -> S] :
        /\ \A i, j \in DOMAIN s : i < j => place[i] < place[j]
        /\ \A i \in DOMAIN s : s[i] = t[place[i]]

\* The command goes to the units the user named and to no other, each once, in
\* the order named (for "all" that of the bus), which is what decides on the
\* column of a sequence file each gets.  Units are missing only if they could
\* not be opened or there are more than MAX_DEVICES (ptrim.cc:8-147).
RightUnits ==
    main \in {"launch", "run"} =>
        /\ IsInjective(handle)
        /\ PickedFrom(handle, Asked, Found)
        /\ Never("open_fail") /\ Cardinality(Found) <= MAX_DEVICES =>
              Range(handle) = {Asked[k] : k \in Found}

\* The characters of a text without its spaces, in their order.
Unspaced(text) ==
    LET kept   == {k \in DOMAIN text : text[k] # Space}
        Nth(j) == CHOOSE k \in kept : Cardinality({i \in kept : i <= k}) = j
    IN  [j \in 1 .. Cardinality(kept) |-> text[Nth(j)]]

\* The number of digits in the form of a colour makeColor() takes n characters for.
Form(n) == CASE n < 6 -> 3 [] n >= 6 /\ n < Half -> 6 [] n >= Half /\ n < Full -> Half
             [] n >= Full -> Full

\* The value of LED component c (0 .. Half - 1) in a colour the user typed.
Intended(digits, c) ==
    LET D(k) == Digit(digits[k + 1]) IN
    CASE Len(digits) = 3  -> 17 * D(c % 3)
      [] Len(digits) = 6  -> 16 * D(2 * (c % 3)) + D(2 * (c % 3) + 1)
      [] Len(digits) = Half -> 17 * D(c)
      [] Len(digits) = Full -> 16 * D(2 * c) + D(2 * c + 1)

\* A unit that was given a colour, or faded to one, shows what the user typed,
\* in each of the forms of ptrim.1:133, if no two threads worked on the text at
\* once.  One thread after the other finds the digits followed by what was left
\* behind them, so with several units the spaces must not make the text as long as
\* the next form (ptrim-lib.cc:230-238).
ColorAsTyped ==
    LET digits == Unspaced(cmd.text)
        Typed  == /\ Range(digits) \subseteq HexDigits /\ Len(digits) \in {3, 6, Half, Full}
                  /\ Len(handle) = 1 \/ Form(Len(cmd.text)) = Len(digits)
    IN  cmd.word \in {"color", "fade"} /\ Never("same_string") /\ Typed =>
            \A t \in 1 .. Len(handle) :
                pc[t] \in {"close", "ended"} =>
                    \A c \in 0 .. Half - 1 : unit[handle[t]].shown[c + 1] = Intended(digits, c)

\* After an upload a download prints, for every slot in use, the line of the
\* file that belongs to the unit: the loop of the sequence from its start, in
\* the column of the unit's place in the selection, with the same times.
RoundTrip ==
    \A t \in 1 .. Len(handle) :
        (Uploading /\ cmd.file # None /\ pc[t] = "ended"
         /\ cmd.file.version # "unknown" /\ happened \cap {"uninit", "hex_times"} = {}) =>
            LET f      == cmd.file
                multi  == f.version = "multi"
                skip   == IF multi THEN f.loopStart - 1 ELSE 0
                column == IF multi THEN ((t - 1) % f.devices) + 1 ELSE 1
                inUse  == IF f.active - skip > SLOTS THEN SLOTS ELSE f.active - skip
                u      == unit[handle[t]]
                back   == download(u.active, u.slots, TRUE)
            IN  /\ back.active = inUse
                /\ \A k \in 1 .. inUse :
                      LET was == f.lines[k + skip] now == back.lines[k] IN
                      /\ now.hold = was.hold /\ now.fade = was.fade
                      /\ \A c \in 1 .. Half :
                            Digit(now.colors[1][c]) = Digit(was.colors[column][c])

\* The program ends, unless it uploads a file with more lines than an unsigned
\* char can number: lineNumber then starts again at 0 (ptrim-lib.cc:437-517).
Ends ==
    <>(status # "running") \/ (Uploading /\ cmd.file # None /\ LineCount(cmd.file) >= LineWrap)

=============================================================================
