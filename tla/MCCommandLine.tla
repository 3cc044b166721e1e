--------------------------- MODULE MCCommandLine ---------------------------
(* A bus with three PlasmaTrims and other devices, one identifier of each  *)
(* kind, colours in all the forms the manual names, small sequence files.  *)
EXTENDS CommandLine

CONSTANTS trimA, trimB, trimC, absent

On(u, perInterface, hid, plasma) ==
    [unit |-> u, perInterface |-> perInterface, hid |-> hid, plasma |-> plasma]
MCBus == <<On(absent, FALSE, TRUE, TRUE), On(trimB, TRUE, TRUE, TRUE),
           On(absent, TRUE, TRUE, FALSE), On(trimA, TRUE, TRUE, TRUE),
           On(trimB, TRUE, FALSE, TRUE), On(trimC, TRUE, TRUE, TRUE)>>

Ident(kind, serials) == [kind |-> kind, serials |-> serials]
MCIdentifiers ==
    {Ident("none", <<>>), Ident("version", <<>>), Ident("all", <<>>),
     Ident("one", <<trimA>>), Ident("one", <<absent>>), Ident("list", <<absent, trimA, trimB>>),
     Ident("list", <<trimC, trimC, trimA>>)}

Zero == 48      \* "0"
Ten == 97       \* "a"
Fifteen == 70   \* "F"
Repeat(text, n) == [k \in 1 .. n * Len(text) |-> text[((k - 1) % Len(text)) + 1]]
Short == <<Fifteen, Ten, Zero>>
Long  == <<Fifteen, Zero, Ten, Fifteen, Zero, 57>>
Spaced == <<Fifteen, Space, Ten, Space, Zero>>
Trailing == <<Fifteen, Space, Ten, Zero, Space>>
Gap == <<Space, Space, Space>>
Apart == Gap \o <<Fifteen>> \o Gap \o <<Ten>> \o Gap \o <<Zero>>
Texts == {Short, Long, Spaced, Trailing, Apart, Repeat(Short, LEDS), Repeat(Long, LEDS)}

Line(hold, fade, first, second) ==
    [hold |-> hold, fade |-> fade,
     colors |-> <<Repeat(<<first>>, Half), Repeat(<<second, first>>, Half \div 2)>>]
Lines == <<Line(49, 48, Zero, Ten), Line(50, 57, Fifteen, Zero),
           Line(57, 49, Ten, Fifteen), Line(51, 51, 56, Ten),
           Line(48, 52, 55, Zero), Line(49, 49, Zero, 54)>>
File(version, active, loopStart, lines) ==
    [version |-> version, devices |-> 2, loopStart |-> loopStart, active |-> active,
     digits |-> 2, lines |-> lines]
Files == {File("simple", 2, 1, SubSeq(Lines, 1, 3)),
          File("multi", 3, 2, SubSeq(Lines, 1, 4)),
          File("multi", 5, 2, SubSeq(Lines, 1, 5)),
          File("simple", 1, 1, <<Line(65, 50, Ten, Zero)>>),
          File("unknown", 1, 1, SubSeq(Lines, 1, 2))}

Endless == File("multi", 6, 2, Lines)

Cmd(word, text, arg) ==
    [word |-> word, text |-> text, arg |-> arg, time |-> 1, file |-> None, stdin |-> FALSE]
Plain(word) == Cmd(word, <<>>, None)
MCCommands ==
    {Plain(w) : w \in {"info", "query", "start", "stop", "download", "full_download"}}
    \cup {Plain("upload"), Cmd("name", <<65, 10, 66>>, None), Cmd("brightness", <<>>, 0)}
    \cup {Cmd("color", t, None) : t \in Texts} \cup {Cmd("color", Short, 101)}
    \cup {Cmd("fade", Long, None), [Cmd("fade", Short, None) EXCEPT !.time = 0]}
    \cup {[Plain(w) EXCEPT !.file = f] : w \in {"upload", "full_upload"}, f \in Files}
    \cup {[Plain("upload") EXCEPT !.file = Endless, !.stdin = TRUE]}

=============================================================================
