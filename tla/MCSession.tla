----------------------------- MODULE MCSession -----------------------------
(* A command of each kind, and commands with a line in the middle that the *)
(* protocol gives a meaning to.                                            *)
EXTENDS Session

Ask(kind, lines) == [kind |-> kind, lines |-> lines]
MCCommands ==
    {Ask("show", <<"text", "text">>),
     Ask("plain", <<"text", "text", "text">>),
     Ask("plain", <<"text", "text", "dot">>),
     Ask("plain", <<"text", "bang", "text">>),
     Ask("upload", <<"text", "text", "text", "text", "text">>),
     Ask("upload", <<"text", "text", "text", "empty", "text">>),
     Ask("upload", <<"text", "text", "text", "text", "text", "text">>),
     Ask("download", <<"text", "text">>)}

=============================================================================
